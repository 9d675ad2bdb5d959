--------------------------- MODULE MediaSessions ---------------------------
(***************************************************************************)
(* SpeechToTextSession, ImageRecognitionSession and OCRSession: requests   *)
(* that are answered by delayed replies. Their handlers run one after the  *)
(* other on the sessions' thread, every living session hears the result of *)
(* every task, and executors run on pool threads. Of TaskManager only its  *)
(* promise is kept (TaskScheduling): a task waits, is dropped while it     *)
(* waits, or executes and is reported once, in the order of the events.    *)
(* The executors of an OCR session share its DTKOCRInterface and go to it  *)
(* through the session object itself.                                      *)
(***************************************************************************)
EXTENDS Naturals, Sequences, FiniteSets

CONSTANTS
    SttSession, ImageSession, OcrSession,
    NoSession,
    MaxTasks       \* bound: requests

Session == SttSession \cup ImageSession \cup OcrSession

ASSUME MediaAssumption ==
    /\ NoSession \notin Session
    /\ SttSession \cap (ImageSession \cup OcrSession) = {}
    /\ ImageSession \cap OcrSession = {}
    /\ MaxTasks \in Nat

Task == 1..MaxTasks
NoTask == 0

VARIABLES
    alive,         \* the session object exists
    recognizing,   \* recognizing
    pending,       \* tasks with an entry in pendingMessages
    active,        \* SessionBase::activeTasks
    attached,      \* OCR sessions with a currentOCRInterface
    engine,        \* its ocrEngine: absent, or the image it analysed last
    stage,         \* where each task is
    owner,         \* the session that created it
    details,       \* tasks that ask for the text boxes
    answer,        \* what the executor of a task came to
    events,        \* results posted to the sessions' thread
    process,       \* "running" or "crashed"
    reply,         \* observed: the delayed replies sent for a task
    silenced,      \* observed: tasks whose request was forgotten by terminate
    mixed          \* observed: tasks whose engine was used while they had it

taskVars == <<stage, owner, details, answer, events>>
observed == <<reply, silenced, mixed>>
mediaVars == <<alive, recognizing, pending, active, attached, engine, taskVars, process,
          observed>>

\* What an executor returns: nothing yet, or whether it succeeded, and whose
\* text and whose boxes are in the result.
Answer == [ok : BOOLEAN, text : 0..MaxTasks, boxes : 0..MaxTasks]
Failed == [ok |-> FALSE, text |-> NoTask, boxes |-> NoTask]
Plain(t) == [ok |-> TRUE, text |-> t, boxes |-> NoTask]

\* What a client may receive: the outcome of a task, or a termination error.
Replies == {"ok", "error", "terminated"}
NoEngine == MaxTasks + 1

MediaInit ==
    /\ alive = [s \in Session |-> TRUE]
    /\ recognizing = [s \in Session |-> FALSE]
    /\ pending = [s \in Session |-> {}]
    /\ active = [s \in Session |-> {}]
    /\ attached = OcrSession
    /\ engine = [s \in OcrSession |-> NoEngine]
    /\ stage = [t \in Task |-> "new"]
    /\ owner = [t \in Task |-> NoSession]
    /\ details = {}
    /\ answer = [t \in Task |-> Failed]
    /\ events = <<>>
    /\ process = "running"
    /\ reply = [t \in Task |-> <<>>]
    /\ silenced = {} /\ mixed = {}

Running == process = "running"

-----------------------------------------------------------------------------
\* Requests.

\* Task ids are given out in order.
Fresh(t) == stage[t] = "new" /\ \A u \in Task : u < t => stage[u] # "new"

SubmitTask(s, t) ==
    /\ active' = [active EXCEPT ![s] = @ \cup {t}]
    /\ stage' = [stage EXCEPT ![t] = "waiting"]
    /\ owner' = [owner EXCEPT ![t] = s]

\* The message is kept for a delayed reply, and the session is busy.
DelayReply(s, t) ==
    /\ pending' = [pending EXCEPT ![s] = @ \cup {t}]
    /\ recognizing' = [recognizing EXCEPT ![s] = TRUE]

RecognizeSpeech(s, t) ==
    /\ Running /\ s \in SttSession /\ alive[s]
    /\ ~recognizing[s]
    /\ Fresh(t)
    /\ SubmitTask(s, t) /\ DelayReply(s, t)
    /\ UNCHANGED <<alive, attached, engine, details, answer, events, process, observed>>

\* recognizeImage, recognizeImageData and recognizeImageUrl; an image that
\* cannot be read or has no known format is refused before anything changes.
RecognizeImage(s, t) ==
    /\ Running /\ s \in ImageSession /\ alive[s]
    /\ ~recognizing[s]
    /\ Fresh(t)
    /\ SubmitTask(s, t) /\ DelayReply(s, t)
    /\ UNCHANGED <<alive, attached, engine, details, answer, events, process, observed>>

\* recognizeFile, recognizeImage and recognizeRegion of an OCR session do not
\* look at recognizing.
RecognizeText(s, t, boxes) ==
    /\ Running /\ s \in OcrSession /\ alive[s]
    /\ s \in attached
    /\ Fresh(t)
    /\ SubmitTask(s, t) /\ DelayReply(s, t)
    /\ details' = IF boxes THEN details \cup {t} ELSE details
    /\ UNCHANGED <<alive, attached, engine, answer, events, process, observed>>

-----------------------------------------------------------------------------
\* Ending a session's work.

Dropped(s) == [t \in Task |-> IF t \in active[s] /\ stage[t] = "waiting" THEN "dropped"
                                                                          ELSE stage[t]]

CleanupTasks(s) ==
    /\ stage' = Dropped(s)
    /\ active' = [active EXCEPT ![s] = {}]

ForgetRequests(s) ==
    /\ pending' = [pending EXCEPT ![s] = {}]
    /\ recognizing' = [recognizing EXCEPT ![s] = FALSE]

Said(S, what) == [t \in Task |-> IF t \in S THEN Append(reply[t], what) ELSE reply[t]]

\* Speech and image sessions forget their requests without a word.
Terminate(s) ==
    /\ Running /\ s \in SttSession \cup ImageSession /\ alive[s]
    /\ CleanupTasks(s) /\ ForgetRequests(s)
    /\ silenced' = silenced \cup pending[s]
    /\ UNCHANGED <<alive, attached, engine, owner, details, answer, events, process,
                   reply, mixed>>

DestroyRecognition(s) ==
    /\ Running /\ s \in SttSession \cup ImageSession /\ alive[s]
    /\ CleanupTasks(s) /\ ForgetRequests(s)
    /\ alive' = [alive EXCEPT ![s] = FALSE]
    /\ silenced' = silenced \cup pending[s]
    /\ UNCHANGED <<attached, engine, owner, details, answer, events, process, reply,
                   mixed>>

\* cleanup of an OCR session answers its requests and drops the interface,
\* whatever its executors are doing with it.
AnswerTerminated(s) == Said(pending[s], "terminated")

CleanupOcr(s) ==
    /\ ForgetRequests(s)
    /\ reply' = AnswerTerminated(s)
    /\ attached' = attached \ {s}
    /\ engine' = [engine EXCEPT ![s] = NoEngine]

\* terminate is cleanup: the tasks stay where they are.
TerminateOcr(s) ==
    /\ Running /\ s \in OcrSession /\ alive[s]
    /\ CleanupOcr(s)
    /\ UNCHANGED <<alive, active, taskVars, process, silenced, mixed>>

DestroyOcr(s) ==
    /\ Running /\ s \in OcrSession /\ alive[s]
    /\ CleanupOcr(s) /\ CleanupTasks(s)
    /\ alive' = [alive EXCEPT ![s] = FALSE]
    /\ UNCHANGED <<owner, details, answer, events, process, silenced, mixed>>

-----------------------------------------------------------------------------
\* Executors, on pool threads.

\* The result is posted to the sessions' thread.
Post(t, result) ==
    /\ stage' = [stage EXCEPT ![t] = "posted"]
    /\ answer' = [answer EXCEPT ![t] = result]
    /\ events' = Append(events, t)

\* The executors of the other sessions make a provider and an interface of
\* their own and touch no session. What the service answers is a result, an
\* error of its own included; only an interface that is missing throws.
Recognized(t, found) == IF found THEN Plain(t) ELSE Failed

ExecuteAlone(t, found) ==
    /\ Running /\ stage[t] = "waiting"
    /\ Post(t, Recognized(t, found))
    /\ UNCHANGED <<alive, recognizing, pending, active, attached, engine, owner, details,
                   process, observed>>

ExecuteSpeech(t, found) == owner[t] \in SttSession /\ ExecuteAlone(t, found)
ExecuteImage(t, found) == owner[t] \in ImageSession /\ ExecuteAlone(t, found)

\* performFileRecognition and its like find no interface and throw.
NoInterface(t) ==
    /\ Running
    /\ stage[t] = "waiting" /\ owner[t] \in OcrSession
    /\ alive[owner[t]] /\ owner[t] \notin attached
    /\ Post(t, Failed)
    /\ UNCHANGED <<alive, recognizing, pending, active, attached, engine, owner, details,
                   process, observed>>

Attached(t) == alive[owner[t]] /\ owner[t] \in attached

\* initialize makes the engine when there is none; its plugin may not load.
\* The failure is an error object, which is a result like any other.
BeginRecognition(t, loads) ==
    LET s == owner[t]
    IN  /\ Running
        /\ stage[t] = "waiting" /\ s \in OcrSession
        /\ Attached(t)
        /\ IF engine[s] = NoEngine /\ ~loads
           THEN /\ Post(t, [Failed EXCEPT !.ok = TRUE])
                /\ UNCHANGED engine
           ELSE /\ engine' = [engine EXCEPT ![s] = IF @ = NoEngine THEN NoTask ELSE @]
                /\ stage' = [stage EXCEPT ![t] = "begun"]
                /\ UNCHANGED <<answer, events>>
        /\ UNCHANGED <<alive, recognizing, pending, active, attached, owner, details,
                       process, observed>>

\* Mutant: the image stays when only the text is wanted.
AnalyzeForBoxes(s, t) == [engine EXCEPT ![s] = IF t \in details THEN t ELSE @]
\* setImage and analyze, under engineMutex.
Analyze(s, t) == [engine EXCEPT ![s] = t]

Extracted(s) == {t \in Task : owner[t] = s /\ stage[t] = "extracted"}

ExtractText(t) ==
    LET s == owner[t]
    IN  /\ Running
        /\ stage[t] = "begun"
        /\ Attached(t)
        /\ engine' = Analyze(s, t)
        /\ answer' = [answer EXCEPT ![t] = Plain(engine'[s])]
        /\ stage' = [stage EXCEPT ![t] = "extracted"]
        /\ mixed' = mixed \cup Extracted(s)
        /\ UNCHANGED <<alive, recognizing, pending, active, attached, owner, details,
                       events, process, reply, silenced>>

\* formatOCRResult takes the boxes the engine has by now.
FormatResult(t) ==
    LET s == owner[t]
        boxes == IF t \in details THEN engine[s] ELSE NoTask
    IN  /\ Running
        /\ stage[t] = "extracted"
        /\ Attached(t)
        /\ Post(t, [answer[t] EXCEPT !.boxes = boxes])
        /\ UNCHANGED <<alive, recognizing, pending, active, attached, engine, owner,
                       details, process, observed>>

\* The interface, or the session itself, was freed under the executor: it
\* comes back with something, or the process ends.
UseFreed(t) ==
    /\ Running
    /\ \/ stage[t] \in {"begun", "extracted"} /\ ~Attached(t)
       \/ stage[t] = "waiting" /\ owner[t] \in OcrSession /\ ~alive[owner[t]]
    /\ process' \in {"running", "crashed"}
    /\ \E ok \in BOOLEAN : Post(t, [answer[t] EXCEPT !.ok = ok])
    /\ UNCHANGED <<alive, recognizing, pending, active, attached, engine, owner, details,
                   observed>>

-----------------------------------------------------------------------------
\* Results, on the sessions' thread.

Waits(t, S) == \E s \in S : alive[s] /\ t \in pending[s]

Answered(t) == {u \in {t} : Waits(u, Session)}

\* Mutant: any result frees the session, as in TextChatSession.
FreedByAnyone(s, t) == TRUE
FreedBy(s, t) == t \in pending[s]

HandleRecognitionResult(s, t) == recognizing[s] /\ ~FreedBy(s, t)
\* As written: busy when nothing is pending any more.
HandleTextResult(s, t) ==
    IF t \in pending[s] THEN pending[s] = {t} ELSE recognizing[s]

Erased(s, t) == IF alive[s] THEN pending[s] \ {t} ELSE pending[s]

Deliver ==
    /\ Running /\ events # <<>>
    /\ LET t == Head(events)
       IN  /\ stage' = [stage EXCEPT ![t] = "over"]
           /\ recognizing' =
                [s \in Session |->
                    IF ~alive[s] THEN recognizing[s]
                    ELSE IF s \in OcrSession THEN HandleTextResult(s, t)
                    ELSE HandleRecognitionResult(s, t)]
           /\ reply' = Said(Answered(t), IF answer[t].ok THEN "ok" ELSE "error")
           /\ pending' = [s \in Session |-> Erased(s, t)]
    /\ events' = Tail(events)
    /\ UNCHANGED <<alive, active, attached, engine, owner, details, answer, process,
                   silenced, mixed>>

-----------------------------------------------------------------------------

Request ==
    \E t \in Task :
        \/ \E s \in SttSession : RecognizeSpeech(s, t)
        \/ \E s \in ImageSession : RecognizeImage(s, t)
        \/ \E s \in OcrSession, boxes \in BOOLEAN : RecognizeText(s, t, boxes)

Leaving ==
    \/ \E s \in SttSession \cup ImageSession : Terminate(s) \/ DestroyRecognition(s)
    \/ \E s \in OcrSession : TerminateOcr(s) \/ DestroyOcr(s)

Executor(t) ==
    \/ \E found \in BOOLEAN : ExecuteSpeech(t, found) \/ ExecuteImage(t, found)
    \/ \E loads \in BOOLEAN : BeginRecognition(t, loads)
    \/ NoInterface(t) \/ ExtractText(t) \/ FormatResult(t) \/ UseFreed(t)

MediaNext == Request \/ Leaving \/ Deliver \/ \E t \in Task : Executor(t)

MediaSpec == MediaInit /\ [][MediaNext]_mediaVars

\* The sessions' thread runs its events, and executors return, those of speech
\* excepted: a recognition of a file waits for its server without a limit.
Fairness ==
    /\ WF_mediaVars(Deliver)
    /\ \A t \in Task : WF_mediaVars(owner[t] \notin SttSession /\ Executor(t))

MediaFairSpec == MediaSpec /\ Fairness

-----------------------------------------------------------------------------

\* Every variable keeps its type, and a destroyed session keeps nothing.
MediaTypeOK ==
    /\ attached \subseteq OcrSession
    /\ engine \in [OcrSession -> 0..NoEngine]
    /\ \A s \in Session : /\ pending[s] \subseteq {t \in Task : owner[t] = s}
                          /\ active[s] \subseteq {t \in Task : owner[t] = s}
                          /\ ~alive[s] => pending[s] \cup active[s] = {} /\ ~recognizing[s]
    /\ stage \in [Task -> {"new", "waiting", "begun", "extracted", "posted", "over",
                           "dropped"}]
    /\ answer \in [Task -> Answer]
    /\ \A t \in Task : \A i \in 1..Len(reply[t]) : reply[t][i] \in Replies
    /\ process \in {"running", "crashed"}

\* A speech or image session is busy exactly while its one request waits for an
\* answer: the results of other sessions, which handleRecognitionResult hears
\* as well, neither free it nor use up its reply.
BusyWithOneRequest ==
    \A s \in SttSession \cup ImageSession :
        /\ recognizing[s] <=> pending[s] # {}
        /\ Cardinality(pending[s]) <= 1

\* Every request is answered exactly once or still pending, across results,
\* termination and destruction; only speech and image sessions leave requests
\* without an answer, and only when they are terminated or destroyed
\* (pendingMessages.clear()).
AnsweredOnce ==
    \A t \in Task : stage[t] # "new" =>
        Len(reply[t]) + (IF Waits(t, Session) THEN 1 ELSE 0)
                      + (IF t \in silenced THEN 1 ELSE 0) = 1

\* A request is never answered before its executor came back, and then with
\* what the executor came to: a termination in between takes its place.
ReplyIsTheOutcome ==
    \A t \in Task : \A i \in 1..Len(reply[t]) :
        reply[t][i] # "terminated" =>
            stage[t] = "over" /\ (reply[t][i] = "ok" <=> answer[t].ok)

\* The text of an OCR result is the request's own, and so are the boxes unless
\* another request of the session used the engine in between:
\* formatOCRResult takes engineMutex a second time (dtkocr.cpp:269).
BoxesAreTheTexts ==
    \A t \in Task :
        /\ answer[t].text \in {NoTask, t}
        /\ answer[t].boxes \in {NoTask, t} \/ t \in mixed

\* A request of an image or an OCR session ends: it is answered or forgotten,
\* unless the process is gone.
PictureRequestsEnd ==
    \A t \in Task :
        Waits(t, ImageSession \cup OcrSession)
            ~> ~Waits(t, ImageSession \cup OcrSession) \/ ~Running

\* Every request of a media session has one answer, its own, and the session is
\* busy until then.
RequestsAnswered == MediaTypeOK /\ BusyWithOneRequest /\ AnsweredOnce /\ ReplyIsTheOutcome
=============================================================================
