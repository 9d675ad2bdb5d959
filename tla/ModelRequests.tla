---------------------------- MODULE ModelRequests ----------------------------
(***************************************************************************)
(* A request to a provider of models, on the pool thread that runs its     *)
(* task: a nested event loop (HttpEventLoop) waits for the network reply,  *)
(* hears what arrives, times out, and is aborted by the session. Before    *)
(* it, a local model is probed, and Ernie fetches an access token that all *)
(* its requests share. ModelCenter hands the answer to the task.           *)
(*                                                                         *)
(* An answer is a number of events, each of them in two halves, as the     *)
(* network may cut it anywhere: it has arrived up to the half "heard".     *)
(***************************************************************************)
EXTENDS Integers, Sequences, FiniteSets

CONSTANTS
    Request,    \* the requests, each on its own thread
    Account,    \* the accounts at Ernie (key and secret)
    Events      \* the events of an answer

\* The empty QString: no token, no account.
Empty == ""

\* Of the constants; a module that extends this one assumes it.
RequestsAssumption == Events \in Nat \ {0} /\ Empty \notin Account /\ "free" \notin Request

VARIABLES
    asked,       \* of every request: provider, call, account; what is asked
    at,          \* of every request: where its thread is
    loop,        \* of every request: its HttpEventLoop, or its image's loop
    heard,       \* of every request: the halves that have arrived
    cuts,        \* of every request: where the answer was cut
    parsed,      \* of every request: the halves Ernie's parser no longer keeps
    streamed,    \* of every request: the events given to the session
    stop,        \* of every request: the session wants no more of them
    abort,       \* of every request: "none", "posted", "heard", "late", "unheard"
    token,       \* of every request: whose access token it has, or Empty
    overtaken,   \* requests between whose unlock and read another one stored
    outcome,     \* of every request: what its task ends with
    accessToken, \* the static token, by the account it is for; Empty is none
    accountID,   \* the account of the last fetch
    holder       \* the request that holds accessMtx, or "free"

requestVars == <<asked, at, loop, heard, cuts, parsed, streamed, stop, abort, token, overtaken, outcome,
                 accessToken, accountID, holder>>

tokenVars == <<token, overtaken, accessToken, accountID, holder>>
streamVars == <<heard, cuts, parsed, streamed, stop>>

Asked(provider, call, account) == [provider |-> provider, call |-> call, account |-> account]
Question ==
    {Asked(p, c, Empty) : p \in {"openai", "modelhub"}, c \in {"chat", "function", "embedding"}}
    \cup {Asked("ernie", c, a) : c \in {"chat", "function"}, a \in Account \cup {Empty}}
    \cup {Asked("doubao", "image", Empty)}
    \cup {Asked("absent", c, Empty) : c \in {"chat", "function"}}
Unasked == Asked("none", "none", Empty)

-----------------------------------------------------------------------------
(* HttpEventLoop, on one reply. A handler is a function of the loop.       *)

\* reply: "open", or how it ended; timer: it runs; fired: it has fired.
NewLoop == [reply |-> "open", timer |-> TRUE, fired |-> FALSE, isTimeout |-> FALSE,
            quit |-> FALSE, error |-> "none"]
\* Mutant: exec does not start the timer.
LoopWithoutTimer == [NewLoop EXCEPT !.timer = FALSE]
ExecutedLoop == NewLoop
NoLoop == [NewLoop EXCEPT !.timer = FALSE, !.quit = TRUE]

\* onHttpReplyFinished. "ok", "429", "auth", "failed", "canceled" are the ends
\* of a reply; authentication without a password aborts it.
OnHttpReplyFinished(l, how) ==
    [l EXCEPT !.reply = how, !.timer = FALSE, !.quit = TRUE,
              !.error = IF l.isTimeout THEN "timeout"
                        ELSE CASE how = "ok" -> "none"
                               [] how \in {"auth", "canceled"} -> "canceled"
                               [] OTHER -> how]

\* QNetworkReply::abort emits finished before it returns.
AbortedLoop(l) == IF l.reply = "open" THEN OnHttpReplyFinished(l, "canceled") ELSE l

\* abortReply.
AbortReply(l) == [AbortedLoop([l EXCEPT !.timer = FALSE]) EXCEPT !.quit = TRUE]

\* A mutant sets m_isTimeout after the abort.
AbortThenFlag(l) ==
    [AbortedLoop([l EXCEPT !.timer = FALSE, !.fired = TRUE])
        EXCEPT !.isTimeout = TRUE, !.quit = TRUE]
OnHttpTimeout(l) ==
    [AbortedLoop([l EXCEPT !.timer = FALSE, !.fired = TRUE, !.isTimeout = TRUE])
        EXCEPT !.quit = TRUE]

\* What the interfaces make of it (setLastError; nobody asks for lastError).
\* Embeddings ask the reply, to which a timeout was an abort.
NetReplyError(r) ==
    CASE loop[r].reply = "auth" -> "auth"
      [] loop[r].reply = "429" -> "server"
      [] asked[r].call = "embedding" /\ loop[r].reply = "canceled" -> "canceled"
      [] OTHER -> loop[r].error

-----------------------------------------------------------------------------
(* The parsers of the answer.                                              *)

Ascending(S) == [i \in 1..Cardinality(S) |-> CHOOSE e \in S : Cardinality({d \in S : d < e}) = i - 1]

\* The events that lie within the halves after "from".
Within(from, to) == {e \in 1..Events : 2 * e - 1 > from /\ 2 * e <= to}

\* AIConversation::parseContentString sees one chunk: an event that is cut is
\* in neither part. ErnieConversation keeps what it could not parse, and waits
\* for a chunk that ends with a brace, as every event does and a half may.
OfChunk(r, to) == Within(heard[r], to)                                      \* mutant
OfKept(r, to) == Within(parsed[r], to)

Parses(r, to, brace) == asked[r].provider # "ernie" \/ to % 2 = 0 \/ brace
DeltaContent(r, to, brace) ==
    IF ~Parses(r, to, brace) THEN {}
    ELSE IF asked[r].provider = "ernie" THEN OfKept(r, to) ELSE OfChunk(r, to)

\* update, with all that has arrived: only a stream can be broken off, and
\* Ernie's must end with a brace even then.
Content(r, brace) ==
    IF heard[r] = 2 * Events THEN 1..Events
    ELSE IF asked[r].call = "chat" /\ Parses(r, heard[r], brace) THEN Within(0, heard[r])
    ELSE {}

-----------------------------------------------------------------------------
(* The task of a request, through ModelCenter.                             *)

\* The executor turns the code it is given into a result or an exception.
\* ModelCenter::chat gives 0 for everything that was sent at all or not.
Told(code, text) == [code |-> code, text |-> text]
NotYet == Told("none", {})

\* functionCalling gives 20 for an answer that calls no function.
Answer(call, function, text) ==
    CASE call = "function" -> IF function THEN Told("ok", text) ELSE Told("error", text)
      [] OTHER -> Told("ok", text)

\* What ModelUtils gives where no provider or no interface is to be had.
ErrorContent == Told("error", {})

Finish(r, told) ==
    /\ at' = [at EXCEPT ![r] = "done"]
    /\ outcome' = [outcome EXCEPT ![r] = told]

Send(r) ==
    /\ at' = [at EXCEPT ![r] = "reply"]
    /\ loop' = [loop EXCEPT ![r] = ExecutedLoop]

Ask(r, question) ==
    /\ at[r] = "idle"
    /\ asked' = [asked EXCEPT ![r] = question]
    /\ CASE question.provider = "modelhub" ->
                /\ at' = [at EXCEPT ![r] = "probe"] /\ UNCHANGED <<loop, outcome>>
         [] question.provider = "ernie" /\ question.account # Empty ->
                /\ at' = [at EXCEPT ![r] = "lock"] /\ UNCHANGED <<loop, outcome>>
         [] question.provider = "ernie" /\ question.account = Empty ->
                /\ Finish(r, Answer(question.call, FALSE, {})) /\ UNCHANGED loop
         [] question.provider = "absent" -> Finish(r, ErrorContent) /\ UNCHANGED loop
         [] OTHER -> Send(r) /\ UNCHANGED outcome
    /\ UNCHANGED <<streamVars, abort, tokenVars>>

\* ModelhubWrapper::ensureRunning waits in event loops of its own.
Probed(r) ==
    /\ at[r] = "probe"
    /\ \/ Send(r) /\ UNCHANGED outcome
       \/ Finish(r, IF asked[r].call = "embedding" THEN Told("error", {})
                    ELSE Answer(asked[r].call, FALSE, {})) /\ UNCHANGED loop
    /\ UNCHANGED <<asked, streamVars, abort, tokenVars>>

-----------------------------------------------------------------------------
(* ErnieChat::updateAccessToken.                                           *)

OwnToken(r) == accessToken # Empty /\ accountID = asked[r].account

TakeLock(r) ==
    /\ at[r] = "lock" /\ holder = "free"
    /\ IF OwnToken(r)
       THEN at' = [at EXCEPT ![r] = "unlocked"] /\ UNCHANGED <<loop, holder>>
       ELSE /\ at' = [at EXCEPT ![r] = "token"]
            /\ loop' = [loop EXCEPT ![r] = ExecutedLoop]
            /\ holder' = r
    /\ UNCHANGED <<asked, streamVars, abort, token, overtaken, outcome, accessToken, accountID>>

\* tryLock waits for five seconds; a fetch may take fifteen.
LockTimeout(r) ==
    /\ at[r] = "lock" /\ holder # "free"
    /\ Finish(r, Answer(asked[r].call, FALSE, {}))
    /\ UNCHANGED <<asked, loop, streamVars, abort, tokenVars>>

Unlock == holder' = "free"

\* The answer has a token, or none (an empty one is stored).
TokenFetched(r) ==
    /\ at[r] = "token" /\ loop[r].quit
    /\ IF loop[r].error # "none"
       THEN /\ Finish(r, Answer(asked[r].call, FALSE, {}))
            /\ UNCHANGED <<overtaken, accessToken, accountID>>
       ELSE /\ accessToken' \in {asked[r].account, Empty}
            /\ accountID' = asked[r].account
            /\ overtaken' = (overtaken \cup {q \in Request : at[q] = "unlocked"}) \ {r}
            /\ at' = [at EXCEPT ![r] = "unlocked"]
            /\ UNCHANGED outcome
    /\ Unlock
    /\ UNCHANGED <<asked, loop, streamVars, abort, token>>

\* The static string is returned after the mutex was given back.
ReadToken(r) ==
    /\ at[r] = "unlocked"
    /\ token' = [token EXCEPT ![r] = accessToken]
    /\ IF accessToken = Empty THEN Finish(r, Answer(asked[r].call, FALSE, {})) /\ UNCHANGED loop
       ELSE Send(r) /\ UNCHANGED outcome
    /\ UNCHANGED <<asked, streamVars, abort, overtaken, accessToken, accountID, holder>>

-----------------------------------------------------------------------------
(* The events of a thread that waits.                                      *)

Waiting(r) == at[r] \in {"token", "reply"}
Looping(r, l) ==
    /\ loop' = [loop EXCEPT ![r] = l]
    /\ UNCHANGED <<asked, at, tokenVars, outcome>>

Hears(r) == at[r] = "reply" /\ loop[r].reply = "open" /\ asked[r].call # "image"

\* onReadyRead, and in a chat onReadDeltaContent and the session's streamer:
\* a session that is gone terminates the request from within. (Only a chat
\* looks at the pieces, so only a chat's answer comes in pieces here.)
ReadyRead(r, to) ==
    /\ Hears(r) /\ heard[r] < to
    /\ asked[r].call = "chat" \/ to = 2 * Events
    /\ heard' = [heard EXCEPT ![r] = to]
    /\ cuts' = [cuts EXCEPT ![r] = @ \cup {to}]
    /\ \E brace \in BOOLEAN :
       LET delta == IF asked[r].call = "chat" THEN DeltaContent(r, to, brace) ELSE {}
       IN  /\ parsed' = [parsed EXCEPT ![r] = IF Parses(r, to, brace) THEN to - (to % 2) ELSE @]
           /\ streamed' = [streamed EXCEPT ![r] = @ \o Ascending(delta)]
           /\ \E terminate \in IF delta = {} THEN {FALSE} ELSE BOOLEAN :
                /\ stop' = [stop EXCEPT ![r] = @ \/ terminate]
                /\ Looping(r, IF terminate THEN AbortReply(loop[r]) ELSE loop[r])
    /\ UNCHANGED abort

\* The reply ends: a complete answer, a refusal, or a lost connection. The
\* image's loop is not quit by a reply alone: it has a timer of its own.
ReplyFinished(r) ==
    /\ Waiting(r) /\ loop[r].reply = "open"
    /\ \E how \in {"ok", "429", "auth", "failed"} :
        /\ how = "ok" => at[r] = "token" \/ asked[r].call = "image" \/ heard[r] = 2 * Events
        /\ how \in {"429", "auth"} => heard[r] = 0
        /\ Looping(r, IF asked[r].call = "image"
                      THEN [loop[r] EXCEPT !.reply = how, !.quit = TRUE]
                      ELSE OnHttpReplyFinished(loop[r], how))
    /\ UNCHANGED <<streamVars, abort>>

Timeout(r) ==
    /\ Waiting(r) /\ loop[r].timer
    /\ Looping(r, IF asked[r].call = "image"
                  THEN [loop[r] EXCEPT !.timer = FALSE, !.fired = TRUE, !.quit = TRUE]
                  ELSE OnHttpTimeout(loop[r]))
    /\ UNCHANGED <<streamVars, abort>>

\* The session's requestAbort is an event for the interface's thread.
PostAbort(r) ==
    /\ at[r] \notin {"idle", "done"} /\ abort[r] = "none"
    /\ asked[r].call \in {"chat", "function"}
    /\ abort' = [abort EXCEPT ![r] = "posted"]
    /\ UNCHANGED <<asked, at, loop, streamVars, tokenVars, outcome>>

HearsAbort(r) == Waiting(r)

\* The event is delivered in whatever loop the thread is in: the loops of
\* ensureRunning are not connected to eventLoopAbort, and a loop whose reply
\* has just ended hears it too late (for Ernie's token: the request is sent).
DeliverAbort(r) ==
    /\ abort[r] = "posted"
    /\ \/ /\ HearsAbort(r)
          /\ abort' = [abort EXCEPT ![r] = IF loop[r].reply = "open" THEN "heard" ELSE "late"]
          /\ Looping(r, AbortReply(loop[r]))
       \/ /\ at[r] = "probe" \/ (Waiting(r) /\ ~HearsAbort(r))
          /\ abort' = [abort EXCEPT ![r] = "unheard"]
          /\ Looping(r, loop[r])
    /\ UNCHANGED streamVars

\* generate and parseFunction return; an embedding with an error has none.
Returned(r) ==
    /\ at[r] = "reply" /\ loop[r].quit /\ asked[r].call # "image"
    /\ IF asked[r].call = "embedding"
       THEN Finish(r, Told(IF NetReplyError(r) = "none" THEN "ok" ELSE "error", {}))
       ELSE \E function, brace \in BOOLEAN :
                /\ function => Content(r, brace) # {} /\ asked[r].call = "function"
                /\ Finish(r, Answer(asked[r].call, function, Content(r, brace)))
    /\ UNCHANGED <<asked, loop, streamVars, abort, tokenVars>>

\* recognizeImage returns: a timer that still runs means an answer.
TimerIsActive(r) == loop[r].timer

RecognizeReturned(r) ==
    /\ at[r] = "reply" /\ loop[r].quit /\ asked[r].call = "image"
    /\ loop' = [loop EXCEPT ![r] =
                    IF TimerIsActive(r)
                    THEN [@ EXCEPT !.timer = FALSE,
                                   !.error = IF loop[r].reply = "ok" THEN "none" ELSE "failed"]
                    ELSE [@ EXCEPT !.error = "timeout"]]
    /\ Finish(r, IF TimerIsActive(r) /\ loop[r].reply = "ok" THEN Told("ok", {})
                 ELSE Told("error", {}))
    /\ UNCHANGED <<asked, streamVars, abort, tokenVars>>

-----------------------------------------------------------------------------
RequestsInit ==
    /\ asked = [r \in Request |-> Unasked]
    /\ at = [r \in Request |-> "idle"]
    /\ loop = [r \in Request |-> NoLoop]
    /\ heard = [r \in Request |-> 0]
    /\ cuts = [r \in Request |-> {}]
    /\ parsed = [r \in Request |-> 0]
    /\ streamed = [r \in Request |-> <<>>]
    /\ stop = [r \in Request |-> FALSE]
    /\ abort = [r \in Request |-> "none"]
    /\ token = [r \in Request |-> Empty]
    /\ overtaken = {}
    /\ outcome = [r \in Request |-> NotYet]
    /\ accessToken = Empty /\ accountID = Empty /\ holder = "free"

\* What happens in the thread of a request: it goes on, or its loop ends.
Advance(r) ==
    \/ Probed(r) \/ TakeLock(r) \/ LockTimeout(r) \/ TokenFetched(r) \/ ReadToken(r)
    \/ Timeout(r) \/ Returned(r) \/ RecognizeReturned(r)

RequestsNext ==
    \E r \in Request :
        \/ \E question \in Question : Ask(r, question)
        \/ Advance(r)
        \/ \E to \in 1..2 * Events : ReadyRead(r, to)
        \/ ReplyFinished(r) \/ PostAbort(r) \/ DeliverAbort(r)

\* A thread that can go on does, and a timer that runs fires; the network
\* owes nothing.
RequestsFairness == \A r \in Request : WF_requestVars(Advance(r))

RequestsSpec == RequestsInit /\ [][RequestsNext]_requestVars /\ RequestsFairness

-----------------------------------------------------------------------------
\* Every variable has its type, and the mutex is held by the request that
\* fetches a token and by nobody else.
RequestsTypeOK ==
    /\ asked \in [Request -> Question \cup {Unasked}]
    /\ at \in [Request -> {"idle", "probe", "lock", "token", "unlocked", "reply", "done"}]
    /\ heard \in [Request -> 0..2 * Events]
    /\ stop \in [Request -> BOOLEAN]
    /\ abort \in [Request -> {"none", "posted", "heard", "late", "unheard"}]
    /\ token \in [Request -> Account \cup {Empty}]
    /\ accessToken \in Account \cup {Empty} /\ accountID \in Account \cup {Empty}
    /\ overtaken \subseteq Request
    /\ outcome \in [Request -> [code : {"none", "ok", "error"}, text : SUBSET (1..Events)]]
    /\ \A r \in Request : at[r] = "token" <=> holder = r

\* A request whose timer ended it reports a timeout, not the abort by which
\* the timer ended it (httpeventloop.cpp:104); an embedding reports the abort.
TimeoutsAreTold ==
    \A r \in Request : at[r] = "done" /\ loop[r].fired /\ asked[r].call # "image" =>
        NetReplyError(r) = IF asked[r].call = "embedding" THEN "canceled" ELSE "timeout"

\* The stream of an answer is in order and without repetition, and misses of
\* what has arrived only what the network cut in two; Ernie's misses only what
\* came after the last chunk that ended with an event (ernieconversation.cpp:72).
StreamIsHeard ==
    \A r \in Request : asked[r].call = "chat" =>
        LET whole == {e \in 1..Events : 2 * e \in cuts[r] \cup {0}}
            got == IF asked[r].provider = "ernie" THEN Within(0, parsed[r])
                   ELSE {e \in Within(0, heard[r]) : 2 * e - 1 \notin cuts[r]}
        IN  streamed[r] = Ascending(got) /\ (asked[r].provider = "ernie" => whole \subseteq got)

\* The final answer of a chat has all that was streamed, unless Ernie's answer
\* was broken off within an event: then it is empty (ernieconversation.cpp:72).
AnswerHasTheStream ==
    \A r \in Request : at[r] = "done" /\ asked[r].call = "chat" =>
        \/ {streamed[r][i] : i \in DOMAIN streamed[r]} \subseteq outcome[r].text
        \/ asked[r].provider = "ernie" /\ heard[r] % 2 = 1 /\ outcome[r].text = {}

\* After the session stopped the request, or its abort was heard, nothing more
\* arrives, and the reply is at an end (httpeventloop.cpp:52).
StoppedStaysSilent ==
    [][\A r \in Request : stop[r] \/ abort[r] = "heard" =>
        heard'[r] = heard[r] /\ streamed'[r] = streamed[r] /\ loop[r].reply # "open"]_requestVars

\* An abort is heard, unless the thread was starting a local server
\* (modelhubwrapper.cpp:112): an aborted request sends nothing any more.
AbortsAreHeard ==
    \A r \in Request : abort[r] = "unheard" => asked[r].provider = "modelhub"

\* A request uses its own account's token, unless another account's was stored
\* after it unlocked the mutex and before it read the token (erniechat.cpp:230).
TokenIsOwn ==
    \A r \in Request : token[r] # Empty => token[r] = asked[r].account \/ r \in overtaken

\* An image's request says it timed out only when its timer fired, and an
\* answer that came before the timer is used; when both fall into one round of
\* the loop the answer is lost (doubaovision.cpp:119).
AnsweredInTime ==
    \A r \in Request : at[r] = "done" /\ asked[r].call = "image" =>
        /\ loop[r].error = "timeout" <=> loop[r].fired
        /\ outcome[r].code = "ok" <=> loop[r].reply = "ok" /\ ~loop[r].fired

\* Every request ends, whatever the network does: each wait has a timer, and
\* the shared mutex is always given back (erniechat.cpp:183).
RequestsEnd == \A r \in Request : at[r] # "idle" ~> at[r] = "done"

\* A refusal for too many requests reaches the task, which would make it an
\* exception "for responsive throttling" (textchatsession.cpp:248).
RateLimitsReachTasks ==
    \A r \in Request : at[r] = "done" /\ loop[r].reply = "429" => outcome[r].code # "ok"

\* What a request is told is what happened to it: its timer, its abort, its
\* answer and its token are its own.
RequestsAreTold ==
    RequestsTypeOK /\ TimeoutsAreTold /\ AnsweredInTime /\ AbortsAreHeard /\ TokenIsOwn

\* What was streamed is what arrived, until the session stops it and nothing
\* after, and the final answer has all of it.
StreamIsKept == [](StreamIsHeard /\ AnswerHasTheStream) /\ StoppedStaysSilent
=============================================================================
