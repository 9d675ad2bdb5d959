---------------------------- MODULE ModelsProofs ----------------------------
(***************************************************************************)
(* Theorems about what lies between a task and a model: the requests, the  *)
(* server of a local model, and the configuration of the providers.        *)
(***************************************************************************)
EXTENDS ModelRequests, ModelServer, ModelConfiguration, SequenceLemmas, FiniteSetTheorems, TLAPS

(***************************************************************************)
(* Requests: what a request is told is its own, for any number of          *)
(* requests, accounts and events.                                          *)
(*                                                                         *)
(* Nothing of RequestsAreTold is inductive but its types. A token is one's *)
(* own because the one found in the cache is its account's and a thread    *)
(* between its unlock and its read is remembered when another one stores;  *)
(* a timeout is told because a reply that its timer ended is not touched   *)
(* by anything that comes later; an image's timer runs for as long as it   *)
(* has not fired.                                                          *)
(***************************************************************************)
ReplyEnd == {"ok", "429", "auth", "failed", "canceled"}
Loop == [reply : ReplyEnd \cup {"open"}, timer : BOOLEAN, fired : BOOLEAN, isTimeout : BOOLEAN,
         quit : BOOLEAN, error : {"none", "timeout", "canceled", "429", "failed"}]
TaskOutcome == [code : {"none", "ok", "error"}, text : SUBSET (1..Events)]

LoopsTyped == loop \in [Request -> Loop]

\* The token that is kept is the one of the account it was fetched for.
CacheIsOwn == accessToken # Empty => accessToken = accountID

\* Where a request is, and what it asked.
Placed(q) ==
    /\ at[q] = "idle" => asked[q] = Unasked /\ abort[q] = "none"
    /\ at[q] = "probe" => asked[q].provider = "modelhub"
    /\ at[q] \in {"lock", "token", "unlocked"} => asked[q].provider = "ernie"
    /\ abort[q] = "posted" => asked[q].call # "image"
    /\ abort[q] = "unheard" => asked[q].provider = "modelhub"

\* A timer runs only while the reply is open, and when it has fired the reply
\* is at an end that does not change.
Timed(q) ==
    asked[q].call # "image" =>
        /\ loop[q].timer => loop[q].reply = "open"
        /\ loop[q].fired => /\ ~loop[q].timer /\ loop[q].reply = "canceled"
                            /\ loop[q].error = "timeout"

\* An image's timer runs until it fires, and then says what it was.
Imaged(q) ==
    asked[q].call = "image" =>
        /\ at[q] \in {"reply", "done"}
        /\ at[q] = "reply" => loop[q].error = "none" /\ (loop[q].timer <=> ~loop[q].fired)
        /\ at[q] = "done" => /\ loop[q].error = "timeout" <=> loop[q].fired
                             /\ outcome[q].code = "ok" <=> loop[q].reply = "ok" /\ ~loop[q].fired

\* A token is read once, after the unlock.
Tokened(q) ==
    /\ at[q] \in {"idle", "probe", "lock", "token", "unlocked"} => token[q] = Empty
    /\ at[q] = "unlocked" =>
         accessToken = Empty \/ accessToken = asked[q].account \/ q \in overtaken
    /\ token[q] # Empty => token[q] = asked[q].account \/ q \in overtaken

Local(q) == Placed(q) /\ Timed(q) /\ Imaged(q)

RequestsInv ==
    /\ RequestsTypeOK /\ LoopsTyped /\ CacheIsOwn
    /\ \A q \in Request : Local(q) /\ Tokened(q)

\* A request whose part of the state is left alone.
Same(q) ==
    /\ asked'[q] = asked[q] /\ at'[q] = at[q] /\ loop'[q] = loop[q]
    /\ abort'[q] = abort[q] /\ outcome'[q] = outcome[q]

-----------------------------------------------------------------------------
(* Questions, answers and loops                                            *)

QuestionFits(x) ==
    /\ x.call = "image" => x.provider = "doubao"
    /\ x.provider \in {"openai", "modelhub", "ernie", "doubao", "absent"}
    /\ x.account \in Account \cup {Empty}

LEMMA AskedFits ==
    ASSUME NEW p, NEW c, NEW a, p \in {"openai", "modelhub", "ernie", "doubao", "absent"},
           a \in Account \cup {Empty}, c = "image" => p = "doubao"
    PROVE  QuestionFits(Asked(p, c, a))
BY DEF Asked, QuestionFits

LEMMA QuestionFacts == \A x \in Question : QuestionFits(x)
<1>1. \A p \in {"openai", "modelhub"}, c \in {"chat", "function", "embedding"} :
        QuestionFits(Asked(p, c, Empty))
  BY AskedFits
<1>2. \A c \in {"chat", "function"}, a \in Account \cup {Empty} : QuestionFits(Asked("ernie", c, a))
  BY AskedFits
<1>3. QuestionFits(Asked("doubao", "image", Empty))
  BY AskedFits
<1>4. \A c \in {"chat", "function"} : QuestionFits(Asked("absent", c, Empty))
  BY AskedFits
<1> QED
  BY <1>1, <1>2, <1>3, <1>4 DEF Question

LEMMA UnaskedFacts ==
    Unasked.call = "none" /\ Unasked.provider = "none" /\ Unasked.account = Empty
BY DEF Unasked, Asked

LEMMA ToldTyped ==
    ASSUME NEW c \in {"none", "ok", "error"}, NEW t \in SUBSET (1..Events)
    PROVE  Told(c, t) \in TaskOutcome /\ Told(c, t).code = c
BY DEF Told, TaskOutcome

LEMMA AnswerTyped ==
    ASSUME NEW c, NEW f \in BOOLEAN, NEW t \in SUBSET (1..Events)
    PROVE  Answer(c, f, t) \in TaskOutcome
BY ToldTyped DEF Answer

LEMMA ContentTyped ==
    ASSUME NEW r, NEW brace
    PROVE  Content(r, brace) \in SUBSET (1..Events)
BY DEF Content, Within

LEMMA LoopsAtFirst ==
    /\ NoLoop \in Loop /\ ~NoLoop.timer /\ ~NoLoop.fired
    /\ ExecutedLoop \in Loop /\ ExecutedLoop.timer /\ ~ExecutedLoop.fired
    /\ ExecutedLoop.reply = "open" /\ ExecutedLoop.error = "none"
BY DEF NoLoop, ExecutedLoop, NewLoop, Loop, ReplyEnd

LEMMA FinishedLoop ==
    ASSUME NEW l \in Loop, NEW how \in ReplyEnd
    PROVE  LET m == OnHttpReplyFinished(l, how)
           IN  /\ m \in Loop /\ ~m.timer /\ m.fired = l.fired /\ m.reply = how
               /\ l.isTimeout => m.error = "timeout"
               /\ how = "canceled" => m.error # "none"
BY DEF OnHttpReplyFinished, Loop, ReplyEnd

LEMMA AbortedLoopIs ==
    ASSUME NEW l \in Loop
    PROVE  LET m == AbortedLoop(l)
           IN  /\ m \in Loop /\ m.fired = l.fired /\ (~l.timer => ~m.timer)
               /\ l.reply = "open" => m.reply = "canceled" /\ (l.isTimeout => m.error = "timeout")
                                       /\ m.error # "none"
               /\ l.reply # "open" => m = l
<1>1. CASE l.reply = "open"
  <2>1. AbortedLoop(l) = OnHttpReplyFinished(l, "canceled")
    BY <1>1 DEF AbortedLoop
  <2>2. "canceled" \in ReplyEnd
    BY DEF ReplyEnd
  <2> DEFINE m == OnHttpReplyFinished(l, "canceled")
  <2>3. /\ m \in Loop /\ ~m.timer /\ m.fired = l.fired /\ m.reply = "canceled"
        /\ l.isTimeout => m.error = "timeout"
        /\ m.error # "none"
    BY <2>2, FinishedLoop
  <2> HIDE DEF m
  <2> QED
    BY <1>1, <2>1, <2>3 DEF m
<1>2. CASE l.reply # "open"
  BY <1>2 DEF AbortedLoop
<1> QED
  BY <1>1, <1>2

LEMMA AbortReplyIs ==
    ASSUME NEW l \in Loop
    PROVE  LET m == AbortReply(l)
           IN  /\ m \in Loop /\ ~m.timer /\ m.fired = l.fired
               /\ l.reply # "open" => m.reply = l.reply /\ m.error = l.error
               /\ m.reply # "open"
               /\ l.reply = "open" => m.error # "none"
<1> DEFINE k == [l EXCEPT !.timer = FALSE]
<1>1. /\ k \in Loop /\ ~k.timer /\ k.fired = l.fired /\ k.reply = l.reply /\ k.error = l.error
  BY DEF Loop
<1> DEFINE m == AbortedLoop(k)
<1>2. /\ m \in Loop /\ m.fired = k.fired /\ ~m.timer
      /\ k.reply = "open" => m.reply = "canceled" /\ m.error # "none"
      /\ k.reply # "open" => m = k
  BY <1>1, AbortedLoopIs
<1>3. AbortReply(l) = [m EXCEPT !.quit = TRUE]
  BY DEF AbortReply
<1> HIDE DEF k, m
<1>4. LET n == [m EXCEPT !.quit = TRUE]
      IN  n \in Loop /\ n.timer = m.timer /\ n.fired = m.fired /\ n.reply = m.reply
          /\ n.error = m.error
  BY <1>2 DEF Loop
<1> QED
  BY <1>1, <1>2, <1>3, <1>4

LEMMA OnHttpTimeoutIs ==
    ASSUME NEW l \in Loop, l.reply = "open"
    PROVE  LET m == OnHttpTimeout(l)
           IN  /\ m \in Loop /\ ~m.timer /\ m.reply = "canceled" /\ m.error = "timeout"
<1> DEFINE k == [l EXCEPT !.timer = FALSE, !.fired = TRUE, !.isTimeout = TRUE]
<1>1. k \in Loop /\ ~k.timer /\ k.isTimeout /\ k.reply = "open"
  BY DEF Loop
<1> DEFINE m == AbortedLoop(k)
<1>2. m \in Loop /\ ~m.timer /\ m.reply = "canceled" /\ m.error = "timeout"
  BY <1>1, AbortedLoopIs
<1>3. OnHttpTimeout(l) = [m EXCEPT !.quit = TRUE]
  BY DEF OnHttpTimeout
<1> HIDE DEF k, m
<1>4. LET n == [m EXCEPT !.quit = TRUE]
      IN  n \in Loop /\ n.timer = m.timer /\ n.reply = m.reply /\ n.error = m.error
  BY <1>2 DEF Loop
<1> QED
  BY <1>2, <1>3, <1>4

-----------------------------------------------------------------------------
(* What steps have in common                                               *)

LEMMA Typed ==
    ASSUME RequestsInv, NEW r \in Request
    PROVE  /\ asked[r] \in Question \cup {Unasked} /\ loop[r] \in Loop
           /\ asked[r].account \in Account \cup {Empty}
           /\ asked[r].call = "image" => asked[r].provider = "doubao"
BY QuestionFacts, UnaskedFacts DEF QuestionFits, RequestsInv, RequestsTypeOK, LoopsTyped

\* Requests that are left alone keep what is said of them.
LEMMA OthersKeep ==
    ASSUME NEW q, Local(q), Same(q)
    PROVE  Local(q)'
BY DEF Local, Placed, Timed, Imaged, Same

\* A move of one request between places that are not under the mutex.
LEMMA MutexKept ==
    ASSUME RequestsInv, NEW r \in Request, NEW place, at[r] # "token", place # "token",
           at' = [at EXCEPT ![r] = place], holder' = holder
    PROVE  \A q \in Request : at'[q] = "token" <=> holder' = q
BY DEF RequestsInv, RequestsTypeOK

\* A move that leaves the tokens alone, and does not come to an unlock.
LEMMA TokensKept ==
    ASSUME RequestsInv, NEW r \in Request, NEW place,
           at' = [at EXCEPT ![r] = place],
           place \in {"probe", "lock", "token", "reply", "done"},
           place \in {"probe", "lock", "token"} => at[r] \in {"idle", "lock"},
           \A q \in Request : asked'[q] = asked[q] \/ (q = r /\ token[q] = Empty),
           UNCHANGED <<token, accessToken, accountID, overtaken>>
    PROVE  CacheIsOwn' /\ \A q \in Request : Tokened(q)'
<1>1. CacheIsOwn'
  BY DEF RequestsInv, CacheIsOwn
<1>2. ASSUME NEW q \in Request, q # r PROVE Tokened(q)'
  BY <1>2 DEF RequestsInv, Tokened, RequestsTypeOK
<1>3. Tokened(r)'
  <2>1. at'[r] = place
    BY DEF RequestsInv, RequestsTypeOK
  <2> QED
    BY <2>1 DEF RequestsInv, Tokened
<1> QED
  BY <1>1, <1>2, <1>3

\* What is said of every request, from one that moved and the others.
LEMMA AllLocal ==
    ASSUME RequestsInv, NEW r \in Request, Local(r)', \A q \in Request \ {r} : Same(q)
    PROVE  \A q \in Request : Local(q)'
BY OthersKeep DEF RequestsInv

\* A step of a thread that stays where it is.
StaysPut == UNCHANGED <<asked, at, outcome, token, overtaken, accessToken, accountID, holder>>

LEMMA StayingKeeps ==
    ASSUME RequestsInv, StaysPut, NEW r \in Request, NEW l \in Loop,
           loop' = [loop EXCEPT ![r] = l] \/ loop' = loop,
           heard' \in [Request -> 0..2 * Events], stop' \in [Request -> BOOLEAN],
           abort' \in [Request -> {"none", "posted", "heard", "late", "unheard"}],
           \A q \in Request \ {r} : abort'[q] = abort[q],
           Local(r)'
    PROVE  RequestsInv'
<1>1. RequestsTypeOK'
  BY DEF RequestsInv, RequestsTypeOK, StaysPut
<1>2. LoopsTyped'
  BY DEF RequestsInv, LoopsTyped
<1>3. CacheIsOwn' /\ \A q \in Request : Tokened(q)'
  BY DEF RequestsInv, CacheIsOwn, Tokened, StaysPut
<1>4. \A q \in Request \ {r} : Same(q)
  BY DEF RequestsInv, LoopsTyped, Same, StaysPut
<1>5. \A q \in Request : Local(q)'
  BY <1>4, AllLocal
<1> QED
  BY <1>1, <1>2, <1>3, <1>5 DEF RequestsInv

\* A step of a thread that moves on, piece by piece.
Place == {"idle", "probe", "lock", "token", "unlocked", "reply", "done"}

LEMMA MovingKeeps ==
    ASSUME RequestsInv, NEW r \in Request,
           asked' \in [Request -> Question \cup {Unasked}], at' \in [Request -> Place],
           loop' \in [Request -> Loop], outcome' \in [Request -> TaskOutcome],
           UNCHANGED <<heard, stop, abort>>,
           token' \in [Request -> Account \cup {Empty}], accessToken' \in Account \cup {Empty},
           accountID' \in Account \cup {Empty}, overtaken' \subseteq Request,
           \A q \in Request : at'[q] = "token" <=> holder' = q,
           \A q \in Request \ {r} : Same(q),
           Local(r)',
           CacheIsOwn', \A q \in Request : Tokened(q)'
    PROVE  RequestsInv'
<1>1. RequestsTypeOK'
  BY DEF RequestsInv, RequestsTypeOK, Place, TaskOutcome
<1>2. LoopsTyped'
  BY DEF LoopsTyped
<1>3. \A q \in Request : Local(q)'
  BY AllLocal
<1> QED
  BY <1>1, <1>2, <1>3 DEF RequestsInv

\* What is typed before and left alone is typed after.
LEMMA TypesLeft ==
    ASSUME RequestsInv
    PROVE  /\ asked \in [Request -> Question \cup {Unasked}] /\ at \in [Request -> Place]
           /\ loop \in [Request -> Loop] /\ outcome \in [Request -> TaskOutcome]
           /\ abort \in [Request -> {"none", "posted", "heard", "late", "unheard"}]
           /\ heard \in [Request -> 0..2 * Events] /\ stop \in [Request -> BOOLEAN]
           /\ token \in [Request -> Account \cup {Empty}] /\ accessToken \in Account \cup {Empty}
           /\ accountID \in Account \cup {Empty} /\ overtaken \subseteq Request
           /\ \A q \in Request : at[q] = "token" <=> holder = q
BY DEF RequestsInv, RequestsTypeOK, LoopsTyped, Place, TaskOutcome

\* A request that ends or is sent, and leaves its question and the tokens alone.
LEMMA EndOrSendKeeps ==
    ASSUME RequestsInv, NEW r \in Request, at[r] \notin {"idle", "token"},
           NEW place \in {"reply", "done"}, at' = [at EXCEPT ![r] = place],
           NEW l \in Loop, loop' = [loop EXCEPT ![r] = l],
           NEW o \in TaskOutcome, outcome' = [outcome EXCEPT ![r] = o],
           UNCHANGED <<asked, heard, stop, abort, tokenVars>>,
           Local(r)'
    PROVE  RequestsInv'
<1>1. UNCHANGED <<heard, stop, abort, token, accessToken, accountID, overtaken, holder, asked>>
  BY DEF tokenVars
<1>2. \A q \in Request : at'[q] = "token" <=> holder' = q
  BY <1>1, MutexKept
<1>3. CacheIsOwn' /\ \A q \in Request : Tokened(q)'
  BY <1>1, TokensKept
<1>4. at' \in [Request -> Place] /\ loop' \in [Request -> Loop] /\ outcome' \in [Request -> TaskOutcome]
  BY TypesLeft DEF Place
<1>5. \A q \in Request \ {r} : Same(q)
  BY <1>1, TypesLeft DEF Same
<1> QED
  BY <1>1, <1>2, <1>3, <1>4, <1>5, TypesLeft, MovingKeeps

\* An answer that was never sent.
LEMMA EndsUnsent ==
    ASSUME NEW c
    PROVE  Answer(c, FALSE, {}) \in TaskOutcome
BY AnswerTyped

-----------------------------------------------------------------------------
(* The steps of a request                                                  *)

LEMMA ProbedKeeps ==
    ASSUME RequestsInv, NEW r \in Request, Probed(r)
    PROVE  RequestsInv'
<1>1. at[r] = "probe" /\ asked[r].provider = "modelhub"
  BY DEF Probed, RequestsInv, Local, Placed
<1>2. UNCHANGED <<asked, heard, stop, abort, tokenVars>>
  BY DEF Probed, streamVars
<1>3. CASE Send(r) /\ UNCHANGED outcome
  <2>1. outcome' = [outcome EXCEPT ![r] = outcome[r]] /\ outcome[r] \in TaskOutcome
    BY <1>3, TypesLeft
  <2>2. Local(r)'
    BY <1>1, <1>2, <1>3, Typed, TypesLeft, LoopsAtFirst
       DEF RequestsInv, Local, Placed, Timed, Imaged, Send
  <2> QED
    BY <1>1, <1>2, <1>3, <2>1, <2>2, LoopsAtFirst, EndOrSendKeeps DEF Send
<1>4. CASE Finish(r, IF asked[r].call = "embedding" THEN Told("error", {})
                     ELSE Answer(asked[r].call, FALSE, {})) /\ UNCHANGED loop
  <2> DEFINE o == IF asked[r].call = "embedding" THEN Told("error", {})
                  ELSE Answer(asked[r].call, FALSE, {})
  <2>1. o \in TaskOutcome
    BY ToldTyped, EndsUnsent
  <2>2. loop' = [loop EXCEPT ![r] = loop[r]] /\ loop[r] \in Loop
    BY <1>4, TypesLeft
  <2>3. at' = [at EXCEPT ![r] = "done"] /\ outcome' = [outcome EXCEPT ![r] = o]
    BY <1>4 DEF Finish
  <2> HIDE DEF o
  <2>4. Local(r)'
    BY <1>1, <1>2, <1>4, <2>3, Typed, TypesLeft DEF RequestsInv, Local, Placed, Timed, Imaged
  <2> QED
    BY <1>1, <1>2, <2>1, <2>2, <2>3, <2>4, EndOrSendKeeps
<1> QED
  BY <1>3, <1>4 DEF Probed

LEMMA LockTimeoutKeeps ==
    ASSUME RequestsInv, NEW r \in Request, LockTimeout(r)
    PROVE  RequestsInv'
<1>1. at[r] = "lock" /\ asked[r].provider = "ernie"
  BY DEF LockTimeout, RequestsInv, Local, Placed
<1>2. UNCHANGED <<asked, heard, stop, abort, tokenVars, loop>>
  BY DEF LockTimeout, streamVars
<1> DEFINE o == Answer(asked[r].call, FALSE, {})
<1>3. o \in TaskOutcome
  BY EndsUnsent
<1>4. at' = [at EXCEPT ![r] = "done"] /\ outcome' = [outcome EXCEPT ![r] = o]
  BY DEF LockTimeout, Finish
<1> HIDE DEF o
<1>5. loop' = [loop EXCEPT ![r] = loop[r]] /\ loop[r] \in Loop
  BY <1>2, TypesLeft
<1>6. Local(r)'
  BY <1>1, <1>2, <1>4, Typed, TypesLeft DEF RequestsInv, Local, Placed, Timed, Imaged
<1> QED
  BY <1>1, <1>2, <1>3, <1>4, <1>5, <1>6, EndOrSendKeeps

LEMMA ReturnedKeeps ==
    ASSUME RequestsInv, NEW r \in Request, Returned(r)
    PROVE  RequestsInv'
<1>1. at[r] = "reply" /\ asked[r].call # "image"
  BY DEF Returned
<1>2. UNCHANGED <<asked, heard, stop, abort, tokenVars, loop>>
  BY DEF Returned, streamVars
<1>3. PICK o \in TaskOutcome : Finish(r, o)
  <2>1. CASE asked[r].call = "embedding"
    <3>1. Told("ok", {}) \in TaskOutcome /\ Told("error", {}) \in TaskOutcome
      BY ToldTyped
    <3> QED
      BY <2>1, <3>1 DEF Returned
  <2>2. CASE asked[r].call # "embedding"
    <3>1. PICK function, brace \in BOOLEAN :
                 Finish(r, Answer(asked[r].call, function, Content(r, brace)))
      BY <2>2 DEF Returned
    <3>2. Answer(asked[r].call, function, Content(r, brace)) \in TaskOutcome
      BY ContentTyped, AnswerTyped
    <3> QED
      BY <3>1, <3>2
  <2> QED
    BY <2>1, <2>2
<1>4. at' = [at EXCEPT ![r] = "done"] /\ outcome' = [outcome EXCEPT ![r] = o]
  BY <1>3 DEF Finish
<1>5. loop' = [loop EXCEPT ![r] = loop[r]] /\ loop[r] \in Loop
  BY <1>2, TypesLeft
<1>6. Local(r)'
  BY <1>1, <1>2, <1>4, Typed, TypesLeft DEF RequestsInv, Local, Placed, Timed, Imaged
<1> QED
  BY <1>1, <1>2, <1>4, <1>5, <1>6, EndOrSendKeeps

LEMMA RecognizeReturnedKeeps ==
    ASSUME RequestsInv, NEW r \in Request, RecognizeReturned(r)
    PROVE  RequestsInv'
<1> DEFINE l == IF TimerIsActive(r)
                THEN [loop[r] EXCEPT !.timer = FALSE,
                                     !.error = IF loop[r].reply = "ok" THEN "none" ELSE "failed"]
                ELSE [loop[r] EXCEPT !.error = "timeout"]
           o == IF TimerIsActive(r) /\ loop[r].reply = "ok" THEN Told("ok", {}) ELSE Told("error", {})
<1>1. at[r] = "reply" /\ asked[r].call = "image" /\ loop[r] \in Loop /\ asked[r].provider = "doubao"
  BY Typed DEF RecognizeReturned
<1>2. UNCHANGED <<asked, heard, stop, abort, tokenVars>>
  BY DEF RecognizeReturned, streamVars
<1>3. loop[r].timer <=> ~loop[r].fired
  BY <1>1 DEF RequestsInv, Local, Imaged
<1>4. l \in Loop /\ l.fired = loop[r].fired /\ l.reply = loop[r].reply
      /\ (l.error = "timeout" <=> l.fired)
  BY <1>1, <1>3 DEF TimerIsActive, Loop
<1>5. o \in TaskOutcome /\ (o.code = "ok" <=> l.reply = "ok" /\ ~l.fired)
  <2>1. CASE TimerIsActive(r) /\ loop[r].reply = "ok"
    <3>1. o = Told("ok", {})
      BY <2>1
    <3>2. l.reply = "ok" /\ ~l.fired
      BY <1>3, <1>4, <2>1 DEF TimerIsActive
    <3> HIDE DEF l, o
    <3> QED
      BY <3>1, <3>2, ToldTyped
  <2>2. CASE ~(TimerIsActive(r) /\ loop[r].reply = "ok")
    <3>1. o = Told("error", {})
      BY <2>2
    <3>2. ~(l.reply = "ok" /\ ~l.fired)
      BY <1>3, <1>4, <2>2 DEF TimerIsActive
    <3>3. Told("error", {}) \in TaskOutcome /\ Told("error", {}).code = "error"
      BY ToldTyped
    <3> HIDE DEF l, o
    <3> QED
      BY <3>1, <3>2, <3>3
  <2> QED
    BY <2>1, <2>2
<1>6. at' = [at EXCEPT ![r] = "done"] /\ outcome' = [outcome EXCEPT ![r] = o]
  BY DEF RecognizeReturned, Finish
<1>7. loop' = [loop EXCEPT ![r] = l]
  BY TypesLeft DEF RecognizeReturned
<1> HIDE DEF l, o
<1>8. Local(r)'
  <2>1. at'[r] = "done" /\ loop'[r] = l /\ outcome'[r] = o /\ asked'[r] = asked[r]
        /\ abort'[r] = abort[r]
    BY <1>2, <1>6, <1>7, TypesLeft
  <2> QED
    BY <1>1, <1>4, <1>5, <2>1 DEF RequestsInv, Local, Placed, Timed, Imaged
<1> QED
  BY <1>1, <1>2, <1>4, <1>5, <1>6, <1>7, <1>8, EndOrSendKeeps

\* What Ask does, by where it leads.
LEMMA AskCases ==
    ASSUME NEW r \in Request, NEW x \in Question, Ask(r, x)
    PROVE  \/ /\ x.provider = "modelhub" /\ at' = [at EXCEPT ![r] = "probe"]
              /\ UNCHANGED <<loop, outcome>>
           \/ /\ x.provider = "ernie" /\ at' = [at EXCEPT ![r] = "lock"]
              /\ UNCHANGED <<loop, outcome>>
           \/ /\ x.provider # "doubao" /\ UNCHANGED loop
              /\ \E o \in TaskOutcome : Finish(r, o)
           \/ Send(r) /\ UNCHANGED outcome
<1>1. CASE x.provider = "modelhub"
  BY <1>1 DEF Ask
<1>2. CASE x.provider = "ernie" /\ x.account # Empty
  BY <1>2 DEF Ask
<1>3. CASE x.provider = "ernie" /\ x.account = Empty
  <2>1. Finish(r, Answer(x.call, FALSE, {})) /\ UNCHANGED loop
    BY <1>3 DEF Ask
  <2> QED
    BY <1>3, <2>1, EndsUnsent
<1>4. CASE x.provider = "absent"
  <2>1. Finish(r, ErrorContent) /\ UNCHANGED loop
    BY <1>4 DEF Ask
  <2>2. ErrorContent \in TaskOutcome
    BY ToldTyped DEF ErrorContent
  <2> QED
    BY <1>4, <2>1, <2>2
<1>5. CASE x.provider \notin {"modelhub", "ernie", "absent"}
  BY <1>5 DEF Ask
<1> QED
  BY <1>1, <1>2, <1>3, <1>4, <1>5

LEMMA AskKeeps ==
    ASSUME RequestsInv, NEW r \in Request, NEW x \in Question, Ask(r, x)
    PROVE  RequestsInv'
<1>1. /\ at[r] = "idle" /\ asked[r] = Unasked /\ abort[r] = "none" /\ token[r] = Empty
      /\ asked[r].call # "image" /\ asked[r].provider # "modelhub"
  BY UnaskedFacts DEF Ask, RequestsInv, Local, Placed, Tokened
<1>2. /\ asked' = [asked EXCEPT ![r] = x] /\ UNCHANGED <<heard, stop, abort>>
      /\ UNCHANGED <<token, accessToken, accountID, overtaken, holder>>
  BY DEF Ask, streamVars, tokenVars
<1>3. PICK place \in {"probe", "lock", "reply", "done"}, l \in Loop, o \in TaskOutcome :
        /\ at' = [at EXCEPT ![r] = place] /\ loop' = [loop EXCEPT ![r] = l]
        /\ outcome' = [outcome EXCEPT ![r] = o]
        /\ place = "probe" => x.provider = "modelhub"
        /\ place = "lock" => x.provider = "ernie"
        /\ place # "reply" => l = loop[r] /\ x.provider # "doubao"
        /\ place = "reply" => l = ExecutedLoop
  <2>1. /\ loop[r] \in Loop /\ outcome[r] \in TaskOutcome
        /\ loop = [loop EXCEPT ![r] = loop[r]] /\ outcome = [outcome EXCEPT ![r] = outcome[r]]
    BY TypesLeft
  <2>2. CASE x.provider = "modelhub" /\ at' = [at EXCEPT ![r] = "probe"] /\ UNCHANGED <<loop, outcome>>
    BY <2>1, <2>2
  <2>3. CASE x.provider = "ernie" /\ at' = [at EXCEPT ![r] = "lock"] /\ UNCHANGED <<loop, outcome>>
    BY <2>1, <2>3
  <2>4. CASE x.provider # "doubao" /\ UNCHANGED loop /\ \E o \in TaskOutcome : Finish(r, o)
    BY <2>1, <2>4 DEF Finish
  <2>5. CASE Send(r) /\ UNCHANGED outcome
    BY <2>1, <2>5, LoopsAtFirst DEF Send
  <2> QED
    BY <2>2, <2>3, <2>4, <2>5, AskCases
<1>4. \A q \in Request : at'[q] = "token" <=> holder' = q
  BY <1>1, <1>2, <1>3, MutexKept
<1>5. CacheIsOwn' /\ \A q \in Request : Tokened(q)'
  <2>1. \A q \in Request : asked'[q] = asked[q] \/ (q = r /\ token[q] = Empty)
    BY <1>1, <1>2, TypesLeft
  <2> QED
    BY <1>1, <1>2, <1>3, <2>1, TokensKept
<1>6. \A q \in Request \ {r} : Same(q)
  BY <1>2, <1>3, TypesLeft DEF Same
<1>7. Local(r)'
  <2>1. at'[r] = place /\ asked'[r] = x /\ abort'[r] = "none" /\ loop'[r] = l /\ outcome'[r] = o
    BY <1>1, <1>2, <1>3, TypesLeft
  <2>2. x.call = "image" => x.provider = "doubao"
    BY QuestionFacts DEF QuestionFits
  <2>3. Timed(r)'
    <3>1. CASE place = "reply"
      BY <1>3, <2>1, <3>1, LoopsAtFirst DEF Timed
    <3>2. CASE place # "reply"
      BY <1>1, <1>3, <2>1, <3>2 DEF RequestsInv, Local, Timed
    <3> QED
      BY <3>1, <3>2
  <2>4. Imaged(r)'
    BY <1>3, <2>1, <2>2, LoopsAtFirst DEF Imaged
  <2>5. Placed(r)'
    BY <1>3, <2>1 DEF Placed
  <2> QED
    BY <2>3, <2>4, <2>5 DEF Local
<1>8. asked' \in [Request -> Question \cup {Unasked}] /\ at' \in [Request -> Place]
      /\ loop' \in [Request -> Loop] /\ outcome' \in [Request -> TaskOutcome]
  BY <1>2, <1>3, TypesLeft DEF Place
<1> QED
  BY <1>2, <1>4, <1>5, <1>6, <1>7, <1>8, TypesLeft, MovingKeeps

-----------------------------------------------------------------------------
(* The steps of Ernie's token                                              *)

LEMMA TakeLockKeeps ==
    ASSUME RequestsAssumption, RequestsInv, NEW r \in Request, TakeLock(r)
    PROVE  RequestsInv'
<1>1. at[r] = "lock" /\ asked[r].provider = "ernie" /\ asked[r].call # "image" /\ holder = "free"
  BY Typed DEF TakeLock, RequestsInv, Local, Placed
<1>2. /\ UNCHANGED <<asked, heard, stop, abort>> /\ UNCHANGED outcome
      /\ UNCHANGED <<token, accessToken, accountID, overtaken>>
  BY DEF TakeLock, streamVars
<1>3. CacheIsOwn'
  BY <1>2 DEF RequestsInv, CacheIsOwn
<1>4. CASE OwnToken(r)
  <2>1. at' = [at EXCEPT ![r] = "unlocked"] /\ UNCHANGED <<loop, holder>>
    BY <1>4 DEF TakeLock
  <2>2. accessToken = asked[r].account
    BY <1>4 DEF RequestsInv, CacheIsOwn, OwnToken
  <2>3. \A q \in Request : Tokened(q)'
    BY <1>1, <1>2, <2>1, <2>2, TypesLeft DEF RequestsInv, Tokened
  <2>4. \A q \in Request : at'[q] = "token" <=> holder' = q
    BY <1>1, <2>1, TypesLeft
  <2>5. \A q \in Request \ {r} : Same(q)
    BY <1>2, <2>1, TypesLeft DEF Same
  <2>6. Local(r)'
    BY <1>1, <1>2, <2>1, TypesLeft DEF RequestsInv, Local, Placed, Timed, Imaged
  <2>7. at' \in [Request -> Place]
    BY <2>1, TypesLeft DEF Place
  <2> QED
    BY <1>2, <1>3, <2>1, <2>3, <2>4, <2>5, <2>6, <2>7, TypesLeft, MovingKeeps
<1>5. CASE ~OwnToken(r)
  <2>1. at' = [at EXCEPT ![r] = "token"] /\ loop' = [loop EXCEPT ![r] = ExecutedLoop] /\ holder' = r
    BY <1>5 DEF TakeLock
  <2>2. \A q \in Request : Tokened(q)'
    BY <1>1, <1>2, <2>1, TypesLeft DEF RequestsInv, Tokened
  <2>3. \A q \in Request : at'[q] = "token" <=> holder' = q
    <3>1. \A q \in Request : at[q] # "token"
      BY <1>1, TypesLeft DEF RequestsAssumption
    <3> QED
      BY <2>1, <3>1, TypesLeft
  <2>4. \A q \in Request \ {r} : Same(q)
    BY <1>2, <2>1, TypesLeft DEF Same
  <2>5. Local(r)'
    BY <1>1, <1>2, <2>1, TypesLeft, LoopsAtFirst DEF RequestsInv, Local, Placed, Timed, Imaged
  <2>6. at' \in [Request -> Place] /\ loop' \in [Request -> Loop]
    BY <2>1, TypesLeft, LoopsAtFirst DEF Place
  <2> QED
    BY <1>2, <1>3, <2>2, <2>3, <2>4, <2>5, <2>6, TypesLeft, MovingKeeps
<1> QED
  BY <1>4, <1>5

LEMMA TokenFetchedKeeps ==
    ASSUME RequestsAssumption, RequestsInv, NEW r \in Request, TokenFetched(r)
    PROVE  RequestsInv'
<1>1. /\ at[r] = "token" /\ asked[r].provider = "ernie" /\ asked[r].call # "image"
      /\ token[r] = Empty /\ asked[r].account \in Account \cup {Empty}
  BY Typed DEF TokenFetched, RequestsInv, Local, Placed, Tokened
<1>2. UNCHANGED <<asked, heard, stop, abort, loop, token>> /\ holder' = "free"
  BY DEF TokenFetched, streamVars, Unlock
<1>3. \A q \in Request : at[q] = "token" <=> q = r
  BY <1>1, TypesLeft
<1>4. CASE loop[r].error # "none"
  <2> DEFINE o == Answer(asked[r].call, FALSE, {})
  <2>1. /\ at' = [at EXCEPT ![r] = "done"] /\ outcome' = [outcome EXCEPT ![r] = o]
        /\ UNCHANGED <<overtaken, accessToken, accountID>>
    BY <1>4 DEF TokenFetched, Finish
  <2>2. o \in TaskOutcome
    BY EndsUnsent
  <2> HIDE DEF o
  <2>3. \A q \in Request : Tokened(q)'
    BY <1>1, <1>2, <2>1, TypesLeft DEF RequestsInv, Tokened
  <2>4. \A q \in Request : at'[q] = "token" <=> holder' = q
    BY <1>2, <1>3, <2>1, TypesLeft DEF RequestsAssumption
  <2>5. \A q \in Request \ {r} : Same(q)
    BY <1>2, <2>1, TypesLeft DEF Same
  <2>6. Local(r)'
    BY <1>1, <1>2, <2>1, TypesLeft DEF RequestsInv, Local, Placed, Timed, Imaged
  <2>7. at' \in [Request -> Place] /\ outcome' \in [Request -> TaskOutcome] /\ CacheIsOwn'
    BY <2>1, <2>2, TypesLeft DEF Place, RequestsInv, CacheIsOwn
  <2> QED
    BY <1>2, <2>1, <2>3, <2>4, <2>5, <2>6, <2>7, TypesLeft, MovingKeeps
<1>5. CASE loop[r].error = "none"
  <2>1. /\ at' = [at EXCEPT ![r] = "unlocked"] /\ UNCHANGED outcome
        /\ accessToken' \in {asked[r].account, Empty} /\ accountID' = asked[r].account
        /\ overtaken' = (overtaken \cup {q \in Request : at[q] = "unlocked"}) \ {r}
    BY <1>5 DEF TokenFetched
  <2>2. ASSUME NEW q \in Request
        PROVE  Tokened(q)'
    <3>1. CASE q = r
      BY <1>1, <1>2, <2>1, <3>1, TypesLeft DEF Tokened
    <3>2. CASE q # r
      BY <1>2, <2>1, <3>2, TypesLeft DEF RequestsInv, Tokened
    <3> QED
      BY <3>1, <3>2
  <2>3. \A q \in Request : at'[q] = "token" <=> holder' = q
    BY <1>2, <1>3, <2>1, TypesLeft DEF RequestsAssumption
  <2>4. \A q \in Request \ {r} : Same(q)
    BY <1>2, <2>1, TypesLeft DEF Same
  <2>5. Local(r)'
    BY <1>1, <1>2, <2>1, TypesLeft DEF RequestsInv, Local, Placed, Timed, Imaged
  <2>6. at' \in [Request -> Place]
    BY <2>1, TypesLeft DEF Place
  <2>7. /\ accessToken' \in Account \cup {Empty} /\ accountID' \in Account \cup {Empty}
        /\ CacheIsOwn' /\ overtaken' \subseteq Request
    BY <1>1, <2>1, TypesLeft DEF CacheIsOwn
  <2> QED
    BY <1>2, <2>1, <2>2, <2>3, <2>4, <2>5, <2>6, <2>7, TypesLeft, MovingKeeps
<1> QED
  BY <1>4, <1>5

LEMMA ReadTokenKeeps ==
    ASSUME RequestsInv, NEW r \in Request, ReadToken(r)
    PROVE  RequestsInv'
<1>1. at[r] = "unlocked" /\ asked[r].provider = "ernie" /\ asked[r].call # "image"
  BY Typed DEF ReadToken, RequestsInv, Local, Placed
<1>2. /\ UNCHANGED <<asked, heard, stop, abort>>
      /\ UNCHANGED <<accessToken, accountID, overtaken, holder>>
      /\ token' = [token EXCEPT ![r] = accessToken]
  BY DEF ReadToken, streamVars
<1>3. PICK place \in {"reply", "done"}, l \in Loop, o \in TaskOutcome :
        /\ at' = [at EXCEPT ![r] = place] /\ loop' = [loop EXCEPT ![r] = l]
        /\ outcome' = [outcome EXCEPT ![r] = o]
        /\ l = loop[r] \/ l = ExecutedLoop
  <2>1. /\ loop[r] \in Loop /\ outcome[r] \in TaskOutcome
        /\ loop = [loop EXCEPT ![r] = loop[r]] /\ outcome = [outcome EXCEPT ![r] = outcome[r]]
    BY TypesLeft
  <2>2. Answer(asked[r].call, FALSE, {}) \in TaskOutcome
    BY EndsUnsent
  <2>3. CASE accessToken = Empty
    BY <2>1, <2>2, <2>3 DEF ReadToken, Finish
  <2>4. CASE accessToken # Empty
    BY <2>1, <2>4, LoopsAtFirst DEF ReadToken, Send
  <2> QED
    BY <2>3, <2>4
<1>4. ASSUME NEW q \in Request
      PROVE  Tokened(q)'
  <2>1. CASE q = r
    <3>1. at'[q] = place /\ token'[q] = accessToken /\ asked'[q] = asked[q]
      BY <1>2, <1>3, <2>1, TypesLeft
    <3>2. accessToken = Empty \/ accessToken = asked[q].account \/ q \in overtaken
      BY <1>1, <2>1 DEF RequestsInv, Tokened
    <3> QED
      BY <1>2, <3>1, <3>2 DEF Tokened
  <2>2. CASE q # r
    BY <1>2, <1>3, <2>2, TypesLeft DEF RequestsInv, Tokened
  <2> QED
    BY <2>1, <2>2
<1>5. \A q \in Request : at'[q] = "token" <=> holder' = q
  BY <1>1, <1>2, <1>3, MutexKept
<1>6. \A q \in Request \ {r} : Same(q)
  BY <1>2, <1>3, TypesLeft DEF Same
<1>7. Local(r)'
  <2>1. at'[r] = place /\ asked'[r] = asked[r] /\ abort'[r] = abort[r] /\ loop'[r] = l
    BY <1>2, <1>3, TypesLeft
  <2> QED
    BY <1>1, <1>3, <2>1, LoopsAtFirst DEF RequestsInv, Local, Placed, Timed, Imaged
<1>8. /\ at' \in [Request -> Place] /\ loop' \in [Request -> Loop]
      /\ outcome' \in [Request -> TaskOutcome] /\ token' \in [Request -> Account \cup {Empty}]
      /\ CacheIsOwn'
  BY <1>2, <1>3, TypesLeft DEF Place, RequestsInv, CacheIsOwn
<1> QED
  BY <1>2, <1>4, <1>5, <1>6, <1>7, <1>8, TypesLeft, MovingKeeps

-----------------------------------------------------------------------------
(* The events of a thread that waits                                       *)

LEMMA ReadyReadKeeps ==
    ASSUME RequestsInv, NEW r \in Request, NEW to \in 1..2 * Events, ReadyRead(r, to)
    PROVE  RequestsInv'
<1>1. at[r] = "reply" /\ loop[r].reply = "open" /\ asked[r].call # "image" /\ loop[r] \in Loop
  BY Typed DEF ReadyRead, Hears
<1>2. PICK l \in Loop :
        /\ loop' = [loop EXCEPT ![r] = l] /\ StaysPut
        /\ l = loop[r] \/ l = AbortReply(loop[r])
        /\ stop' \in [Request -> BOOLEAN]
  <2>1. PICK terminate \in BOOLEAN :
           /\ stop' = [stop EXCEPT ![r] = @ \/ terminate]
           /\ Looping(r, IF terminate THEN AbortReply(loop[r]) ELSE loop[r])
    BY DEF ReadyRead
  <2>2. stop' \in [Request -> BOOLEAN]
    BY <2>1, TypesLeft
  <2>3. StaysPut
    BY <2>1 DEF StaysPut, Looping, tokenVars
  <2>4. AbortReply(loop[r]) \in Loop
    BY <1>1, AbortReplyIs
  <2> QED
    BY <1>1, <2>1, <2>2, <2>3, <2>4 DEF Looping
<1>3. heard' \in [Request -> 0..2 * Events] /\ abort' = abort
  <2>1. heard' = [heard EXCEPT ![r] = to] /\ abort' = abort
    BY DEF ReadyRead
  <2>2. 1..2 * Events \subseteq 0..2 * Events
    OBVIOUS
  <2> QED
    BY <2>1, <2>2, TypesLeft
<1>4. ~loop[r].fired
  BY <1>1 DEF RequestsInv, Local, Timed
<1>5. l.fired = loop[r].fired /\ (l.timer => l.reply = "open")
  <2>1. CASE l = loop[r]
    BY <1>1, <2>1
  <2>2. CASE l = AbortReply(loop[r])
    BY <1>1, <2>2, AbortReplyIs
  <2> QED
    BY <1>2, <2>1, <2>2
<1>6. Local(r)'
  <2>1. loop'[r] = l /\ abort'[r] = abort[r]
    BY <1>2, <1>3, TypesLeft
  <2> QED
    BY <1>1, <1>2, <1>4, <1>5, <2>1 DEF RequestsInv, Local, Placed, Timed, Imaged, StaysPut
<1> QED
  BY <1>2, <1>3, <1>6, TypesLeft, StayingKeeps

LEMMA ReplyFinishedKeeps ==
    ASSUME RequestsInv, NEW r \in Request, ReplyFinished(r)
    PROVE  RequestsInv'
<1>1. at[r] \in {"token", "reply"} /\ loop[r].reply = "open" /\ loop[r] \in Loop
  BY Typed DEF ReplyFinished, Waiting
<1>2. PICK how \in {"ok", "429", "auth", "failed"} :
        Looping(r, IF asked[r].call = "image"
                   THEN [loop[r] EXCEPT !.reply = how, !.quit = TRUE]
                   ELSE OnHttpReplyFinished(loop[r], how))
  BY DEF ReplyFinished
<1>3. StaysPut /\ UNCHANGED <<heard, stop, abort>>
  BY <1>2 DEF ReplyFinished, StaysPut, Looping, tokenVars, streamVars
<1>4. CASE asked[r].call = "image"
  <2> DEFINE l == [loop[r] EXCEPT !.reply = how, !.quit = TRUE]
  <2>1. l \in Loop /\ l.timer = loop[r].timer /\ l.fired = loop[r].fired /\ l.error = loop[r].error
    BY <1>1 DEF Loop, ReplyEnd
  <2>2. loop' = [loop EXCEPT ![r] = l]
    BY <1>2, <1>4 DEF Looping
  <2> HIDE DEF l
  <2>3. at[r] = "reply"
    BY <1>1, <1>4 DEF RequestsInv, Local, Imaged
  <2>4. Local(r)'
    <3>1. loop'[r] = l
      BY <2>2, TypesLeft
    <3> QED
      BY <1>3, <1>4, <2>1, <2>3, <3>1 DEF RequestsInv, Local, Placed, Timed, Imaged, StaysPut
  <2> QED
    BY <1>3, <2>1, <2>2, <2>4, TypesLeft, StayingKeeps
<1>5. CASE asked[r].call # "image"
  <2> DEFINE l == OnHttpReplyFinished(loop[r], how)
  <2>1. how \in ReplyEnd
    BY DEF ReplyEnd
  <2>2. l \in Loop /\ ~l.timer /\ l.fired = loop[r].fired
    BY <1>1, <2>1, FinishedLoop
  <2>3. loop' = [loop EXCEPT ![r] = l]
    BY <1>2, <1>5 DEF Looping
  <2> HIDE DEF l
  <2>4. ~loop[r].fired
    BY <1>1, <1>5 DEF RequestsInv, Local, Timed
  <2>5. Local(r)'
    <3>1. loop'[r] = l
      BY <2>3, TypesLeft
    <3> QED
      BY <1>3, <1>5, <2>2, <2>4, <3>1 DEF RequestsInv, Local, Placed, Timed, Imaged, StaysPut
  <2> QED
    BY <1>3, <2>2, <2>3, <2>5, TypesLeft, StayingKeeps
<1> QED
  BY <1>4, <1>5

LEMMA TimeoutKeeps ==
    ASSUME RequestsInv, NEW r \in Request, Timeout(r)
    PROVE  RequestsInv'
<1>1. at[r] \in {"token", "reply"} /\ loop[r].timer /\ loop[r] \in Loop
  BY Typed DEF Timeout, Waiting
<1>2. StaysPut /\ UNCHANGED <<heard, stop, abort>>
  BY DEF Timeout, StaysPut, Looping, tokenVars, streamVars
<1>3. CASE asked[r].call = "image"
  <2> DEFINE l == [loop[r] EXCEPT !.timer = FALSE, !.fired = TRUE, !.quit = TRUE]
  <2>1. l \in Loop /\ ~l.timer /\ l.fired /\ l.error = loop[r].error
    BY <1>1 DEF Loop
  <2>2. loop' = [loop EXCEPT ![r] = l]
    BY <1>3 DEF Timeout, Looping
  <2> HIDE DEF l
  <2>3. at[r] = "reply"
    BY <1>1, <1>3 DEF RequestsInv, Local, Imaged
  <2>4. Local(r)'
    <3>1. loop'[r] = l
      BY <2>2, TypesLeft
    <3> QED
      BY <1>2, <1>3, <2>1, <2>3, <3>1 DEF RequestsInv, Local, Placed, Timed, Imaged, StaysPut
  <2> QED
    BY <1>2, <2>1, <2>2, <2>4, TypesLeft, StayingKeeps
<1>4. CASE asked[r].call # "image"
  <2> DEFINE l == OnHttpTimeout(loop[r])
  <2>1. loop[r].reply = "open"
    BY <1>1, <1>4 DEF RequestsInv, Local, Timed
  <2>2. l \in Loop /\ ~l.timer /\ l.reply = "canceled" /\ l.error = "timeout"
    BY <1>1, <2>1, OnHttpTimeoutIs
  <2>3. loop' = [loop EXCEPT ![r] = l]
    BY <1>4 DEF Timeout, Looping
  <2> HIDE DEF l
  <2>4. Local(r)'
    <3>1. loop'[r] = l
      BY <2>3, TypesLeft
    <3> QED
      BY <1>2, <1>4, <2>2, <3>1 DEF RequestsInv, Local, Placed, Timed, Imaged, StaysPut
  <2> QED
    BY <1>2, <2>2, <2>3, <2>4, TypesLeft, StayingKeeps
<1> QED
  BY <1>3, <1>4

LEMMA PostAbortKeeps ==
    ASSUME RequestsInv, NEW r \in Request, PostAbort(r)
    PROVE  RequestsInv'
<1>1. /\ at[r] \notin {"idle", "done"} /\ asked[r].call \in {"chat", "function"}
      /\ abort' = [abort EXCEPT ![r] = "posted"]
  BY DEF PostAbort
<1>2. StaysPut /\ UNCHANGED <<heard, stop, loop>>
  BY DEF PostAbort, StaysPut, tokenVars, streamVars
<1>3. Local(r)'
  BY <1>1, <1>2, TypesLeft DEF RequestsInv, Local, Placed, Timed, Imaged, StaysPut
<1> QED
  BY <1>1, <1>2, <1>3, TypesLeft, StayingKeeps

LEMMA DeliverAbortKeeps ==
    ASSUME RequestsInv, NEW r \in Request, DeliverAbort(r)
    PROVE  RequestsInv'
<1>1. abort[r] = "posted" /\ asked[r].call # "image" /\ loop[r] \in Loop
  BY Typed DEF DeliverAbort, RequestsInv, Local, Placed
<1>2. UNCHANGED <<heard, stop>>
  BY DEF DeliverAbort, streamVars
<1>3. CASE /\ at[r] \in {"token", "reply"}
           /\ abort' = [abort EXCEPT ![r] = IF loop[r].reply = "open" THEN "heard" ELSE "late"]
           /\ Looping(r, AbortReply(loop[r]))
  <2> DEFINE l == AbortReply(loop[r])
  <2>1. /\ l \in Loop /\ ~l.timer /\ l.fired = loop[r].fired
        /\ loop[r].reply # "open" => l.reply = loop[r].reply /\ l.error = loop[r].error
    BY <1>1, AbortReplyIs
  <2>2. loop' = [loop EXCEPT ![r] = l] /\ StaysPut
    BY <1>3 DEF Looping, StaysPut, tokenVars
  <2> HIDE DEF l
  <2>3. abort'[r] \in {"heard", "late"} /\ loop'[r] = l
    BY <1>3, <2>2, TypesLeft
  <2>4. Timed(r)'
    BY <1>1, <2>1, <2>2, <2>3 DEF RequestsInv, Local, Timed, StaysPut
  <2>5. Local(r)'
    BY <1>1, <1>3, <2>2, <2>3, <2>4 DEF RequestsInv, Local, Placed, Imaged, StaysPut
  <2>6. abort' \in [Request -> {"none", "posted", "heard", "late", "unheard"}]
    BY <1>3, TypesLeft
  <2>7. \A q \in Request \ {r} : abort'[q] = abort[q]
    BY <1>3, TypesLeft
  <2> QED
    BY <1>2, <2>1, <2>2, <2>5, <2>6, <2>7, TypesLeft, StayingKeeps
<1>4. CASE /\ at[r] = "probe" /\ abort' = [abort EXCEPT ![r] = "unheard"]
           /\ Looping(r, loop[r])
  <2>1. loop' = loop /\ StaysPut
    BY <1>4, TypesLeft DEF Looping, StaysPut, tokenVars
  <2>2. asked[r].provider = "modelhub"
    BY <1>4 DEF RequestsInv, Local, Placed
  <2>3. Local(r)'
    BY <1>1, <1>4, <2>1, <2>2, TypesLeft DEF RequestsInv, Local, Placed, Timed, Imaged, StaysPut
  <2> QED
    BY <1>1, <1>2, <1>4, <2>1, <2>3, TypesLeft, StayingKeeps
<1> QED
  BY <1>3, <1>4 DEF DeliverAbort, HearsAbort, Waiting

-----------------------------------------------------------------------------
(* The theorems                                                            *)

LEMMA StartsRight ==
    ASSUME RequestsAssumption, RequestsInit
    PROVE  RequestsInv
<1>1. RequestsTypeOK
  BY DEF RequestsInit, RequestsTypeOK, NotYet, Told, RequestsAssumption
<1>2. LoopsTyped
  BY LoopsAtFirst DEF RequestsInit, LoopsTyped
<1>3. CacheIsOwn
  BY DEF RequestsInit, CacheIsOwn
<1>4. ASSUME NEW q \in Request
      PROVE  Local(q) /\ Tokened(q)
  <2>1. at[q] = "idle" /\ asked[q] = Unasked /\ abort[q] = "none" /\ loop[q] = NoLoop /\ token[q] = Empty
    BY DEF RequestsInit
  <2> QED
    BY <2>1, UnaskedFacts, LoopsAtFirst DEF Local, Placed, Timed, Imaged, Tokened
<1> QED
  BY <1>1, <1>2, <1>3, <1>4 DEF RequestsInv

LEMMA NothingKeeps ==
    ASSUME RequestsInv, UNCHANGED requestVars
    PROVE  RequestsInv'
<1>1. /\ UNCHANGED <<asked, at, loop, outcome, abort, heard, stop>>
      /\ UNCHANGED <<token, accessToken, accountID, overtaken, holder>>
  BY DEF requestVars
<1>2. RequestsTypeOK'
  BY <1>1 DEF RequestsInv, RequestsTypeOK
<1>3. LoopsTyped' /\ CacheIsOwn'
  BY <1>1 DEF RequestsInv, LoopsTyped, CacheIsOwn
<1>4. ASSUME NEW q \in Request PROVE Local(q)' /\ Tokened(q)'
  BY <1>1, OthersKeep DEF RequestsInv, Same, Tokened
<1> QED
  BY <1>2, <1>3, <1>4 DEF RequestsInv

LEMMA NextKeeps ==
    ASSUME RequestsAssumption, RequestsInv, [RequestsNext]_requestVars
    PROVE  RequestsInv'
<1>1. CASE UNCHANGED requestVars
  BY <1>1, NothingKeeps
<1>2. ASSUME NEW r \in Request, NEW x \in Question, Ask(r, x) PROVE RequestsInv'
  BY <1>2, AskKeeps
<1>3. ASSUME NEW r \in Request, Advance(r) PROVE RequestsInv'
  BY <1>3, ProbedKeeps, TakeLockKeeps, LockTimeoutKeeps, TokenFetchedKeeps, ReadTokenKeeps,
     TimeoutKeeps, ReturnedKeeps, RecognizeReturnedKeeps DEF Advance
<1>4. ASSUME NEW r \in Request, NEW to \in 1..2 * Events, ReadyRead(r, to) PROVE RequestsInv'
  BY <1>4, ReadyReadKeeps
<1>5. ASSUME NEW r \in Request, ReplyFinished(r) \/ PostAbort(r) \/ DeliverAbort(r) PROVE RequestsInv'
  BY <1>5, ReplyFinishedKeeps, PostAbortKeeps, DeliverAbortKeeps
<1> QED
  BY <1>1, <1>2, <1>3, <1>4, <1>5 DEF RequestsNext

\* The inductive invariant holds of every behaviour.
THEOREM RequestsInvariant ==
    ASSUME RequestsAssumption
    PROVE  RequestsSpec => []RequestsInv
<1>1. RequestsInit => RequestsInv
  BY StartsRight
<1>2. RequestsInv /\ [RequestsNext]_requestVars => RequestsInv'
  BY NextKeeps
<1> QED
  BY <1>1, <1>2, PTL DEF RequestsSpec

\* What a request is told is what happened to it, for any number of requests,
\* accounts and events: a timeout says it was one, an image's answer is used or
\* its timer fired, an abort is heard unless a local server was being started,
\* and a token is the account's own but for the one race of the static string.
THEOREM RequestsToldTheirOwn ==
    ASSUME RequestsAssumption
    PROVE  RequestsSpec => []RequestsAreTold
<1>1. RequestsInv => RequestsAreTold
  <2> SUFFICES ASSUME RequestsInv
               PROVE  RequestsAreTold
    OBVIOUS
  <2>1. TimeoutsAreTold
    <3> SUFFICES ASSUME NEW r \in Request, loop[r].fired, asked[r].call # "image"
                 PROVE  NetReplyError(r) =
                            IF asked[r].call = "embedding" THEN "canceled" ELSE "timeout"
      BY DEF TimeoutsAreTold
    <3>1. loop[r].reply = "canceled" /\ loop[r].error = "timeout"
      BY DEF RequestsInv, Local, Timed
    <3> QED
      BY <3>1 DEF NetReplyError
  <2>2. AnsweredInTime
    BY DEF RequestsInv, Local, Imaged, AnsweredInTime
  <2>3. AbortsAreHeard
    BY DEF RequestsInv, Local, Placed, AbortsAreHeard
  <2>4. TokenIsOwn
    BY DEF RequestsInv, Tokened, TokenIsOwn
  <2> QED
    BY <2>1, <2>2, <2>3, <2>4 DEF RequestsInv, RequestsAreTold
<1> QED
  BY <1>1, RequestsInvariant, PTL

-----------------------------------------------------------------------------
(***************************************************************************)
(* The stream of an answer. What was streamed is a set of events in their  *)
(* order; a chunk brings events that all lie after those of the chunks     *)
(* before it, so that the order is kept when they are appended. A reply    *)
(* that was stopped is at its end, and a token's loop that was aborted has *)
(* an error, so that the request it was for is never sent.                 *)
(***************************************************************************)

\* The events in order: what Ascending gives.
LEMMA AscendingIs ==
    ASSUME NEW S, S \subseteq Int, IsFiniteSet(S)
    PROVE  /\ Cardinality(S) \in Nat /\ Ascending(S) \in Seq(S) /\ Len(Ascending(S)) = Cardinality(S)
           /\ \A k \in 1..Cardinality(S) : Ascending(S)[k] \in S /\ RankIn(S, Ascending(S)[k]) = k - 1
<1> DEFINE c == Cardinality(S)
<1>1. c \in Nat
  BY FS_CardinalityType
<1>2. ASSUME NEW k \in 1..c
      PROVE  Ascending(S)[k] \in S /\ RankIn(S, Ascending(S)[k]) = k - 1
  <2>1. k - 1 \in Nat /\ k - 1 < c
    BY <1>1
  <2>2. Ascending(S)[k] = CHOOSE e \in S : Cardinality({d \in S : d < e}) = k - 1
    BY DEF Ascending
  <2> QED
    BY <2>1, <2>2, RankChosen
<1>3. Ascending(S) \in [1..c -> S]
  <2>1. Ascending(S) = [k \in 1..c |-> Ascending(S)[k]]
    BY DEF Ascending
  <2> HIDE DEF c
  <2> QED
    BY <1>2, <2>1
<1>4. Ascending(S) \in Seq(S) /\ Len(Ascending(S)) = c
  <2> HIDE DEF c
  <2> QED
    BY <1>1, <1>3
<1> QED
  BY <1>1, <1>2, <1>4

\* Every event is in it.
LEMMA AscendingHasAll ==
    ASSUME NEW S, S \subseteq Int, IsFiniteSet(S), NEW e \in S
    PROVE  \E k \in 1..Cardinality(S) : Ascending(S)[k] = e
<1> DEFINE k == RankIn(S, e) + 1
<1>1. RankIn(S, e) \in Nat /\ RankIn(S, e) < Cardinality(S) /\ Cardinality(S) \in Nat
  <2>1. e \in Int
    OBVIOUS
  <2> QED
    BY <2>1, RankTyped, FS_CardinalityType
<1>2. k \in 1..Cardinality(S) /\ k - 1 = RankIn(S, e)
  BY <1>1
<1>3. Ascending(S)[k] \in S /\ RankIn(S, Ascending(S)[k]) = RankIn(S, e)
  BY <1>2, AscendingIs
<1>4. Ascending(S)[k] = e
  BY <1>3, RankIsOwn
<1> QED
  BY <1>2, <1>4

\* A place of it, told by the rank.
LEMMA AscendingAt ==
    ASSUME NEW S, S \subseteq Int, IsFiniteSet(S), NEW k \in 1..Cardinality(S), NEW e \in S,
           RankIn(S, e) = k - 1
    PROVE  Ascending(S)[k] = e
<1>1. Ascending(S)[k] \in S /\ RankIn(S, Ascending(S)[k]) = k - 1
  BY AscendingIs
<1> QED
  BY <1>1, RankIsOwn

\* Events that come after the others are appended in order.
LEMMA AscendingGrows ==
    ASSUME NEW A, NEW B, A \subseteq Int, B \subseteq Int, IsFiniteSet(A), IsFiniteSet(B),
           \A a \in A, b \in B : a < b
    PROVE  Ascending(A) \o Ascending(B) = Ascending(A \cup B)
<1> DEFINE S == A \cup B
           m == Cardinality(A)
           n == Cardinality(B)
           s == Ascending(A) \o Ascending(B)
<1>1. m \in Nat /\ n \in Nat
  BY FS_CardinalityType
<1>2. IsFiniteSet(S) /\ Cardinality(S) = m + n /\ S \subseteq Int
  <2>1. A \cap B = {}
    <3> SUFFICES ASSUME NEW x \in A \cap B PROVE FALSE
      OBVIOUS
    <3>1. x < x /\ x \in Int
      OBVIOUS
    <3> QED
      BY <3>1
  <2>2. IsFiniteSet(S) /\ Cardinality(S) = m + n - Cardinality(A \cap B)
    BY FS_Union
  <2>3. Cardinality(A \cap B) = 0
    BY <2>1, FS_EmptySet
  <2> HIDE DEF m, n
  <2> QED
    BY <1>1, <2>2, <2>3
<1>3. /\ s \in Seq(S) /\ Len(s) = m + n
      /\ \A k \in 1..m : s[k] = Ascending(A)[k]
      /\ \A k \in 1..n : s[m + k] = Ascending(B)[k]
  <2>1. /\ Ascending(A) \in Seq(A) /\ Len(Ascending(A)) = m
        /\ Ascending(B) \in Seq(B) /\ Len(Ascending(B)) = n
    BY AscendingIs
  <2>2. Ascending(A) \in Seq(S) /\ Ascending(B) \in Seq(S)
    BY <2>1
  <2>3. /\ s \in Seq(S) /\ Len(s) = Len(Ascending(A)) + Len(Ascending(B))
        /\ \A k \in 1..Len(Ascending(A)) : s[k] = Ascending(A)[k]
        /\ \A k \in 1..Len(Ascending(B)) : s[Len(Ascending(A)) + k] = Ascending(B)[k]
    <3> HIDE DEF S
    <3> QED
      BY <2>2, Concatenated
  <2> HIDE DEF S, s, m, n
  <2> QED
    BY <2>1, <2>3
<1>4. ASSUME NEW k \in 1..m
      PROVE  s[k] = Ascending(S)[k]
  <2> DEFINE e == Ascending(A)[k]
  <2>1. e \in A /\ RankIn(A, e) = k - 1
    BY AscendingIs
  <2>2. {d \in S : d < e} = {d \in A : d < e}
    <3>1. \A b \in B : ~(b < e)
      <4> TAKE b \in B
      <4>1. e < b /\ e \in Int /\ b \in Int
        BY <2>1
      <4> QED
        BY <4>1
    <3> HIDE DEF e
    <3> QED
      BY <3>1
  <2>3. RankIn(S, e) = k - 1 /\ e \in S
    BY <2>1, <2>2 DEF RankIn
  <2>4. k \in 1..Cardinality(S)
    BY <1>1, <1>2
  <2> HIDE DEF e, S
  <2>5. Ascending(S)[k] = e
    BY <1>2, <2>3, <2>4, AscendingAt
  <2> QED
    BY <1>3, <2>5 DEF e
<1>5. ASSUME NEW k \in 1..n
      PROVE  s[m + k] = Ascending(S)[m + k]
  <2> DEFINE e == Ascending(B)[k]
  <2>1. e \in B /\ RankIn(B, e) = k - 1 /\ e \in Int
    BY AscendingIs
  <2> DEFINE D == {d \in B : d < e}
  <2>2. {d \in S : d < e} = A \cup D
    <3>1. \A a \in A : a < e
      BY <2>1
    <3> HIDE DEF e
    <3> QED
      BY <3>1
  <2>3. IsFiniteSet(D) /\ Cardinality(D) = k - 1
    BY <2>1, RankTyped DEF RankIn
  <2>4. A \cap D = {}
    <3> SUFFICES ASSUME NEW x \in A, x \in B PROVE FALSE
      OBVIOUS
    <3>1. x < x /\ x \in Int
      OBVIOUS
    <3> QED
      BY <3>1
  <2> HIDE DEF D, e
  <2>5. Cardinality(A \cup D) = m + (k - 1) - 0
    BY <2>3, <2>4, FS_Union, FS_EmptySet
  <2>6. RankIn(S, e) = (m + k) - 1 /\ e \in S
    <3>1. RankIn(S, e) = m + (k - 1) - 0
      BY <2>2, <2>5 DEF RankIn
    <3> HIDE DEF m
    <3> QED
      BY <1>1, <2>1, <3>1
  <2>7. m + k \in 1..Cardinality(S)
    BY <1>1, <1>2
  <2> HIDE DEF S, m
  <2>8. Ascending(S)[m + k] = e
    BY <1>2, <2>6, <2>7, AscendingAt
  <2> QED
    BY <1>3, <2>8 DEF e
<1>6. Ascending(S) \in Seq(S) /\ Len(Ascending(S)) = m + n
  <2> HIDE DEF S
  <2> QED
    BY <1>2, AscendingIs
<1>7. \A k \in 1..m + n : s[k] = Ascending(S)[k]
  <2> TAKE k \in 1..m + n
  <2>1. CASE k \in 1..m
    BY <1>4, <2>1
  <2>2. CASE k \notin 1..m
    <3>1. k - m \in 1..n /\ m + (k - m) = k
      BY <1>1, <2>2
    <3> HIDE DEF s
    <3> QED
      BY <1>5, <3>1
  <2> QED
    BY <2>1, <2>2
<1> HIDE DEF S, s, m, n
<1>8. s = Ascending(S)
  BY <1>1, <1>3, <1>6, <1>7
<1> QED
  BY <1>8 DEF S, s

-----------------------------------------------------------------------------
StreamTyped ==
    /\ cuts \in [Request -> SUBSET (1..2 * Events)] /\ parsed \in [Request -> 0..2 * Events]
    /\ streamed \in [Request -> Seq(1..Events)]

\* The events the session should have by now.
Got(q) ==
    IF asked[q].provider = "ernie" THEN Within(0, parsed[q])
    ELSE {e \in Within(0, heard[q]) : 2 * e - 1 \notin cuts[q]}

\* Nothing arrives before the request is sent.
Unheard(q) ==
    at[q] \notin {"reply", "done"} =>
        heard[q] = 0 /\ cuts[q] = {} /\ parsed[q] = 0 /\ streamed[q] = <<>>

\* The last cut is where the answer is; what ended with an event was parsed.
CutsFit(q) ==
    /\ heard[q] \in cuts[q] \cup {0}
    /\ \A c \in cuts[q] : c <= heard[q] /\ (c % 2 = 0 => c <= parsed[q])
    /\ parsed[q] % 2 = 0 /\ parsed[q] <= heard[q]

InOrder(q) == asked[q].call = "chat" => streamed[q] = Ascending(Got(q))

Complete(q) ==
    at[q] = "done" /\ asked[q].call = "chat" =>
        \/ Got(q) \subseteq outcome[q].text
        \/ asked[q].provider = "ernie" /\ heard[q] % 2 = 1 /\ outcome[q].text = {}

\* A request that was stopped has been sent, or its token's loop has an error.
Silenced(q) ==
    /\ stop[q] => at[q] \in {"reply", "done"} /\ loop[q].reply # "open"
    /\ abort[q] = "heard" => /\ at[q] \in {"token", "reply", "done"} /\ loop[q].reply # "open"
                             /\ at[q] = "token" => loop[q].error # "none"

Flows(q) == Unheard(q) /\ CutsFit(q) /\ InOrder(q) /\ Complete(q) /\ Silenced(q)

StreamInv == RequestsInv /\ StreamTyped /\ \A q \in Request : Flows(q)

SameStream(q) ==
    /\ heard'[q] = heard[q] /\ cuts'[q] = cuts[q] /\ parsed'[q] = parsed[q]
    /\ streamed'[q] = streamed[q] /\ stop'[q] = stop[q]

LEMMA StreamTypes ==
    ASSUME StreamInv
    PROVE  /\ cuts \in [Request -> SUBSET (1..2 * Events)] /\ parsed \in [Request -> 0..2 * Events]
           /\ streamed \in [Request -> Seq(1..Events)]
BY DEF StreamInv, StreamTyped

LEMMA WithinTyped ==
    ASSUME RequestsAssumption, NEW from, NEW to
    PROVE  Within(from, to) \subseteq Int /\ IsFiniteSet(Within(from, to))
<1>1. Within(from, to) \in SUBSET (1..Events) /\ 1..Events \subseteq Int
  BY DEF Within
<1>2. IsFiniteSet(1..Events)
  BY FS_Interval DEF RequestsAssumption
<1> QED
  BY <1>1, <1>2, FS_Subset

LEMMA GotTyped ==
    ASSUME RequestsAssumption, NEW q
    PROVE  Got(q) \subseteq Int /\ IsFiniteSet(Got(q)) /\ Got(q) \subseteq 1..Events
<1>1. Got(q) \in SUBSET (1..Events) /\ 1..Events \subseteq Int
  BY DEF Got, Within
<1>2. IsFiniteSet(1..Events)
  BY FS_Interval DEF RequestsAssumption
<1> QED
  BY <1>1, <1>2, FS_Subset

\* Of an answer that has not begun nothing was streamed.
LEMMA NothingIsAscending == Ascending({}) = <<>>
<1>1. Cardinality({}) = 0 /\ IsFiniteSet({})
  BY FS_EmptySet
<1>2. Ascending({}) \in Seq({}) /\ Len(Ascending({})) = 0
  BY <1>1, AscendingIs
<1> QED
  BY <1>2

LEMMA GotNothing ==
    ASSUME NEW q, parsed[q] = 0, heard[q] = 0
    PROVE  Got(q) = {}
<1>1. Within(0, 0) = {}
  BY DEF Within
<1> QED
  BY <1>1 DEF Got

LEMMA OthersFlow ==
    ASSUME NEW q, Flows(q), Same(q), SameStream(q)
    PROVE  Flows(q)'
<1>1. Got(q)' = Got(q)
  BY DEF Got, Same, SameStream
<1>2. Unheard(q)' /\ CutsFit(q)'
  BY DEF Flows, Unheard, CutsFit, Same, SameStream
<1>3. InOrder(q)' /\ Complete(q)'
  BY <1>1 DEF Flows, InOrder, Complete, Same, SameStream
<1>4. Silenced(q)'
  BY DEF Flows, Silenced, Same, SameStream
<1> QED
  BY <1>2, <1>3, <1>4 DEF Flows

\* A step of one request in which nothing arrives.
LEMMA QuietKeeps ==
    ASSUME StreamInv, RequestsInv', UNCHANGED streamVars, NEW r \in Request,
           \A q \in Request \ {r} : Same(q),
           at'[r] \in {"reply", "done"} \/ at[r] \notin {"reply", "done"},
           asked'[r] = asked[r] \/ at[r] \notin {"reply", "done"},
           Complete(r)', Silenced(r)'
    PROVE  StreamInv'
<1>1. UNCHANGED <<heard, cuts, parsed, streamed, stop>>
  BY DEF streamVars
<1>2. StreamTyped'
  BY <1>1 DEF StreamInv, StreamTyped
<1>3. ASSUME NEW q \in Request, q # r
      PROVE  Flows(q)'
  BY <1>1, <1>3, OthersFlow DEF StreamInv, SameStream
<1>4. Flows(r)'
  <2>1. Unheard(r)' /\ CutsFit(r)'
    BY <1>1 DEF StreamInv, Flows, Unheard, CutsFit
  <2>2. InOrder(r)'
    <3>1. CASE at[r] \notin {"reply", "done"}
      <4>1. parsed'[r] = 0 /\ heard'[r] = 0 /\ streamed'[r] = <<>>
        BY <1>1, <3>1 DEF StreamInv, Flows, Unheard
      <4>2. Got(r)' = {}
        <5>1. Within(0, 0) = {}
          BY DEF Within
        <5> QED
          BY <4>1, <5>1 DEF Got
      <4> QED
        BY <4>1, <4>2, NothingIsAscending DEF InOrder
    <3>2. CASE at[r] \in {"reply", "done"}
      <4>1. asked'[r] = asked[r]
        BY <3>2
      <4>2. Got(r)' = Got(r)
        BY <1>1, <4>1 DEF Got
      <4> QED
        BY <1>1, <4>1, <4>2 DEF StreamInv, Flows, InOrder
    <3> QED
      BY <3>1, <3>2
  <2> QED
    BY <2>1, <2>2 DEF Flows
<1> QED
  BY <1>2, <1>3, <1>4 DEF StreamInv

\* Whatever ends before it is sent has nothing to answer.
LEMMA EarlyComplete ==
    ASSUME StreamInv, NEW r \in Request, UNCHANGED streamVars, at[r] \notin {"reply", "done"}
    PROVE  Complete(r)'
<1>1. parsed'[r] = 0 /\ heard'[r] = 0
  BY DEF StreamInv, Flows, Unheard, streamVars
<1>2. Got(r)' = {}
  <2>1. Within(0, 0) = {}
    BY DEF Within
  <2> QED
    BY <1>1, <2>1 DEF Got
<1> QED
  BY <1>2 DEF Complete

LEMMA EarlyKeeps ==
    ASSUME StreamInv, RequestsInv', UNCHANGED streamVars, UNCHANGED abort, NEW r \in Request,
           \A q \in Request \ {r} : Same(q), at[r] \notin {"token", "reply", "done"}
    PROVE  StreamInv'
<1>1. Silenced(r)'
  BY DEF StreamInv, Flows, Silenced, streamVars
<1>2. Complete(r)'
  BY EarlyComplete
<1> QED
  BY <1>1, <1>2, QuietKeeps

-----------------------------------------------------------------------------
(* The steps, and the stream                                               *)

\* Each step is one request's.
LEMMA EarlyIsOwn ==
    ASSUME RequestsInv, NEW r \in Request,
           (\E x \in Question : Ask(r, x)) \/ Probed(r) \/ TakeLock(r) \/ LockTimeout(r) \/ ReadToken(r)
    PROVE  /\ UNCHANGED streamVars /\ UNCHANGED abort /\ at[r] \notin {"token", "reply", "done"}
           /\ \A q \in Request \ {r} : Same(q)
<1>1. ASSUME NEW x \in Question, Ask(r, x)
      PROVE  /\ UNCHANGED streamVars /\ UNCHANGED abort /\ at[r] \notin {"token", "reply", "done"}
             /\ \A q \in Request \ {r} : Same(q)
  <2>1. UNCHANGED streamVars /\ UNCHANGED abort /\ at[r] = "idle" /\ asked' = [asked EXCEPT ![r] = x]
    BY <1>1 DEF Ask
  <2>2. /\ at' = [at EXCEPT ![r] = at'[r]] /\ loop' = [loop EXCEPT ![r] = loop'[r]]
        /\ outcome' = [outcome EXCEPT ![r] = outcome'[r]]
    BY <1>1, TypesLeft DEF Ask, Finish, Send
  <2> QED
    BY <2>1, <2>2, TypesLeft DEF Same
<1>2. CASE Probed(r)
  BY <1>2, TypesLeft DEF Probed, Finish, Send, Same
<1>3. CASE TakeLock(r)
  BY <1>3, TypesLeft DEF TakeLock, Same
<1>4. CASE LockTimeout(r)
  BY <1>4, TypesLeft DEF LockTimeout, Finish, Same
<1>5. CASE ReadToken(r)
  BY <1>5, TypesLeft DEF ReadToken, Finish, Send, Same
<1> QED
  BY <1>1, <1>2, <1>3, <1>4, <1>5

LEMMA TokenFetchedFlows ==
    ASSUME StreamInv, RequestsInv', NEW r \in Request, TokenFetched(r)
    PROVE  StreamInv'
<1>1. UNCHANGED streamVars /\ UNCHANGED <<abort, loop, asked>> /\ at[r] = "token"
  BY DEF TokenFetched
<1>2. RequestsInv
  BY DEF StreamInv
<1>3. at' = [at EXCEPT ![r] = at'[r]] /\ outcome' = [outcome EXCEPT ![r] = outcome'[r]]
  BY <1>2, TypesLeft DEF TokenFetched, Finish
<1>4. \A q \in Request \ {r} : Same(q)
  BY <1>1, <1>2, <1>3, TypesLeft DEF Same
<1>5. loop[r].error # "none" => at'[r] = "done"
  BY <1>2, TypesLeft DEF TokenFetched, Finish
<1>6. Silenced(r)'
  BY <1>1, <1>5 DEF StreamInv, Flows, Silenced, streamVars
<1>7. Complete(r)'
  BY <1>1, EarlyComplete
<1> QED
  BY <1>1, <1>4, <1>6, <1>7, QuietKeeps

\* A thread that stays where it is while its loop goes on.
LEMMA LoopingIsOwn ==
    ASSUME RequestsInv, NEW r \in Request, NEW l, Looping(r, l),
           \A q \in Request \ {r} : abort'[q] = abort[q]
    PROVE  /\ \A q \in Request \ {r} : Same(q)
           /\ loop'[r] = l /\ asked' = asked /\ at' = at /\ outcome' = outcome
BY TypesLeft DEF Looping, Same

LEMMA LoopingFlows ==
    ASSUME StreamInv, RequestsInv', NEW r \in Request, UNCHANGED streamVars,
           at[r] # "done", NEW l, Looping(r, l), \A q \in Request \ {r} : abort'[q] = abort[q],
           Silenced(r)'
    PROVE  StreamInv'
<1>1. RequestsInv
  BY DEF StreamInv
<1>2. /\ \A q \in Request \ {r} : Same(q)
      /\ loop'[r] = l /\ asked' = asked /\ at' = at /\ outcome' = outcome
  BY <1>1, LoopingIsOwn
<1>3. Complete(r)'
  BY <1>2 DEF Complete
<1> QED
  BY <1>2, <1>3, QuietKeeps

LEMMA ReplyFinishedFlows ==
    ASSUME StreamInv, RequestsInv', NEW r \in Request, ReplyFinished(r)
    PROVE  StreamInv'
<1>1. UNCHANGED streamVars /\ abort' = abort /\ at[r] \in {"token", "reply"} /\ loop[r].reply = "open"
  BY DEF ReplyFinished, Waiting
<1>2. PICK l : Looping(r, l)
  BY DEF ReplyFinished
<1>3. Silenced(r)'
  BY <1>1 DEF StreamInv, Flows, Silenced, streamVars
<1> QED
  BY <1>1, <1>2, <1>3, LoopingFlows

LEMMA TimeoutFlows ==
    ASSUME StreamInv, RequestsInv', NEW r \in Request, Timeout(r)
    PROVE  StreamInv'
<1>1. UNCHANGED streamVars /\ abort' = abort /\ at[r] \in {"token", "reply"} /\ loop[r].timer
  BY DEF Timeout, Waiting
<1>2. RequestsInv /\ loop[r] \in Loop
  BY Typed DEF StreamInv
<1>3. CASE asked[r].call # "image"
  <2>1. loop[r].reply = "open"
    BY <1>1, <1>2, <1>3 DEF RequestsInv, Local, Timed
  <2>2. Looping(r, OnHttpTimeout(loop[r]))
    BY <1>3 DEF Timeout
  <2>3. Silenced(r)'
    BY <1>1, <2>1 DEF StreamInv, Flows, Silenced, streamVars
  <2> QED
    BY <1>1, <2>2, <2>3, LoopingFlows
<1>4. CASE asked[r].call = "image"
  <2> DEFINE l == [loop[r] EXCEPT !.timer = FALSE, !.fired = TRUE, !.quit = TRUE]
  <2>1. l.reply = loop[r].reply /\ l.error = loop[r].error
    BY <1>2 DEF Loop
  <2>2. Looping(r, l)
    BY <1>4 DEF Timeout
  <2> HIDE DEF l
  <2>3. loop'[r] = l /\ at' = at
    BY <1>1, <1>2, <2>2, LoopingIsOwn
  <2>4. Silenced(r)'
    BY <1>1, <2>1, <2>3 DEF StreamInv, Flows, Silenced, streamVars
  <2> QED
    BY <1>1, <2>2, <2>4, LoopingFlows
<1> QED
  BY <1>3, <1>4

LEMMA PostAbortFlows ==
    ASSUME StreamInv, RequestsInv', NEW r \in Request, PostAbort(r)
    PROVE  StreamInv'
<1>1. /\ UNCHANGED <<asked, at, loop, streamVars, outcome>> /\ at[r] # "done" /\ abort[r] = "none"
      /\ abort' = [abort EXCEPT ![r] = "posted"]
  BY DEF PostAbort
<1>2. RequestsInv
  BY DEF StreamInv
<1>3. abort'[r] = "posted" /\ \A q \in Request \ {r} : Same(q)
  BY <1>1, <1>2, TypesLeft DEF Same
<1>4. Silenced(r)' /\ Complete(r)'
  BY <1>1, <1>3 DEF StreamInv, Flows, Silenced, Complete, streamVars
<1> QED
  BY <1>1, <1>3, <1>4, QuietKeeps

LEMMA DeliverAbortFlows ==
    ASSUME StreamInv, RequestsInv', NEW r \in Request, DeliverAbort(r)
    PROVE  StreamInv'
<1>1. RequestsInv /\ loop[r] \in Loop /\ UNCHANGED streamVars /\ abort[r] = "posted"
  BY Typed DEF StreamInv, DeliverAbort
<1>2. CASE /\ at[r] \in {"token", "reply"}
           /\ abort' = [abort EXCEPT ![r] = IF loop[r].reply = "open" THEN "heard" ELSE "late"]
           /\ Looping(r, AbortReply(loop[r]))
  <2> DEFINE l == AbortReply(loop[r])
  <2>1. /\ l.reply # "open"
        /\ loop[r].reply = "open" => l.error # "none"
    BY <1>1, AbortReplyIs
  <2> HIDE DEF l
  <2>2. Looping(r, l)
    BY <1>2 DEF l
  <2>3. /\ \A q \in Request \ {r} : abort'[q] = abort[q]
        /\ abort'[r] = IF loop[r].reply = "open" THEN "heard" ELSE "late"
    BY <1>1, <1>2, TypesLeft
  <2>4. loop'[r] = l /\ at' = at
    BY <1>1, <2>2, <2>3, LoopingIsOwn
  <2>5. Silenced(r)'
    BY <1>1, <1>2, <2>1, <2>3, <2>4 DEF StreamInv, Flows, Silenced, streamVars
  <2> QED
    BY <1>1, <1>2, <2>2, <2>3, <2>5, LoopingFlows
<1>3. CASE /\ at[r] = "probe" /\ abort' = [abort EXCEPT ![r] = "unheard"]
           /\ Looping(r, loop[r])
  <2>1. abort'[r] = "unheard" /\ \A q \in Request \ {r} : abort'[q] = abort[q]
    BY <1>1, <1>3, TypesLeft
  <2>2. loop'[r] = loop[r] /\ at' = at
    BY <1>1, <1>3, <2>1, LoopingIsOwn
  <2>3. Silenced(r)'
    BY <1>1, <2>1, <2>2 DEF StreamInv, Flows, Silenced, streamVars
  <2> QED
    BY <1>1, <1>3, <2>1, <2>3, LoopingFlows
<1> QED
  BY <1>2, <1>3 DEF DeliverAbort, HearsAbort, Waiting

\* The answer of a chat has all that its session got.
LEMMA ReturnedFlows ==
    ASSUME RequestsAssumption, StreamInv, RequestsInv', NEW r \in Request, Returned(r)
    PROVE  StreamInv'
<1>1. RequestsInv /\ UNCHANGED streamVars /\ UNCHANGED <<abort, loop, asked>> /\ at[r] = "reply"
  BY DEF StreamInv, Returned
<1>2. at' = [at EXCEPT ![r] = "done"] /\ outcome' = [outcome EXCEPT ![r] = outcome'[r]]
  BY <1>1, TypesLeft DEF Returned, Finish
<1>3. at'[r] = "done" /\ \A q \in Request \ {r} : Same(q)
  BY <1>1, <1>2, TypesLeft DEF Same
<1>4. Silenced(r)'
  BY <1>1, <1>3 DEF StreamInv, Flows, Silenced, streamVars
<1>5. ASSUME asked[r].call = "chat"
      PROVE  Got(r) \subseteq outcome'[r].text
             \/ (asked[r].provider = "ernie" /\ heard[r] % 2 = 1 /\ outcome'[r].text = {})
  <2>1. PICK brace \in BOOLEAN : outcome'[r].text = Content(r, brace)
    <3>1. PICK function, brace \in BOOLEAN :
                 Finish(r, Answer(asked[r].call, function, Content(r, brace)))
      BY <1>5 DEF Returned
    <3>2. Answer("chat", function, Content(r, brace)) = Told("ok", Content(r, brace))
      BY DEF Answer
    <3>3. outcome'[r] = Told("ok", Content(r, brace))
      BY <1>1, <1>5, <3>1, <3>2, TypesLeft DEF Finish
    <3> QED
      BY <3>3 DEF Told
  <2>2. heard[r] \in 0..2 * Events /\ parsed[r] \in 0..2 * Events /\ parsed[r] <= heard[r]
    BY <1>1, TypesLeft, StreamTypes DEF StreamInv, Flows, CutsFit
  <2>3. CASE heard[r] = 2 * Events
    BY <2>1, <2>3, GotTyped DEF Content
  <2>4. CASE heard[r] # 2 * Events /\ Parses(r, heard[r], brace)
    <3>1. outcome'[r].text = Within(0, heard[r])
      BY <1>5, <2>1, <2>4 DEF Content
    <3>2. Within(0, parsed[r]) \subseteq Within(0, heard[r])
      BY <2>2 DEF Within, RequestsAssumption
    <3>3. Got(r) \subseteq Within(0, heard[r])
      BY <3>2 DEF Got
    <3> QED
      BY <3>1, <3>3
  <2>5. CASE heard[r] # 2 * Events /\ ~Parses(r, heard[r], brace)
    <3>1. outcome'[r].text = {}
      BY <2>1, <2>5 DEF Content
    <3>2. asked[r].provider = "ernie" /\ heard[r] % 2 # 0
      BY <2>5 DEF Parses
    <3> QED
      BY <2>2, <3>1, <3>2
  <2> QED
    BY <2>3, <2>4, <2>5
<1>6. Complete(r)'
  <2>1. Got(r)' = Got(r) /\ heard' = heard
    BY <1>1 DEF Got, streamVars
  <2> QED
    BY <1>1, <1>5, <2>1 DEF Complete
<1> QED
  BY <1>1, <1>3, <1>4, <1>6, QuietKeeps

LEMMA RecognizeReturnedFlows ==
    ASSUME StreamInv, RequestsInv', NEW r \in Request, RecognizeReturned(r)
    PROVE  StreamInv'
<1>1. /\ RequestsInv /\ UNCHANGED streamVars /\ UNCHANGED <<abort, asked>> /\ at[r] = "reply"
      /\ asked[r].call = "image" /\ loop[r] \in Loop
  BY Typed DEF StreamInv, RecognizeReturned
<1>2. /\ at' = [at EXCEPT ![r] = "done"] /\ outcome' = [outcome EXCEPT ![r] = outcome'[r]]
      /\ loop' = [loop EXCEPT ![r] = loop'[r]] /\ loop'[r].reply = loop[r].reply
  BY <1>1, TypesLeft DEF RecognizeReturned, Finish, Loop
<1>3. at'[r] = "done" /\ \A q \in Request \ {r} : Same(q)
  BY <1>1, <1>2, TypesLeft DEF Same
<1>4. Silenced(r)'
  BY <1>1, <1>2, <1>3 DEF StreamInv, Flows, Silenced, streamVars
<1>5. Complete(r)'
  BY <1>1 DEF Complete
<1> QED
  BY <1>1, <1>3, <1>4, <1>5, QuietKeeps

\* What Ernie's parser kept, and the chunk that it could parse.
LEMMA KeptAndNew ==
    ASSUME RequestsAssumption, NEW p \in Nat, NEW to \in Nat, p % 2 = 0, p <= to
    PROVE  /\ Within(0, p) \cup Within(p, to) = Within(0, to - (to % 2))
           /\ \A a \in Within(0, p), b \in Within(p, to) : a < b
           /\ to - (to % 2) \in 0..to /\ (to - (to % 2)) % 2 = 0 /\ p <= to - (to % 2)
<1>1. /\ to % 2 \in 0..1 /\ to - (to % 2) \in 0..to /\ (to - (to % 2)) % 2 = 0
      /\ p <= to - (to % 2)
  OBVIOUS
<1>2. \A e \in 1..Events : 2 * e <= to <=> 2 * e <= to - (to % 2)
  <2> TAKE e \in 1..Events
  <2>1. e \in Nat
    BY DEF RequestsAssumption
  <2> QED
    BY <2>1
<1>3. \A e \in 1..Events : 2 * e <= p \/ 2 * e - 1 > p
  <2> TAKE e \in 1..Events
  <2>1. e \in Nat
    BY DEF RequestsAssumption
  <2> QED
    BY <2>1
<1>4. \A e \in 1..Events : 2 * e - 1 > 0 /\ e \in Nat
  BY DEF RequestsAssumption
<1> DEFINE m == to - (to % 2)
<1>5. m \in Nat /\ p <= m /\ m <= to /\ \A e \in 1..Events : 2 * e <= to <=> 2 * e <= m
  BY <1>1, <1>2
<1> HIDE DEF m
<1>6. Within(0, p) \cup Within(p, to) = Within(0, m)
  BY <1>3, <1>4, <1>5 DEF Within
<1>7. \A a \in Within(0, p), b \in Within(p, to) : a < b
  BY <1>4 DEF Within
<1> QED
  BY <1>1, <1>6, <1>7 DEF m

\* What had arrived whole, and the events within the next chunk.
WholeEvents(h, C) == {e \in Within(0, h) : 2 * e - 1 \notin C}

LEMMA WholeAndNew ==
    ASSUME RequestsAssumption, NEW C \in SUBSET Nat, NEW h \in Nat, NEW to \in Nat, h < to,
           h \in C \cup {0}, \A c \in C : c <= h
    PROVE  /\ WholeEvents(h, C) \cup Within(h, to) = WholeEvents(to, C \cup {to})
           /\ \A a \in WholeEvents(h, C), b \in Within(h, to) : a < b
<1>1. \A e \in 1..Events : e \in Nat /\ 2 * e - 1 > 0
  BY DEF RequestsAssumption
<1>2. ASSUME NEW e \in 1..Events
      PROVE  (2 * e <= h /\ 2 * e - 1 \notin C) \/ (2 * e - 1 > h /\ 2 * e <= to)
             <=> 2 * e <= to /\ 2 * e - 1 \notin C \cup {to}
  <2>1. e \in Nat /\ 2 * e - 1 > 0
    BY <1>1
  <2>2. CASE 2 * e <= h
    BY <2>1, <2>2
  <2>3. CASE 2 * e - 1 = h
    BY <2>1, <2>3
  <2>4. CASE 2 * e - 1 > h
    <3>1. 2 * e - 1 \notin C
      BY <2>1, <2>4
    <3> QED
      BY <2>1, <2>4, <3>1
  <2> QED
    BY <2>1, <2>2, <2>3, <2>4
<1>3. WholeEvents(h, C) \cup Within(h, to) = WholeEvents(to, C \cup {to})
  BY <1>1, <1>2 DEF WholeEvents, Within
<1>4. \A a \in WholeEvents(h, C), b \in Within(h, to) : a < b
  BY <1>1 DEF WholeEvents, Within
<1> QED
  BY <1>3, <1>4

LEMMA SeqWiden ==
    ASSUME NEW S, NEW T, S \subseteq T, NEW s \in Seq(S)
    PROVE  s \in Seq(T)
OBVIOUS

LEMMA ReadyReadFlows ==
    ASSUME RequestsAssumption, StreamInv, RequestsInv', NEW r \in Request, NEW to \in 1..2 * Events,
           ReadyRead(r, to)
    PROVE  StreamInv'
<1>1. /\ RequestsInv /\ at[r] = "reply" /\ loop[r].reply = "open" /\ loop[r] \in Loop
      /\ heard[r] < to /\ to \in Nat /\ Events \in Nat
  BY Typed DEF StreamInv, ReadyRead, Hears, RequestsAssumption
<1>0. PICK brace \in BOOLEAN, terminate \in BOOLEAN :
        /\ parsed' = [parsed EXCEPT ![r] = IF Parses(r, to, brace) THEN to - (to % 2) ELSE @]
        /\ streamed' = [streamed EXCEPT ![r] = @ \o Ascending(
                           IF asked[r].call = "chat" THEN DeltaContent(r, to, brace) ELSE {})]
        /\ stop' = [stop EXCEPT ![r] = @ \/ terminate]
        /\ Looping(r, IF terminate THEN AbortReply(loop[r]) ELSE loop[r])
  BY DEF ReadyRead
<1>2. PICK delta :
        /\ delta = (IF asked[r].call = "chat" THEN DeltaContent(r, to, brace) ELSE {})
        /\ parsed' = [parsed EXCEPT ![r] = IF Parses(r, to, brace) THEN to - (to % 2) ELSE @]
        /\ streamed' = [streamed EXCEPT ![r] = @ \o Ascending(delta)]
        /\ stop' = [stop EXCEPT ![r] = @ \/ terminate]
        /\ Looping(r, IF terminate THEN AbortReply(loop[r]) ELSE loop[r])
  BY <1>0
<1>3. /\ heard' = [heard EXCEPT ![r] = to] /\ cuts' = [cuts EXCEPT ![r] = @ \cup {to}]
      /\ UNCHANGED abort
  BY DEF ReadyRead
<1> DEFINE l == IF terminate THEN AbortReply(loop[r]) ELSE loop[r]
<1>4. /\ \A q \in Request \ {r} : Same(q)
      /\ loop'[r] = l /\ asked' = asked /\ at' = at /\ outcome' = outcome
  BY <1>1, <1>2, <1>3, LoopingIsOwn
<1>5. terminate => l.reply # "open"
  BY <1>1, AbortReplyIs
<1> HIDE DEF l
<1> DEFINE p == parsed[r]
           h == heard[r]
           C == cuts[r]
           k == to - (to % 2)
<1>6. /\ p \in Nat /\ p % 2 = 0 /\ p <= h /\ h \in Nat /\ C \in SUBSET Nat /\ h \in C \cup {0}
      /\ \A c \in C : c <= h /\ (c % 2 = 0 => c <= p)
      /\ p <= to
  <2>1. p \in 0..2 * Events /\ h \in 0..2 * Events /\ C \in SUBSET (1..2 * Events)
    BY <1>1, TypesLeft, StreamTypes
  <2>2. CutsFit(r)
    BY DEF StreamInv, Flows
  <2> QED
    BY <1>1, <2>1, <2>2 DEF CutsFit
<1>7. k \in 0..to /\ k % 2 = 0 /\ p <= k
  BY <1>1, <1>6, KeptAndNew
<1>8. /\ parsed'[r] = IF Parses(r, to, brace) THEN k ELSE p
      /\ heard'[r] = to /\ cuts'[r] = C \cup {to} /\ streamed'[r] = streamed[r] \o Ascending(delta)
      /\ stop'[r] = (stop[r] \/ terminate) /\ abort'[r] = abort[r]
  BY <1>1, <1>2, <1>3, TypesLeft, StreamTypes
<1>9. delta \subseteq Int /\ IsFiniteSet(delta) /\ delta \subseteq 1..Events
  <2>1. delta = {} \/ delta = Within(p, to) \/ delta = Within(h, to)
    BY <1>2 DEF DeltaContent, OfKept, OfChunk
  <2>2. Within(p, to) \subseteq 1..Events /\ Within(h, to) \subseteq 1..Events
    BY DEF Within
  <2> QED
    BY <2>1, <2>2, WithinTyped, FS_EmptySet
<1>10. streamed[r] \in Seq(1..Events) /\ Ascending(delta) \in Seq(1..Events)
  <2>1. Ascending(delta) \in Seq(delta)
    BY <1>9, AscendingIs
  <2>2. Ascending(delta) \in Seq(1..Events)
    BY <1>9, <2>1, SeqWiden
  <2> QED
    BY <2>2, StreamTypes
<1>11. StreamTyped'
  <2>1. cuts' \in [Request -> SUBSET (1..2 * Events)]
    BY <1>3, StreamTypes
  <2>2. k \in 0..2 * Events
    BY <1>1, <1>7
  <2>3. parsed' \in [Request -> 0..2 * Events]
    BY <1>2, <2>2, StreamTypes
  <2>4. streamed[r] \o Ascending(delta) \in Seq(1..Events)
    <3> DEFINE E == 1..Events
    <3>1. streamed[r] \in Seq(E) /\ Ascending(delta) \in Seq(E)
      BY <1>10
    <3> HIDE DEF E
    <3> QED
      BY <3>1, Concatenated DEF E
  <2>5. streamed' \in [Request -> Seq(1..Events)]
    BY <1>2, <2>4, StreamTypes
  <2> QED
    BY <2>1, <2>3, <2>5 DEF StreamTyped
<1>12. ASSUME NEW q \in Request, q # r
       PROVE  Flows(q)'
  <2>1. SameStream(q)
    BY <1>2, <1>3, <1>12, TypesLeft, StreamTypes, <1>1 DEF SameStream
  <2> QED
    BY <1>4, <1>12, <2>1, OthersFlow DEF StreamInv
<1>13. CutsFit(r)'
  <2>1. to % 2 = 0 => Parses(r, to, brace) /\ k = to
    BY <1>1 DEF Parses
  <2> HIDE DEF p, h, C, k
  <2>2. parsed'[r] \in {p, k}
    BY <1>8
  <2>3. parsed'[r] \in Nat /\ parsed'[r] % 2 = 0 /\ parsed'[r] <= to /\ p <= parsed'[r]
    BY <1>1, <1>6, <1>7, <2>2
  <2>4. ASSUME NEW c \in C \cup {to}
        PROVE  c <= to /\ (c % 2 = 0 => c <= parsed'[r])
    <3>1. CASE c = to
      BY <1>1, <1>8, <2>1, <3>1
    <3>2. CASE c \in C
      <4>1. c \in Nat /\ c <= h /\ (c % 2 = 0 => c <= p) /\ h < to
        BY <1>1, <1>6, <3>2 DEF h
      <4> QED
        BY <1>1, <1>6, <2>3, <4>1
    <3> QED
      BY <3>1, <3>2
  <2> QED
    BY <1>8, <2>3, <2>4 DEF CutsFit
<1>14. InOrder(r)'
  <2> SUFFICES ASSUME asked[r].call = "chat"
               PROVE  streamed'[r] = Ascending(Got(r)')
    BY <1>4 DEF InOrder
  <2>1. streamed[r] = Ascending(Got(r))
    BY DEF StreamInv, Flows, InOrder
  <2>2. Got(r) \cup delta = Got(r)' /\ \A a \in Got(r), b \in delta : a < b
    <3>1. CASE asked[r].provider = "ernie" /\ Parses(r, to, brace)
      <4>1. Got(r) = Within(0, p) /\ delta = Within(p, to)
        BY <1>2, <3>1 DEF Got, DeltaContent, OfKept
      <4>2. Got(r)' = Within(0, k)
        BY <1>4, <1>8, <3>1 DEF Got
      <4> QED
        BY <1>1, <1>6, <4>1, <4>2, KeptAndNew
    <3>2. CASE asked[r].provider = "ernie" /\ ~Parses(r, to, brace)
      <4>1. delta = {}
        BY <1>2, <3>2 DEF DeltaContent
      <4>2. Got(r)' = Got(r)
        BY <1>4, <1>8, <3>2 DEF Got
      <4> QED
        BY <4>1, <4>2
    <3>3. CASE asked[r].provider # "ernie"
      <4>1. Got(r) = WholeEvents(h, C)
        BY <3>3 DEF Got, WholeEvents
      <4>2. delta = Within(h, to)
        BY <1>2, <3>3 DEF DeltaContent, OfChunk, Parses
      <4>3. Got(r)' = WholeEvents(to, C \cup {to})
        BY <1>4, <1>8, <3>3 DEF Got, WholeEvents
      <4>4. h < to
        BY <1>1
      <4> HIDE DEF p, h, C, k
      <4>5. \A c \in C : c <= h
        BY <1>6
      <4>6. /\ WholeEvents(h, C) \cup Within(h, to) = WholeEvents(to, C \cup {to})
            /\ \A a \in WholeEvents(h, C), b \in Within(h, to) : a < b
        BY <1>1, <1>6, <4>4, <4>5, WholeAndNew
      <4> QED
        BY <4>1, <4>2, <4>3, <4>6
    <3> QED
      BY <3>1, <3>2, <3>3
  <2>3. Got(r) \subseteq Int /\ IsFiniteSet(Got(r))
    BY GotTyped
  <2>4. Ascending(Got(r)) \o Ascending(delta) = Ascending(Got(r) \cup delta)
    BY <1>9, <2>2, <2>3, AscendingGrows
  <2> QED
    BY <1>8, <2>1, <2>2, <2>4
<1>15. Unheard(r)' /\ Complete(r)'
  BY <1>1, <1>4 DEF Unheard, Complete
<1>16. Silenced(r)'
  BY <1>1, <1>4, <1>5, <1>8 DEF StreamInv, Flows, Silenced
<1> QED
  BY <1>11, <1>12, <1>13, <1>14, <1>15, <1>16 DEF StreamInv, Flows

-----------------------------------------------------------------------------
(* The theorems about the stream                                           *)

LEMMA StreamStarts ==
    ASSUME RequestsAssumption, RequestsInit
    PROVE  StreamInv
<1>1. RequestsInv
  BY StartsRight
<1>2. StreamTyped
  <2>1. <<>> \in Seq(1..Events) /\ 0 \in 0..2 * Events
    BY DEF RequestsAssumption
  <2> QED
    BY <2>1 DEF RequestsInit, StreamTyped
<1>3. ASSUME NEW q \in Request
      PROVE  Flows(q)
  <2>1. /\ at[q] = "idle" /\ heard[q] = 0 /\ cuts[q] = {} /\ parsed[q] = 0 /\ streamed[q] = <<>>
        /\ ~stop[q] /\ abort[q] = "none"
    BY DEF RequestsInit
  <2>2. InOrder(q)
    BY <2>1, GotNothing, NothingIsAscending DEF InOrder
  <2>3. CutsFit(q)
    BY <2>1 DEF CutsFit
  <2> QED
    BY <2>1, <2>2, <2>3 DEF Flows, Unheard, Complete, Silenced
<1> QED
  BY <1>1, <1>2, <1>3 DEF StreamInv

LEMMA StreamStays ==
    ASSUME StreamInv, RequestsInv', UNCHANGED requestVars
    PROVE  StreamInv'
<1>1. /\ UNCHANGED <<asked, at, loop, outcome, abort>>
      /\ UNCHANGED <<heard, cuts, parsed, streamed, stop>>
  BY DEF requestVars
<1>2. StreamTyped'
  BY <1>1 DEF StreamInv, StreamTyped
<1>3. ASSUME NEW q \in Request PROVE Flows(q)'
  BY <1>1, OthersFlow DEF StreamInv, Same, SameStream
<1> QED
  BY <1>2, <1>3 DEF StreamInv

LEMMA StreamSteps ==
    ASSUME RequestsAssumption, StreamInv, [RequestsNext]_requestVars
    PROVE  StreamInv'
<1>1. RequestsInv /\ RequestsInv'
  BY NextKeeps DEF StreamInv
<1>2. CASE UNCHANGED requestVars
  BY <1>1, <1>2, StreamStays
<1>3. ASSUME NEW r \in Request,
             (\E x \in Question : Ask(r, x)) \/ Probed(r) \/ TakeLock(r) \/ LockTimeout(r) \/ ReadToken(r)
      PROVE  StreamInv'
  <2>1. /\ UNCHANGED streamVars /\ UNCHANGED abort /\ at[r] \notin {"token", "reply", "done"}
        /\ \A q \in Request \ {r} : Same(q)
    BY <1>1, <1>3, EarlyIsOwn
  <2> QED
    BY <1>1, <2>1, EarlyKeeps
<1>4. ASSUME NEW r \in Request, NEW to \in 1..2 * Events, ReadyRead(r, to) PROVE StreamInv'
  BY <1>1, <1>4, ReadyReadFlows
<1>5. ASSUME NEW r \in Request,
             \/ TokenFetched(r) \/ Timeout(r) \/ Returned(r) \/ RecognizeReturned(r)
             \/ ReplyFinished(r) \/ PostAbort(r) \/ DeliverAbort(r)
      PROVE  StreamInv'
  BY <1>1, <1>5, TokenFetchedFlows, TimeoutFlows, ReturnedFlows, RecognizeReturnedFlows,
     ReplyFinishedFlows, PostAbortFlows, DeliverAbortFlows
<1> QED
  BY <1>2, <1>3, <1>4, <1>5 DEF RequestsNext, Advance

\* The strengthened invariant of the stream holds of every behaviour.
THEOREM StreamInvariant ==
    ASSUME RequestsAssumption
    PROVE  RequestsSpec => []StreamInv
<1>1. RequestsInit => StreamInv
  BY StreamStarts
<1>2. StreamInv /\ [RequestsNext]_requestVars => StreamInv'
  BY StreamSteps
<1> QED
  BY <1>1, <1>2, PTL DEF RequestsSpec

\* A step in which something arrives is the reading of an open reply.
LEMMA OnlyReadsArrive ==
    ASSUME StreamInv, [RequestsNext]_requestVars, NEW r \in Request, loop[r].reply # "open"
    PROVE  heard'[r] = heard[r] /\ streamed'[r] = streamed[r]
<1>1. CASE UNCHANGED <<heard, streamed>>
  BY <1>1
<1>2. ASSUME NEW q \in Request, NEW to \in 1..2 * Events, ReadyRead(q, to)
      PROVE  heard'[r] = heard[r] /\ streamed'[r] = streamed[r]
  <2>1. q # r
    BY <1>2 DEF ReadyRead, Hears
  <2>2. \E delta : streamed' = [streamed EXCEPT ![q] = @ \o Ascending(delta)]
    BY <1>2 DEF ReadyRead
  <2>3. heard' = [heard EXCEPT ![q] = to]
    BY <1>2 DEF ReadyRead
  <2> QED
    BY <2>1, <2>2, <2>3, StreamTypes, TypesLeft DEF StreamInv
<1>3. ASSUME UNCHANGED streamVars PROVE UNCHANGED <<heard, streamed>>
  BY <1>3 DEF streamVars
<1>4. ASSUME NEW q \in Request, RequestsNext,
             \A to \in 1..2 * Events : ~ReadyRead(q, to),
             \/ \E x \in Question : Ask(q, x)
             \/ Advance(q) \/ ReplyFinished(q) \/ PostAbort(q) \/ DeliverAbort(q)
      PROVE  UNCHANGED streamVars
  <2>1. CASE Advance(q)
    BY <2>1 DEF Advance, Probed, TakeLock, LockTimeout, TokenFetched, ReadToken, Timeout, Returned,
       RecognizeReturned
  <2>2. CASE ~Advance(q)
    BY <1>4, <2>2 DEF Ask, ReplyFinished, PostAbort, DeliverAbort
  <2> QED
    BY <2>1, <2>2
<1>5. CASE UNCHANGED requestVars
  BY <1>1, <1>5 DEF requestVars
<1> QED
  BY <1>1, <1>2, <1>3, <1>4, <1>5 DEF RequestsNext

\* The session gets the events of an answer in order, each once, and of what
\* arrived misses only what the network cut in two or Ernie's parser waits for;
\* the final answer has all that was streamed, and once the session or its
\* abort has stopped a request nothing of it arrives any more. This holds for
\* any number of requests, and of events cut anywhere.
THEOREM StreamIsAlwaysKept ==
    ASSUME RequestsAssumption
    PROVE  RequestsSpec => StreamIsKept
<1>1. StreamInv => StreamIsHeard
  <2> SUFFICES ASSUME StreamInv, NEW r \in Request, asked[r].call = "chat"
               PROVE  LET whole == {e \in 1..Events : 2 * e \in cuts[r] \cup {0}}
                      IN  streamed[r] = Ascending(Got(r))
                          /\ (asked[r].provider = "ernie" => whole \subseteq Got(r))
    BY DEF StreamIsHeard, Got
  <2>1. streamed[r] = Ascending(Got(r)) /\ CutsFit(r)
    BY DEF StreamInv, Flows, InOrder
  <2>2. ASSUME asked[r].provider = "ernie", NEW e \in 1..Events, 2 * e \in cuts[r] \cup {0}
        PROVE  e \in Got(r)
    <3>1. e \in Nat /\ e > 0 /\ parsed[r] \in 0..2 * Events
      BY StreamTypes DEF RequestsAssumption
    <3>2. (2 * e) % 2 = 0 /\ 2 * e # 0 /\ 2 * e - 1 > 0
      BY <3>1
    <3>3. 2 * e <= parsed[r]
      BY <2>1, <2>2, <3>2 DEF CutsFit
    <3> QED
      BY <2>2, <3>2, <3>3 DEF Got, Within
  <2> QED
    BY <2>1, <2>2
<1>2. StreamInv => AnswerHasTheStream
  <2> SUFFICES ASSUME StreamInv, NEW r \in Request, at[r] = "done", asked[r].call = "chat"
               PROVE  \/ {streamed[r][i] : i \in DOMAIN streamed[r]} \subseteq outcome[r].text
                      \/ asked[r].provider = "ernie" /\ heard[r] % 2 = 1 /\ outcome[r].text = {}
    BY DEF AnswerHasTheStream
  <2>1. streamed[r] = Ascending(Got(r)) /\ Complete(r)
    BY DEF StreamInv, Flows, InOrder
  <2>2. Got(r) \subseteq Int /\ IsFiniteSet(Got(r))
    BY GotTyped
  <2>3. {streamed[r][i] : i \in DOMAIN streamed[r]} \subseteq Got(r)
    <3>1. /\ DOMAIN streamed[r] = 1..Cardinality(Got(r))
          /\ \A k \in 1..Cardinality(Got(r)) : streamed[r][k] \in Got(r)
      BY <2>1, <2>2, AscendingIs DEF Ascending
    <3> QED
      BY <3>1
  <2> QED
    BY <2>1, <2>3 DEF Complete
<1>3. StreamInv /\ [RequestsNext]_requestVars =>
        [\A r \in Request : stop[r] \/ abort[r] = "heard" =>
            heard'[r] = heard[r] /\ streamed'[r] = streamed[r] /\ loop[r].reply # "open"]_requestVars
  <2> SUFFICES ASSUME StreamInv, [RequestsNext]_requestVars, NEW r \in Request,
                      stop[r] \/ abort[r] = "heard"
               PROVE  heard'[r] = heard[r] /\ streamed'[r] = streamed[r] /\ loop[r].reply # "open"
    OBVIOUS
  <2>1. loop[r].reply # "open"
    BY DEF StreamInv, Flows, Silenced
  <2> QED
    BY <2>1, OnlyReadsArrive
<1> QED
  BY <1>1, <1>2, <1>3, StreamInvariant, PTL DEF StreamIsKept, StoppedStaysSilent, RequestsSpec

-----------------------------------------------------------------------------
(***************************************************************************)
(* The server of a local model, for any number of callers and servers.     *)
(*                                                                         *)
(* True means a server was serving because a call remembers one from its   *)
(* start on. That a wrapper starts one server at a time rests on the write *)
(* lock: while it is free, a server that still loads has been given up.    *)
(* The button is told apart by whether it is enabled, and by whether a     *)
(* launch waits, which an uninstall may then tear.                         *)
(***************************************************************************)

HubTyped ==
    /\ servers \in [Server -> {"unused", "loading", "serving", "gone"}]
    /\ host \in [Wrapper -> Server \cup {NoServer}] /\ pid \in [Wrapper -> Server \cup {NoServer}]
    /\ started \in [Wrapper -> 0..1]
    /\ lock \in [Wrapper -> AllCallers \cup {"free"}]
    /\ phase \in [AllCallers -> {"idle", "check", "probe", "lock", "wait"}]
    /\ tries \in [AllCallers -> 0..MaxWaits]
    /\ result \in [AllCallers -> BOOLEAN] /\ served \in [AllCallers -> BOOLEAN]
    /\ givenUp \subseteq Server /\ calls \in 0..MaxCalls

LockIsWaiters == \A c \in AllCallers : phase[c] = "wait" <=> lock[WrapperOf(c)] = c

\* The server a wrapper started was started; it is loading only under the
\* write lock, or when its starter has given up on it.
Started(w) ==
    pid[w] # NoServer =>
        /\ servers[pid[w]] # "unused"
        /\ servers[pid[w]] = "loading" => pid[w] \in givenUp \/ lock[w] # "free"

WaitsForOwn(c) == phase[c] = "wait" => pid[WrapperOf(c)] # NoServer

\* A call remembers a server that was serving.
Remembered(c) ==
    /\ phase[c] # "idle" /\ Serving # {} => served[c]
    /\ phase[c] = "idle" /\ result[c] => served[c]

HubInv ==
    /\ HubTyped /\ LockIsWaiters
    /\ \A w \in Wrapper : Started(w)
    /\ \A c \in AllCallers : WaitsForOwn(c) /\ Remembered(c)

ButtonTyped ==
    button \in [isLaunch : BOOLEAN, label : {"Launch", "Launching", "Stop"}, enabled : BOOLEAN,
                worked : BOOLEAN, torn : BOOLEAN]

\* What the button shows, disabled or not, while a launch waits or not.
ButtonShows ==
    /\ phase["gui"] = "idle" /\ button.isLaunch => button.label = "Stop" \/ button.torn
    /\ button.label = "Stop" /\ ~button.isLaunch => button.worked
    /\ ~button.enabled => button.label = "Launch" /\ (phase["gui"] # "idle" => button.torn)

ServerInv == HubInv /\ ButtonTyped /\ ButtonShows

\* The constants, and which wrapper is whose.
LEMMA HubConstants ==
    ASSUME ServerAssumption
    PROVE  /\ NoServer \notin Server /\ "gui" \in AllCallers /\ "free" \notin AllCallers
           /\ MaxWaits \in Nat \ {0} /\ MaxCalls \in Nat
           /\ \A c \in AllCallers : WrapperOf(c) \in Wrapper
           /\ \A c, d \in AllCallers : c = "gui" => (WrapperOf(c) = WrapperOf(d) <=> c = d)
           /\ WrapperOf("gui") = "deployer" /\ "deployer" \in Wrapper
           /\ {"free"} \cap AllCallers = {}
<1>1. NoServer \notin Server /\ MaxWaits \in Nat \ {0} /\ MaxCalls \in Nat
  BY FS_CardinalityType DEF ServerAssumption, NoServer
<1>2. "gui" \in AllCallers /\ "free" \notin AllCallers /\ {"free"} \cap AllCallers = {}
  BY DEF ServerAssumption, AllCallers
<1>3. /\ \A c \in AllCallers : WrapperOf(c) \in Wrapper
      /\ WrapperOf("gui") = "deployer" /\ "deployer" \in Wrapper
      /\ \A c, d \in AllCallers : c = "gui" => (WrapperOf(c) = WrapperOf(d) <=> c = d)
  BY DEF WrapperOf, Wrapper
<1> QED
  BY <1>1, <1>2, <1>3

\* What is said of the hub is kept by each of its steps.
LEMMA EnterKeeps ==
    ASSUME ServerAssumption, HubInv, NEW c \in AllCallers, Enter(c)
    PROVE  HubInv'
<1>1. HubTyped'
  BY HubConstants DEF HubInv, HubTyped, Enter
<1>2. Serving' = Serving
  BY DEF Enter, Serving
<1> USE DEF HubInv
<1>3. LockIsWaiters'
  BY DEF LockIsWaiters, Enter, HubTyped
<1>4. \A w \in Wrapper : Started(w)'
  BY DEF Started, Enter
<1>5. ASSUME NEW d \in AllCallers PROVE (WaitsForOwn(d) /\ Remembered(d))'
  <2>1. CASE d = c
    <3>1. phase'[c] = "check" /\ served'[c] = (Serving # {})
      BY DEF Enter, HubTyped
    <3> QED
      BY <1>2, <2>1, <3>1 DEF WaitsForOwn, Remembered
  <2>2. CASE d # c
    <3>1. phase'[d] = phase[d] /\ served'[d] = served[d] /\ result'[d] = result[d] /\ pid' = pid
      BY <2>2 DEF Enter, HubTyped
    <3> QED
      BY <1>2, <1>5, <3>1 DEF WaitsForOwn, Remembered
  <2> QED
    BY <2>1, <2>2
<1> QED
  BY <1>1, <1>3, <1>4, <1>5

\* A call that goes on without the lock and without touching a server.
LEMMA GoingOnKeeps ==
    ASSUME ServerAssumption, HubInv, NEW c \in AllCallers, phase[c] # "idle",
           NEW p \in {"probe", "lock"}, phase[c] # "wait", phase' = [phase EXCEPT ![c] = p],
           UNCHANGED <<servers, host, pid, started, lock, tries, result, served, givenUp, calls>>
    PROVE  HubInv'
<1> USE DEF HubInv
<1>1. HubTyped'
  BY DEF HubTyped
<1>2. LockIsWaiters'
  BY DEF LockIsWaiters, HubTyped
<1>3. \A w \in Wrapper : Started(w)'
  BY DEF Started
<1>4. \A d \in AllCallers : (WaitsForOwn(d) /\ Remembered(d))'
  <2>1. Serving' = Serving
    BY DEF Serving
  <2>2. \A d \in AllCallers : phase'[d] = phase[d] \/ (d = c /\ phase'[d] = p)
    BY DEF HubTyped
  <2> QED
    BY <2>1, <2>2 DEF WaitsForOwn, Remembered
<1> QED
  BY <1>1, <1>2, <1>3, <1>4

LEMMA CheckKeeps ==
    ASSUME ServerAssumption, HubInv, NEW c \in AllCallers, Check(c)
    PROVE  HubInv'
<1>1. PICK p \in {"probe", "lock"} : phase' = [phase EXCEPT ![c] = p]
  BY DEF Check
<1> QED
  BY <1>1, GoingOnKeeps DEF Check

LEMMA ProbeKeeps ==
    ASSUME ServerAssumption, HubInv, NEW c \in AllCallers, Probe(c)
    PROVE  HubInv'
BY GoingOnKeeps DEF Probe

\* A start takes the lock, and a process that was never used.
LEMMA FindOrStartIs ==
    ASSUME ServerAssumption, NEW c \in AllCallers, FindOrStart(c)
    PROVE  LET w == WrapperOf(c)
           IN  /\ phase[c] = "lock" /\ lock[w] = "free" /\ Serving = {}
               /\ host' = [host EXCEPT ![w] = NoServer]
               /\ started' = [started EXCEPT ![w] = 1]
               /\ \E s \in Server :
                    /\ servers[s] = "unused"
                    /\ servers' = [servers EXCEPT ![s] = "loading"]
                    /\ pid' = [pid EXCEPT ![w] = s]
               /\ lock' = [lock EXCEPT ![w] = c]
               /\ phase' = [phase EXCEPT ![c] = "wait"]
               /\ tries' = [tries EXCEPT ![c] = 0]
               /\ UNCHANGED <<result, served, givenUp, calls, button>>
<1>1. ASSUME Serving # {} PROVE NoServer \notin Listed
  BY <1>1, HubConstants DEF Listed, Serving
<1>2. Serving = {}
  BY <1>1 DEF FindOrStart
<1> QED
  BY <1>2 DEF FindOrStart, Fresh, TakeWriteLock

LEMMA FindOrStartKeeps ==
    ASSUME ServerAssumption, HubInv, NEW c \in AllCallers, FindOrStart(c)
    PROVE  HubInv'
<1> DEFINE w == WrapperOf(c)
<1>1. /\ phase[c] = "lock" /\ lock[w] = "free" /\ Serving = {} /\ w \in Wrapper
      /\ host' = [host EXCEPT ![w] = NoServer] /\ started' = [started EXCEPT ![w] = 1]
      /\ lock' = [lock EXCEPT ![w] = c] /\ phase' = [phase EXCEPT ![c] = "wait"]
      /\ tries' = [tries EXCEPT ![c] = 0]
      /\ UNCHANGED <<result, served, givenUp, calls, button>>
  BY FindOrStartIs, HubConstants
<1>2. PICK s \in Server : /\ servers[s] = "unused"
                          /\ servers' = [servers EXCEPT ![s] = "loading"]
                          /\ pid' = [pid EXCEPT ![w] = s]
  BY FindOrStartIs
<1> HIDE DEF w
<1> USE DEF HubInv
<1>3. HubTyped'
  BY <1>1, <1>2, HubConstants DEF HubTyped
<1>4. LockIsWaiters'
  <2>1. ASSUME NEW d \in AllCallers PROVE phase'[d] = "wait" <=> lock'[WrapperOf(d)] = d
    <3>1. CASE d = c
      BY <1>1, <3>1 DEF HubTyped, w
    <3>2. CASE d # c /\ WrapperOf(d) = w
      BY <1>1, <3>2, HubConstants DEF HubTyped, LockIsWaiters, w
    <3>3. CASE WrapperOf(d) # w
      BY <1>1, <3>3, HubConstants DEF HubTyped, LockIsWaiters, w
    <3> QED
      BY <3>1, <3>2, <3>3
  <2> QED
    BY <2>1 DEF LockIsWaiters
<1>5. ASSUME NEW v \in Wrapper PROVE Started(v)'
  <2>1. CASE v = w
    BY <1>1, <1>2, <2>1, HubConstants DEF Started, HubTyped
  <2>2. CASE v # w
    <3>1. pid'[v] = pid[v] /\ lock'[v] = lock[v]
      BY <1>1, <1>2, <2>2 DEF HubTyped
    <3>2. pid[v] # NoServer => pid[v] \in Server /\ pid[v] # s
      BY <1>2 DEF HubTyped, Started
    <3>3. pid[v] # NoServer => servers'[pid[v]] = servers[pid[v]]
      BY <1>2, <3>2 DEF HubTyped
    <3> QED
      BY <1>1, <3>1, <3>3 DEF Started
  <2> QED
    BY <2>1, <2>2
<1>6. Serving' = {}
  BY <1>1, <1>2 DEF Serving, HubTyped
<1>7. ASSUME NEW d \in AllCallers PROVE (WaitsForOwn(d) /\ Remembered(d))'
  <2>1. pid'[WrapperOf(d)] = pid[WrapperOf(d)] \/ pid'[WrapperOf(d)] = s
    BY <1>2, HubConstants DEF HubTyped
  <2>2. d = c => pid'[WrapperOf(d)] = s
    BY <1>1, <1>2 DEF HubTyped, w
  <2>3. phase'[d] = phase[d] \/ (d = c /\ phase'[d] = "wait")
    BY <1>1 DEF HubTyped
  <2>4. s # NoServer
    BY HubConstants
  <2>5. WaitsForOwn(d)'
    BY <2>1, <2>2, <2>3, <2>4 DEF WaitsForOwn
  <2>6. Remembered(d)'
    BY <1>1, <1>6, <2>3 DEF Remembered
  <2> QED
    BY <2>5, <2>6
<1> QED
  BY <1>3, <1>4, <1>5, <1>7

LEMMA LookKeeps ==
    ASSUME ServerAssumption, HubInv, NEW c \in AllCallers, Look(c)
    PROVE  HubInv'
<1> USE DEF HubInv
<1>1. HubTyped'
  <2>1. tries' \in [AllCallers -> 0..MaxWaits]
    BY HubConstants DEF Look, HubTyped
  <2>2. host' \in [Wrapper -> Server \cup {NoServer}]
    BY HubConstants DEF Look, HubTyped
  <2> QED
    BY <2>1, <2>2 DEF Look, HubTyped
<1>2. Serving' = Serving
  BY DEF Look, Serving
<1> QED
  BY <1>1, <1>2 DEF Look, LockIsWaiters, Started, WaitsForOwn, Remembered

\* A call that returns what it may.
LEMMA ReturnedPhase ==
    ASSUME ServerAssumption, HubInv, NEW c \in AllCallers, NEW value \in BOOLEAN,
           Return(c, value), UNCHANGED served, value => served[c],
           Serving' = Serving
    PROVE  /\ phase' \in [AllCallers -> {"idle", "check", "probe", "lock", "wait"}]
           /\ result' \in [AllCallers -> BOOLEAN]
           /\ phase'[c] = "idle"
           /\ \A d \in AllCallers : d # c => phase'[d] = phase[d]
           /\ \A d \in AllCallers : Remembered(d)'
<1> USE DEF HubInv
<1>1. /\ phase' \in [AllCallers -> {"idle", "check", "probe", "lock", "wait"}]
      /\ result' \in [AllCallers -> BOOLEAN]
      /\ phase'[c] = "idle" /\ result'[c] = value
      /\ \A d \in AllCallers : d # c => phase'[d] = phase[d] /\ result'[d] = result[d]
  BY DEF Return, HubTyped
<1>2. \A d \in AllCallers : Remembered(d)'
  BY <1>1 DEF Remembered
<1> QED
  BY <1>1, <1>2

LEMMA RunningKeeps ==
    ASSUME ServerAssumption, HubInv, NEW c \in AllCallers, Running(c)
    PROVE  HubInv'
<1> DEFINE w == WrapperOf(c)
<1>1. /\ UNCHANGED <<servers, pid, started, tries, served, calls>>
      /\ Return(c, TRUE) /\ Serving' = Serving /\ w \in Wrapper
  BY HubConstants DEF Running, Serving
<1>2. phase[c] # "idle" /\ Serving # {}
  BY DEF Running, Succeeds, Healthy
<1>3. served[c]
  BY <1>2 DEF HubInv, Remembered
<1>4. /\ phase' \in [AllCallers -> {"idle", "check", "probe", "lock", "wait"}]
      /\ result' \in [AllCallers -> BOOLEAN]
      /\ phase'[c] = "idle"
      /\ \A d \in AllCallers : d # c => phase'[d] = phase[d]
      /\ \A d \in AllCallers : Remembered(d)'
  BY <1>1, <1>3, ReturnedPhase
<1> USE DEF HubInv
<1>5. \A d \in AllCallers : WaitsForOwn(d)'
  <2>1. ASSUME NEW d \in AllCallers PROVE WaitsForOwn(d)'
    <3>1. phase'[d] = "wait" => d # c /\ phase'[d] = phase[d]
      BY <1>4
    <3> QED
      BY <1>1, <3>1 DEF WaitsForOwn
  <2> QED
    BY <2>1
<1>6. CASE phase[c] # "wait"
  <2>1. UNCHANGED <<lock, givenUp>> /\ host' \in [Wrapper -> Server \cup {NoServer}]
    BY <1>6 DEF Running, Succeeds, HubTyped, Serving
  <2>2. HubTyped'
    BY <1>1, <1>4, <2>1 DEF HubTyped
  <2>3. LockIsWaiters'
    BY <1>4, <1>6, <2>1 DEF LockIsWaiters
  <2>4. \A v \in Wrapper : Started(v)'
    BY <1>1, <2>1 DEF Started
  <2> QED
    BY <1>4, <1>5, <2>2, <2>3, <2>4
<1>7. CASE phase[c] = "wait"
  <2>1. PICK found \in Serving : /\ host' = [host EXCEPT ![w] = found]
                                 /\ givenUp' = givenUp \cup ({pid[w]} \ {found})
    BY <1>7 DEF Running, Succeeds
  <2>2. lock' = [lock EXCEPT ![w] = "free"] /\ lock[w] = c
    BY <1>7 DEF Running, Succeeds, GiveLock, LockIsWaiters
  <2>3. pid[w] \in Server /\ found \in Server /\ servers[found] = "serving"
    BY <1>1, <1>7 DEF HubTyped, WaitsForOwn, Serving
  <2> HIDE DEF w
  <2>4. HubTyped'
    BY <1>1, <1>4, <2>1, <2>2, <2>3 DEF HubTyped
  <2>5. LockIsWaiters'
    <3>1. ASSUME NEW d \in AllCallers PROVE phase'[d] = "wait" <=> lock'[WrapperOf(d)] = d
      <4>1. CASE WrapperOf(d) = w
        <5>1. lock'[WrapperOf(d)] = "free"
          BY <1>1, <2>2, <4>1 DEF HubTyped
        <5>2. phase[d] = "wait" => d = c
          BY <2>2, <4>1 DEF LockIsWaiters
        <5> QED
          BY <1>4, <5>1, <5>2, HubConstants
      <4>2. CASE WrapperOf(d) # w
        <5>1. lock'[WrapperOf(d)] = lock[WrapperOf(d)] /\ d # c
          BY <2>2, <4>2, HubConstants DEF HubTyped, w
        <5> QED
          BY <1>4, <5>1 DEF LockIsWaiters
      <4> QED
        BY <4>1, <4>2
    <3> QED
      BY <3>1 DEF LockIsWaiters
  <2>6. ASSUME NEW v \in Wrapper PROVE Started(v)'
    <3>1. CASE v = w
      BY <1>1, <2>1, <2>3, <3>1 DEF Started
    <3>2. CASE v # w
      <4>1. lock'[v] = lock[v]
        BY <2>2, <3>2 DEF HubTyped
      <4> QED
        BY <1>1, <2>1, <4>1 DEF Started
    <3> QED
      BY <3>1, <3>2
  <2> QED
    BY <1>4, <1>5, <2>4, <2>5, <2>6
<1> QED
  BY <1>6, <1>7

LEMMA NotRunningKeeps ==
    ASSUME ServerAssumption, HubInv, NEW c \in AllCallers, NotRunning(c)
    PROVE  HubInv'
<1> DEFINE w == WrapperOf(c)
<1>1. /\ UNCHANGED <<servers, tries, served, calls>>
      /\ Return(c, FALSE) /\ Serving' = Serving /\ w \in Wrapper
  BY HubConstants DEF NotRunning, Serving
<1>2. phase[c] # "idle"
  BY DEF NotRunning, Fails
<1>4. /\ phase' \in [AllCallers -> {"idle", "check", "probe", "lock", "wait"}]
      /\ result' \in [AllCallers -> BOOLEAN]
      /\ phase'[c] = "idle"
      /\ \A d \in AllCallers : d # c => phase'[d] = phase[d]
      /\ \A d \in AllCallers : Remembered(d)'
  BY <1>1, ReturnedPhase
<1> USE DEF HubInv
<1>5. CASE phase[c] # "wait"
  <2>1. /\ UNCHANGED <<lock, givenUp>> /\ lock[w] = "free"
        /\ host' = [host EXCEPT ![w] = NoServer]
        /\ UNCHANGED <<started, pid>> \/ (/\ started' = [started EXCEPT ![w] = 1]
                                          /\ pid' = [pid EXCEPT ![w] = NoServer])
    BY <1>5 DEF NotRunning, Fails
  <2> HIDE DEF w
  <2>2. HubTyped'
    BY <1>1, <1>4, <2>1 DEF HubTyped
  <2>3. LockIsWaiters'
    BY <1>4, <1>5, <2>1 DEF LockIsWaiters
  <2>4. \A v \in Wrapper : Started(v)'
    <3>1. \A v \in Wrapper : pid'[v] = pid[v] \/ pid'[v] = NoServer
      BY <1>1, <2>1 DEF HubTyped
    <3> QED
      BY <1>1, <2>1, <3>1 DEF Started
  <2>5. ASSUME NEW d \in AllCallers, phase'[d] = "wait" PROVE pid'[WrapperOf(d)] # NoServer
    <3>1. d # c /\ phase[d] = "wait"
      BY <1>4, <2>5
    <3>2. WrapperOf(d) # w
      BY <2>1, <3>1, HubConstants DEF LockIsWaiters
    <3>3. pid'[WrapperOf(d)] = pid[WrapperOf(d)]
      BY <2>1, <3>2, HubConstants DEF HubTyped
    <3> QED
      BY <3>1, <3>3 DEF WaitsForOwn
  <2> QED
    BY <1>4, <2>2, <2>3, <2>4, <2>5 DEF WaitsForOwn
<1>6. CASE phase[c] = "wait"
  <2>1. /\ lock' = [lock EXCEPT ![w] = "free"] /\ lock[w] = c
        /\ givenUp' = givenUp \cup {pid[w]}
        /\ UNCHANGED <<host, started, pid>>
    BY <1>6 DEF NotRunning, Fails, GiveLock, LockIsWaiters
  <2>2. pid[w] \in Server
    BY <1>1, <1>6 DEF HubTyped, WaitsForOwn
  <2> HIDE DEF w
  <2>3. HubTyped'
    BY <1>1, <1>4, <2>1, <2>2 DEF HubTyped
  <2>4. LockIsWaiters'
    <3>1. ASSUME NEW d \in AllCallers PROVE phase'[d] = "wait" <=> lock'[WrapperOf(d)] = d
      <4>1. CASE WrapperOf(d) = w
        <5>1. lock'[WrapperOf(d)] = "free"
          BY <1>1, <2>1, <4>1 DEF HubTyped
        <5>2. phase[d] = "wait" => d = c
          BY <2>1, <4>1 DEF LockIsWaiters
        <5> QED
          BY <1>4, <5>1, <5>2, HubConstants
      <4>2. CASE WrapperOf(d) # w
        <5>1. lock'[WrapperOf(d)] = lock[WrapperOf(d)] /\ d # c
          BY <2>1, <4>2, HubConstants DEF HubTyped, w
        <5> QED
          BY <1>4, <5>1 DEF LockIsWaiters
      <4> QED
        BY <4>1, <4>2
    <3> QED
      BY <3>1 DEF LockIsWaiters
  <2>5. ASSUME NEW v \in Wrapper PROVE Started(v)'
    <3>1. v # w => lock'[v] = lock[v]
      BY <2>1 DEF HubTyped
    <3> QED
      BY <1>1, <2>1, <3>1 DEF Started
  <2>6. \A d \in AllCallers : WaitsForOwn(d)'
    BY <1>4, <2>1 DEF WaitsForOwn
  <2> QED
    BY <1>4, <2>3, <2>4, <2>5, <2>6
<1> QED
  BY <1>5, <1>6

\* Servers that end, by themselves or by a command.
LEMMA EndingKeeps ==
    ASSUME ServerAssumption, HubInv,
           servers' \in [Server -> {"unused", "loading", "serving", "gone"}],
           \A s \in Server : servers'[s] = servers[s] \/ servers'[s] = "gone",
           UNCHANGED <<host, pid, started, lock, phase, tries, result, served, givenUp, calls>>
    PROVE  HubInv'
<1> USE DEF HubInv
<1>1. HubTyped'
  BY DEF HubTyped
<1>2. Serving # {} \/ Serving' = {}
  BY DEF Serving
<1>3. \A w \in Wrapper : Started(w)'
  <2>1. ASSUME NEW w \in Wrapper, pid[w] # NoServer PROVE pid[w] \in Server
    BY <2>1 DEF HubTyped
  <2> QED
    BY <2>1 DEF Started
<1> QED
  BY <1>1, <1>2, <1>3 DEF LockIsWaiters, WaitsForOwn, Remembered

LEMMA StoppedEnds ==
    ASSUME HubInv, NEW worked \in BOOLEAN, Stopped(worked)
    PROVE  /\ servers' \in [Server -> {"unused", "loading", "serving", "gone"}]
           /\ \A s \in Server : servers'[s] = servers[s] \/ servers'[s] = "gone"
BY DEF HubInv, HubTyped, Stopped

LEMMA EndKeeps ==
    ASSUME ServerAssumption, HubInv, NEW s \in Server, End(s)
    PROVE  HubInv'
<1>1. servers' \in [Server -> {"unused", "loading", "serving", "gone"}]
  BY DEF End, HubInv, HubTyped
<1>2. \A z \in Server : servers'[z] = servers[z] \/ servers'[z] = "gone"
  BY DEF End, HubInv, HubTyped
<1> QED
  BY <1>1, <1>2, EndingKeeps DEF End

LEMMA ServeKeeps ==
    ASSUME ServerAssumption, HubInv, NEW s \in Server, Serve(s)
    PROVE  HubInv'
<1> USE DEF HubInv
<1>1. HubTyped'
  BY DEF HubTyped, Serve
<1>2. \A w \in Wrapper : Started(w)'
  <2>1. \A z \in Server : servers'[z] = servers[z] \/ (z = s /\ servers'[z] = "serving")
    BY DEF Serve, HubTyped
  <2>2. ASSUME NEW w \in Wrapper, pid[w] # NoServer PROVE pid[w] \in Server
    BY <2>2 DEF HubTyped
  <2> QED
    BY <2>1, <2>2 DEF Started, Serve
<1>3. \A c \in AllCallers : (WaitsForOwn(c) /\ Remembered(c))'
  BY DEF Serve, WaitsForOwn, Remembered, HubTyped
<1> QED
  BY <1>1, <1>2, <1>3 DEF LockIsWaiters, Serve

\* A destructor ends no server but the one its wrapper started.
LEMMA DestroyEndsOwn ==
    ASSUME HubInv, Destroy
    PROVE  /\ servers' \in [Server -> {"unused", "loading", "serving", "gone"}]
           /\ \A s \in Server : \/ servers'[s] = servers[s]
                                \/ servers'[s] = "gone" /\ s = pid["deployer"]
<1>1. PICK found \in Listed : servers' = IF EndsOwn("deployer", found)
                                         THEN [servers EXCEPT ![found] = "gone"] ELSE servers
  BY DEF Destroy
<1> QED
  BY <1>1 DEF EndsOwn, HubInv, HubTyped

LEMMA DestroyKeeps ==
    ASSUME ServerAssumption, HubInv, Destroy
    PROVE  HubInv'
<1> USE DEF HubInv
<1>1. /\ servers' \in [Server -> {"unused", "loading", "serving", "gone"}]
      /\ \A s \in Server : servers'[s] = servers[s] \/ servers'[s] = "gone"
  BY DestroyEndsOwn
<1>2. /\ host' = [host EXCEPT !["deployer"] = NoServer] /\ pid' = [pid EXCEPT !["deployer"] = NoServer]
      /\ started' = [started EXCEPT !["deployer"] = 0] /\ phase["gui"] = "idle"
      /\ UNCHANGED <<lock, phase, tries, result, served, givenUp, calls>>
  BY DEF Destroy
<1>3. HubTyped'
  <2>1. host' \in [Wrapper -> Server \cup {NoServer}] /\ pid' \in [Wrapper -> Server \cup {NoServer}]
    BY <1>2 DEF HubTyped
  <2>2. started' \in [Wrapper -> 0..1]
    <3>1. started \in [Wrapper -> 0..1] /\ 0 \in 0..1
      BY DEF HubTyped
    <3> QED
      BY <1>2, <3>1
  <2> QED
    BY <1>1, <1>2, <2>1, <2>2 DEF HubTyped
<1>4. Serving # {} \/ Serving' = {}
  BY <1>1 DEF Serving
<1>5. \A w \in Wrapper : pid'[w] = pid[w] \/ (w = "deployer" /\ pid'[w] = NoServer)
  BY <1>2 DEF HubTyped
<1>6. \A w \in Wrapper : Started(w)'
  <2>1. ASSUME NEW w \in Wrapper, pid[w] # NoServer PROVE pid[w] \in Server
    BY <2>1 DEF HubTyped
  <2> QED
    BY <1>1, <1>2, <1>5, <2>1 DEF Started
<1>7. \A c \in AllCallers : phase[c] = "wait" => WrapperOf(c) # "deployer"
  BY <1>2, HubConstants
<1>8. \A c \in AllCallers : (WaitsForOwn(c) /\ Remembered(c))'
  BY <1>2, <1>4, <1>5, <1>7, HubConstants DEF WaitsForOwn, Remembered
<1> QED
  BY <1>2, <1>3, <1>6, <1>8 DEF LockIsWaiters

LEMMA HubInit ==
    ASSUME ServerAssumption, ServerInit
    PROVE  HubInv
<1>1. HubTyped
  BY HubConstants DEF HubTyped, ServerInit
<1>2. \A c \in AllCallers : phase[c] = "idle" /\ result[c] = FALSE
  BY DEF ServerInit
<1>3. LockIsWaiters
  <2>1. ASSUME NEW c \in AllCallers PROVE lock[WrapperOf(c)] = "free"
    BY HubConstants DEF ServerInit
  <2> QED
    BY <1>2, <2>1, HubConstants DEF LockIsWaiters
<1>4. \A w \in Wrapper : Started(w)
  BY DEF Started, ServerInit
<1> QED
  BY <1>1, <1>2, <1>3, <1>4 DEF HubInv, WaitsForOwn, Remembered

LEMMA HubStep ==
    ASSUME ServerAssumption, HubInv, [ServerNext]_serverVars
    PROVE  HubInv'
<1>1. ASSUME NEW c \in AllCallers, Call(c) PROVE HubInv'
  BY <1>1, EnterKeeps DEF Call
<1>2. ASSUME NEW c \in AllCallers, Check(c) \/ Probe(c) \/ FindOrStart(c) \/ Look(c) PROVE HubInv'
  BY <1>2, CheckKeeps, ProbeKeeps, FindOrStartKeeps, LookKeeps
<1>3. ASSUME NEW c \in AllCallers, Answered(c) PROVE HubInv'
  BY <1>3, RunningKeeps, NotRunningKeeps DEF Answered
<1>4. CASE Launch
  BY <1>4, EnterKeeps, HubConstants DEF Launch
<1>5. CASE Launched
  BY <1>5, RunningKeeps, NotRunningKeeps, HubConstants DEF Launched
<1>6. CASE Stop
  BY <1>6, StoppedEnds, EndingKeeps DEF Stop
<1>7. CASE Uninstall
  <2>1. CASE button.isLaunch
    BY <1>7, <2>1, StoppedEnds, EndingKeeps DEF Uninstall
  <2>2. CASE ~button.isLaunch
    BY <1>7, <2>2, EndingKeeps DEF Uninstall, HubInv, HubTyped
  <2> QED
    BY <2>1, <2>2
<1>8. CASE Install \/ UNCHANGED serverVars
  BY <1>8, EndingKeeps DEF Install, serverVars, HubInv, HubTyped
<1>9. CASE Destroy
  BY <1>9, DestroyKeeps
<1>10. ASSUME NEW s \in Server, Serve(s) \/ End(s) PROVE HubInv'
  BY <1>10, ServeKeeps, EndKeeps
<1> QED
  BY <1>1, <1>2, <1>3, <1>4, <1>5, <1>6, <1>7, <1>8, <1>9, <1>10 DEF ServerNext

\* The button is looked at by its fields.
Button(b) ==
    /\ b.isLaunch \in BOOLEAN /\ b.label \in {"Launch", "Launching", "Stop"}
    /\ b.enabled \in BOOLEAN /\ b.worked \in BOOLEAN /\ b.torn \in BOOLEAN

ButtonSet ==
    [isLaunch : BOOLEAN, label : {"Launch", "Launching", "Stop"}, enabled : BOOLEAN,
     worked : BOOLEAN, torn : BOOLEAN]

\* A button beside a caller that is idle or not.
Shows(b, idle) ==
    /\ b \in ButtonSet
    /\ idle /\ b.isLaunch => b.label = "Stop" \/ b.torn
    /\ b.label = "Stop" /\ ~b.isLaunch => b.worked
    /\ ~b.enabled => b.label = "Launch" /\ (~idle => b.torn)

LEMMA ShowsIs == ButtonTyped /\ ButtonShows <=> Shows(button, phase["gui"] = "idle")
BY DEF ButtonTyped, ButtonShows, Shows, ButtonSet

LEMMA LaunchShows ==
    ASSUME NEW b, Shows(b, TRUE), b.enabled
    PROVE  Shows([b EXCEPT !.isLaunch = TRUE, !.label = "Launching"], FALSE)
BY DEF Shows, ButtonSet

LEMMA LaunchedShows ==
    ASSUME NEW b, Shows(b, FALSE), NEW launched \in BOOLEAN
    PROVE  Shows(Shown(b, launched), TRUE)
BY DEF Shows, ButtonSet, Shown

LEMMA StopShows ==
    ASSUME NEW b, NEW idle \in BOOLEAN, Shows(b, idle), b.enabled, NEW worked \in BOOLEAN
    PROVE  /\ Shows(StopCommand(b, worked), idle)
           /\ ~StopCommand(b, worked).isLaunch
<1>1. CASE worked
  BY <1>1 DEF Shows, ButtonSet, StopCommand
<1>2. CASE ~worked
  <2> DEFINE x == [b EXCEPT !.isLaunch = FALSE]
  <2>1. x \in ButtonSet /\ x.enabled /\ ~x.isLaunch
    BY DEF Shows, ButtonSet
  <2> HIDE DEF x
  <2>2. [Shown(x, FALSE) EXCEPT !.worked = FALSE] \in ButtonSet
    BY <2>1 DEF Shown, ButtonSet
  <2>3. LET y == [Shown(x, FALSE) EXCEPT !.worked = FALSE]
        IN  ~y.isLaunch /\ y.label = "Launch" /\ y.enabled
    BY <2>1 DEF Shown, ButtonSet
  <2>4. StopCommand(b, worked) = [Shown(x, FALSE) EXCEPT !.worked = FALSE]
    BY <1>2 DEF StopCommand, x
  <2> QED
    BY <2>2, <2>3, <2>4 DEF Shows
<1> QED
  BY <1>1, <1>2

\* An uninstall disables a button that is not launched, or that it tears.
LEMMA UninstallShows ==
    ASSUME NEW b, NEW idle \in BOOLEAN, Shows(b, idle), ~b.isLaunch
    PROVE  Shows([b EXCEPT !.enabled = FALSE, !.label = "Launch", !.torn = @ \/ ~idle], idle)
BY DEF Shows, ButtonSet

LEMMA ButtonStep ==
    ASSUME ServerAssumption, HubInv, ButtonTyped, ButtonShows, [ServerNext]_serverVars
    PROVE  (ButtonTyped /\ ButtonShows)'
<1> DEFINE idle == phase["gui"] = "idle"
<1>1. Shows(button, idle)
  BY ShowsIs
<1>2. (ButtonTyped /\ ButtonShows)' <=> Shows(button', phase'["gui"] = "idle")
  BY DEF ButtonTyped, ButtonShows, Shows, ButtonSet
<1>3. \A c \in AllCallers : c \in Caller => c # "gui"
  BY DEF ServerAssumption
<1>4. phase \in [AllCallers -> {"idle", "check", "probe", "lock", "wait"}] /\ "gui" \in AllCallers
  BY HubConstants DEF HubInv, HubTyped
\* Most steps leave the button alone, and the launch where it was or under way.
<1>5. ASSUME button' = button, phase'["gui"] = "idle" <=> idle
      PROVE  Shows(button', phase'["gui"] = "idle")
  BY <1>1, <1>5
<1>6. ASSUME NEW c \in AllCallers, Call(c) \/ Answered(c)
      PROVE  Shows(button', phase'["gui"] = "idle")
  <2>1. c \in Caller /\ button' = button
    BY <1>6 DEF Call, Answered
  <2>2. phase'["gui"] = phase["gui"]
    BY <1>3, <1>4, <1>6, <2>1 DEF Call, Enter, Answered, Running, NotRunning, Return
  <2> QED
    BY <1>5, <2>1, <2>2
<1>7. ASSUME NEW c \in AllCallers, Check(c) \/ Probe(c) \/ FindOrStart(c) \/ Look(c)
      PROVE  Shows(button', phase'["gui"] = "idle")
  <2>1. button' = button /\ phase[c] # "idle"
    BY <1>7 DEF Check, Probe, FindOrStart, Look
  <2>2. phase'["gui"] = phase["gui"] \/ (c = "gui" /\ phase'["gui"] # "idle")
    BY <1>4, <1>7 DEF Check, Probe, FindOrStart, Look
  <2> QED
    BY <1>5, <2>1, <2>2
<1>8. CASE Launch
  <2>1. phase'["gui"] # "idle" /\ idle /\ button.enabled
        /\ button' = [button EXCEPT !.isLaunch = TRUE, !.label = "Launching"]
    BY <1>4, <1>8 DEF Launch, Enter
  <2> QED
    BY <1>1, <1>2, <2>1, LaunchShows
<1>9. CASE Launched
  <2>1. phase'["gui"] = "idle" /\ ~idle
    BY <1>4, <1>9 DEF Launched, Running, NotRunning, Succeeds, Fails, Return
  <2>2. \E launched \in BOOLEAN : button' = Shown(button, launched)
    BY <1>9 DEF Launched
  <2> QED
    BY <1>1, <1>2, <2>1, <2>2, LaunchedShows
<1>10. CASE Stop
  <2>1. \E worked \in BOOLEAN : button' = StopCommand(button, worked)
    BY <1>10 DEF Stop
  <2>2. button.enabled /\ phase' = phase
    BY <1>10 DEF Stop
  <2> QED
    BY <1>1, <1>2, <2>1, <2>2, StopShows
<1>11. CASE Uninstall
  <2>1. PICK worked \in BOOLEAN :
            LET b == IF button.isLaunch THEN StopCommand(button, worked) ELSE button
            IN  button' = [b EXCEPT !.enabled = FALSE, !.label = "Launch", !.torn = @ \/ ~idle]
    BY <1>11 DEF Uninstall
  <2> DEFINE b == IF button.isLaunch THEN StopCommand(button, worked) ELSE button
  <2>2. button.enabled /\ phase' = phase
    BY <1>11 DEF Uninstall
  <2>3. Shows(b, idle) /\ ~b.isLaunch
    BY <1>1, <2>2, StopShows DEF Shows, ButtonSet
  <2>4. button' = [b EXCEPT !.enabled = FALSE, !.label = "Launch", !.torn = @ \/ ~idle]
    BY <2>1
  <2> HIDE DEF b
  <2> QED
    BY <1>2, <2>2, <2>3, <2>4, UninstallShows
<1>12. CASE Install
  <2>1. button' = [button EXCEPT !.enabled = TRUE] /\ phase' = phase /\ ~button.enabled
    BY <1>12 DEF Install
  <2> QED
    BY <1>1, <1>2, <2>1 DEF Shows, ButtonSet
<1>13. CASE Destroy
  <2>1. button' = [isLaunch |-> FALSE, label |-> "Launch", enabled |-> TRUE,
                   worked |-> FALSE, torn |-> FALSE]
    BY <1>13 DEF Destroy
  <2> QED
    BY <1>2, <2>1 DEF Shows, ButtonSet
<1>14. ASSUME NEW s \in Server, Serve(s) \/ End(s)
       PROVE  Shows(button', phase'["gui"] = "idle")
  BY <1>5, <1>14 DEF Serve, End
<1>15. CASE UNCHANGED serverVars
  <2>1. button' = button /\ phase' = phase
    BY <1>15 DEF serverVars
  <2>2. phase'["gui"] = phase["gui"]
    BY <2>1
  <2> QED
    BY <1>2, <1>5, <2>1, <2>2
<1> HIDE DEF idle
<1> QED
  BY <1>2, <1>6, <1>7, <1>8, <1>9, <1>10, <1>11, <1>12, <1>13, <1>14, <1>15 DEF ServerNext

\* The inductive invariant of the servers, their wrappers, callers and button.
THEOREM ServerInvariant ==
    ASSUME ServerAssumption
    PROVE  ServerSpec => []ServerInv
<1>1. ServerInit => ServerInv
  <2>1. ServerInit => ButtonTyped /\ ButtonShows
    <3> SUFFICES ASSUME ServerInit
                 PROVE  ButtonTyped /\ ButtonShows
      OBVIOUS
    <3>1. PICK l \in BOOLEAN : button = [isLaunch |-> l, label |-> IF l THEN "Stop" ELSE "Launch",
                                         enabled |-> TRUE, worked |-> FALSE, torn |-> FALSE]
      BY DEF ServerInit
    <3> QED
      BY <3>1 DEF ButtonTyped, ButtonShows
  <2> QED
    BY <2>1, HubInit DEF ServerInv
<1>2. ServerInv /\ [ServerNext]_serverVars => ServerInv'
  BY HubStep, ButtonStep DEF ServerInv
<1> QED
  BY <1>1, <1>2, PTL DEF ServerSpec

\* ensureRunning answers true only when a server was serving while it ran
\* (modelhubwrapper.cpp:50), and the deployer's button tells whether the model
\* was launched, but for what a stop or an uninstall leaves behind
\* (localmodelitem.cpp:173).
THEOREM CallersAreToldTrue ==
    ASSUME ServerAssumption
    PROVE  ServerSpec => []CallersAreTold
<1>1. ServerInv => CallersAreTold
  BY DEF ServerInv, HubInv, HubTyped, LockIsWaiters, ButtonTyped, ButtonShows, Remembered,
         CallersAreTold, ServerTypeOK, TrueMeansServed, ButtonTellsState
<1> QED
  BY <1>1, ServerInvariant, PTL

\* Threads that find no server start one and not one each
\* (modelhubwrapper.cpp:56), and a wrapper ends only its own
\* (modelhubwrapper.cpp:34).
THEOREM OwnServers ==
    ASSUME ServerAssumption
    PROVE  ServerSpec => ServersAreOwn
<1>1. ASSUME ServerInv, [ServerNext]_serverVars, NEW w \in Wrapper,
             pid'[w] \in Server, pid'[w] # pid[w], pid[w] # NoServer,
             servers[pid[w]] \in {"loading", "serving"}
      PROVE  pid[w] \in givenUp
  <2>1. \E c \in AllCallers : FindOrStart(c) /\ w = WrapperOf(c)
    <3>0. pid \in [Wrapper -> Server \cup {NoServer}] /\ NoServer \notin Server
      BY <1>1, HubConstants DEF ServerInv, HubInv, HubTyped
    <3>1. ASSUME NEW c \in AllCallers, Call(c) \/ Check(c) \/ Probe(c) \/ Look(c) PROVE FALSE
      BY <1>1, <3>1 DEF Call, Enter, Check, Probe, Look
    <3>2. ASSUME NEW c \in AllCallers, Running(c) \/ NotRunning(c) PROVE FALSE
      BY <1>1, <3>0, <3>2 DEF Running, NotRunning, Fails
    <3>3. ASSUME NEW c \in AllCallers, FindOrStart(c) PROVE w = WrapperOf(c)
      BY <1>1, <3>0, <3>3, FindOrStartIs
    <3>4. ~Launch /\ ~Stop /\ ~Uninstall /\ ~Install /\ ~UNCHANGED serverVars
      BY <1>1 DEF Launch, Enter, Stop, Uninstall, Install, serverVars
    <3>5. ~Destroy
      BY <1>1, <3>0 DEF Destroy
    <3>6. \A s \in Server : ~Serve(s) /\ ~End(s)
      BY <1>1 DEF Serve, End
    <3>7. ~Launched /\ \A c \in AllCallers : ~Answered(c)
      BY <3>2, HubConstants DEF Launched, Answered
    <3> QED
      BY <1>1, <3>1, <3>3, <3>4, <3>5, <3>6, <3>7 DEF ServerNext
  <2>2. lock[w] = "free" /\ Serving = {}
    BY <2>1, FindOrStartIs
  <2>3. pid[w] \in Server
    BY <1>1 DEF ServerInv, HubInv, HubTyped
  <2>4. servers[pid[w]] = "loading"
    BY <1>1, <2>2, <2>3 DEF Serving
  <2> QED
    BY <1>1, <2>2, <2>4 DEF ServerInv, HubInv, Started
<1>2. ServerInv /\ [ServerNext]_serverVars =>
        [\A w \in Wrapper :
            pid'[w] \in Server /\ pid'[w] # pid[w] /\ pid[w] # NoServer
            /\ servers[pid[w]] \in {"loading", "serving"} => pid[w] \in givenUp]_serverVars
  BY <1>1
<1>3. ServerInv /\ [ServerNext]_serverVars =>
        [Destroy => \A s \in Server : servers'[s] # servers[s] => s = pid["deployer"]]_serverVars
  BY DestroyEndsOwn DEF ServerInv
<1> QED
  BY <1>2, <1>3, ServerInvariant, PTL DEF ServerSpec, ServersAreOwn, OneStartAtATime, OthersAreSpared

(***************************************************************************)
(* The configuration: what the tool saves is what the user edited and what *)
(* it reads again, and a request is given the interface that the file and  *)
(* the information service name, for any providers, types, keys and saves. *)
(*                                                                         *)
(* The invariant says what the file, the tool and a request are together:  *)
(* what is being written is what the tool renders of its models, an edit   *)
(* is of a model that still is where it was, a key is of a provider that   *)
(* had one at first, and a request that has chosen its provider remembers  *)
(* what the file said of it. The rest is about the conversions: which      *)
(* models parsing makes of a file, which file rendering makes of models.   *)
(***************************************************************************)
-----------------------------------------------------------------------------
(* What filtering, flattening and removal leave of a sequence.             *)

\* The community modules' words for the same.
LEMMA SameWords ==
    ASSUME NEW T, NEW s \in Seq(T)
    PROVE  Range(s) = Elems(s) /\ (IsInjective(s) <=> Distinct(s))
BY DEF Range, Elems, IsInjective, Distinct

LEMMA EmptyIsThere == ASSUME NEW T PROVE <<>> \in Seq(T)
OBVIOUS

\* The first n elements of s that are in S.
Keeps(f, T, s, S) ==
    /\ f \in [0..Len(s) -> Seq(T)] /\ f[0] = <<>>
    /\ \A n \in 1..Len(s) : f[n] = IF s[n] \in S THEN Append(f[n - 1], s[n]) ELSE f[n - 1]

LEMMA KeptExist ==
    ASSUME NEW T, NEW s \in Seq(T), NEW S
    PROVE  \E f : Keeps(f, T, s, S) /\ Filtered(s, S) = f[Len(s)]
<1> DEFINE N == Len(s)
           Body(f) == [n \in 0..N |-> IF n = 0 THEN <<>>
                        ELSE IF s[n] \in S THEN Append(f[n - 1], s[n]) ELSE f[n - 1]]
           kept == CHOOSE f : f = Body(f)
<1>1. N \in Nat /\ \A n \in 1..N : s[n] \in T
  OBVIOUS
<1>2. \E f : f = Body(f) /\ f \in [0..N -> Seq(T)]
  <2> DEFINE step == [x \in (1..N) \X Seq(T) |->
                        IF s[x[1]] \in S THEN Append(x[2], s[x[1]]) ELSE x[2]]
  <2>1. step \in [(1..N) \X Seq(T) -> Seq(T)]
    BY <1>1
  <2>2. PICK f \in [0..N -> Seq(T)] :
            f[0] = <<>> /\ \A k \in 1..N : f[k] = step[<<k, f[k - 1]>>]
    <3>1. Steps(Seq(T), N, step) /\ <<>> \in Seq(T)
      BY <2>1, EmptyIsThere DEF Steps
    <3> HIDE DEF step, N
    <3>2. \E f : Follows(f, Seq(T), <<>>, N, step)
      BY <1>1, <3>1, RecursionExists
    <3> QED
      BY <3>2 DEF Follows
  <2>3. \A k \in 1..N : f[k] = IF s[k] \in S THEN Append(f[k - 1], s[k]) ELSE f[k - 1]
    <3> TAKE k \in 1..N
    <3>1. <<k, f[k - 1]>> \in (1..N) \X Seq(T)
      <4>1. k - 1 \in 0..N
        BY <1>1
      <4> HIDE DEF N
      <4> QED
        BY <2>2, <4>1
    <3> QED
      BY <2>2, <3>1
  <2>4. f = Body(f)
    <3> HIDE DEF N
    <3>1. \A n \in 0..N : f[n] = IF n = 0 THEN <<>>
                        ELSE IF s[n] \in S THEN Append(f[n - 1], s[n]) ELSE f[n - 1]
      <4> TAKE n \in 0..N
      <4>1. n # 0 => n \in 1..N
        BY <1>1
      <4> QED
        BY <2>2, <2>3, <4>1
    <3> QED
      BY <2>2, <3>1
  <2> QED
    BY <2>4
<1>3. kept = Body(kept)
  <2> HIDE DEF Body
  <2> QED
    BY <1>2
<1>4. Filtered(s, S) = kept[N]
  BY DEF Filtered
<1>5. kept[0] = <<>>
  <2> HIDE DEF kept, N
  <2> QED
    BY <1>1, <1>3
<1>6. ASSUME NEW n \in 1..N
      PROVE  kept[n] = IF s[n] \in S THEN Append(kept[n - 1], s[n]) ELSE kept[n - 1]
  <2> HIDE DEF kept, N
  <2>1. n \in 0..N /\ n # 0
    BY <1>1
  <2> QED
    BY <1>3, <2>1
<1>7. \A n \in 0..N : kept[n] \in Seq(T)
  <2> DEFINE G == {n \in 0..N : kept[n] \in Seq(T)}
  <2> HIDE DEF kept
  <2>1. 0 \in G
    <3> HIDE DEF N
    <3>1. 0 \in 0..N /\ kept[0] \in Seq(T)
      BY <1>1, <1>5, EmptyIsThere
    <3> QED
      BY <3>1
  <2>2. ASSUME NEW n \in 1..N, n - 1 \in G PROVE n \in G
    <3>1. kept[n - 1] \in Seq(T) /\ s[n] \in T /\ n \in 0..N
      BY <1>1, <2>2
    <3>2. Append(kept[n - 1], s[n]) \in Seq(T)
      BY <3>1, AppendElems
    <3>3. kept[n] \in Seq(T)
      <4> HIDE DEF N
      <4> QED
        BY <1>6, <3>1, <3>2
    <3> QED
      BY <3>1, <3>3
  <2>3. 0..N \subseteq G
    <3> HIDE DEF G, N
    <3> QED
      BY <1>1, <2>1, <2>2, StepsByInduction
  <2> QED
    BY <2>3
<1>8. kept \in [0..N -> Seq(T)]
  <2>1. kept = [n \in 0..N |-> kept[n]]
    <3> HIDE DEF kept, N
    <3> QED
      BY <1>3
  <2> HIDE DEF kept, N
  <2> QED
    BY <1>7, <2>1
<1> HIDE DEF kept
<1> QED
  BY <1>4, <1>5, <1>6, <1>8 DEF Keeps

\* Filtering keeps the elements that are in the set, and adds no duplicate.
LEMMA FilteredIs ==
    ASSUME NEW T, NEW s \in Seq(T), NEW S
    PROVE  /\ Filtered(s, S) \in Seq(T)
           /\ Elems(Filtered(s, S)) = Elems(s) \cap S
           /\ Distinct(s) => Distinct(Filtered(s, S))
<1> DEFINE N == Len(s)
           Before(n) == {s[k] : k \in 1..n}
<1>1. N \in Nat /\ \A n \in 1..N : s[n] \in T
  OBVIOUS
<1>2. PICK f : Keeps(f, T, s, S) /\ Filtered(s, S) = f[N]
  BY KeptExist
<1>3. /\ f[0] = <<>> /\ \A n \in 0..N : f[n] \in Seq(T)
      /\ \A n \in 1..N : f[n] = IF s[n] \in S THEN Append(f[n - 1], s[n]) ELSE f[n - 1]
  BY <1>1, <1>2 DEF Keeps
<1> DEFINE G == {n \in 0..N : /\ Elems(f[n]) = Before(n) \cap S
                              /\ Distinct(s) => Distinct(f[n])}
<1>4. 0 \in G
  <2>1. Before(0) = {}
    OBVIOUS
  <2> QED
    BY <1>1, <1>3, <2>1, EmptyElems
<1>5. ASSUME NEW n \in 1..N, n - 1 \in G PROVE n \in G
  <2>1. /\ n - 1 \in 0..N /\ f[n - 1] \in Seq(T) /\ s[n] \in T
        /\ Elems(f[n - 1]) = Before(n - 1) \cap S /\ (Distinct(s) => Distinct(f[n - 1]))
    BY <1>1, <1>3, <1>5
  <2>2. Before(n) = Before(n - 1) \cup {s[n]}
    <3>1. 1..n = 1..(n - 1) \cup {n}
      BY <1>1
    <3> QED
      BY <3>1
  <2>3. Distinct(s) => s[n] \notin Before(n - 1)
    <3>1. \A k \in 1..(n - 1) : k \in 1..Len(s) /\ k # n
      BY <1>1
    <3> QED
      BY <1>1, <3>1 DEF Distinct
  <2> HIDE DEF Before
  <2>4. CASE s[n] \in S
    <3>1. f[n] = Append(f[n - 1], s[n])
      BY <1>3, <2>4
    <3>2. /\ Elems(f[n]) = Elems(f[n - 1]) \cup {s[n]}
          /\ Distinct(f[n - 1]) /\ s[n] \notin Elems(f[n - 1]) => Distinct(f[n])
      BY <2>1, <3>1, AppendElems
    <3> QED
      BY <1>1, <2>1, <2>2, <2>3, <2>4, <3>2
  <2>5. CASE s[n] \notin S
    <3>1. f[n] = f[n - 1]
      BY <1>3, <2>5
    <3> QED
      BY <1>1, <2>1, <2>2, <2>5, <3>1
  <2> QED
    BY <2>4, <2>5
<1>6. N \in G
  <2> HIDE DEF G
  <2>1. 0..N \subseteq G
    BY <1>1, <1>4, <1>5, StepsByInduction
  <2> QED
    BY <1>1, <2>1
<1>7. Elems(s) = Before(N)
  BY DEF Elems
<1>8. f[N] \in Seq(T)
  BY <1>1, <1>3
<1>9. Elems(f[N]) = Before(N) \cap S /\ (Distinct(s) => Distinct(f[N]))
  BY <1>6
<1> HIDE DEF N, Before
<1> QED
  BY <1>2, <1>7, <1>8, <1>9

\* Two sequences behind each other.
LEMMA ConcatElems ==
    ASSUME NEW T, NEW a \in Seq(T), NEW b \in Seq(T)
    PROVE  /\ a \o b \in Seq(T)
           /\ Elems(a \o b) = Elems(a) \cup Elems(b)
           /\ Distinct(a) /\ Distinct(b) /\ Elems(a) \cap Elems(b) = {} => Distinct(a \o b)
<1> DEFINE c == a \o b
<1>1. /\ c \in Seq(T) /\ Len(c) = Len(a) + Len(b) /\ Len(a) \in Nat /\ Len(b) \in Nat
      /\ \A i \in 1..Len(a) : c[i] = a[i]
      /\ \A i \in 1..Len(b) : c[Len(a) + i] = b[i]
  BY Concatenated
<1>2. \A i \in 1..Len(c) : (i \in 1..Len(a) /\ c[i] = a[i]) \/
                           (i - Len(a) \in 1..Len(b) /\ c[i] = b[i - Len(a)])
  <2> HIDE DEF c
  <2> TAKE i \in 1..Len(c)
  <2>1. CASE i <= Len(a)
    BY <1>1, <2>1
  <2>2. CASE i > Len(a)
    <3>1. i - Len(a) \in 1..Len(b) /\ Len(a) + (i - Len(a)) = i
      BY <1>1, <2>2
    <3> QED
      BY <1>1, <3>1
  <2> QED
    BY <1>1, <2>1, <2>2
<1>3. \A i \in 1..Len(b) : Len(a) + i \in 1..Len(c)
  BY <1>1
<1>4. \A i \in 1..Len(a) : i \in 1..Len(c)
  BY <1>1
<1> HIDE DEF c
<1>5. Elems(c) = Elems(a) \cup Elems(b)
  <2>1. Elems(c) \subseteq Elems(a) \cup Elems(b)
    BY <1>2 DEF Elems
  <2>2. Elems(a) \subseteq Elems(c)
    BY <1>1, <1>4 DEF Elems
  <2>3. Elems(b) \subseteq Elems(c)
    BY <1>1, <1>3 DEF Elems
  <2> QED
    BY <2>1, <2>2, <2>3
<1>6. ASSUME Distinct(a), Distinct(b), Elems(a) \cap Elems(b) = {},
             NEW i \in 1..Len(c), NEW j \in 1..Len(c), c[i] = c[j]
      PROVE  i = j
  <2>1. \A x \in 1..Len(a), y \in 1..Len(b) : a[x] # b[y]
    BY <1>6 DEF Elems
  <2>2. i \in Int /\ j \in Int
    BY <1>1
  <2>3. CASE i \in 1..Len(a) /\ j \in 1..Len(a)
    BY <1>1, <1>6, <2>3 DEF Distinct
  <2>4. CASE i \notin 1..Len(a) /\ j \notin 1..Len(a)
    <3>1. i - Len(a) \in 1..Len(b) /\ j - Len(a) \in 1..Len(b) /\ b[i - Len(a)] = b[j - Len(a)]
      BY <1>2, <1>6, <2>4
    <3>2. i - Len(a) = j - Len(a)
      BY <1>6, <3>1 DEF Distinct
    <3> QED
      BY <1>1, <2>2, <3>2
  <2> QED
    BY <1>2, <1>6, <2>1, <2>3, <2>4
<1> QED
  BY <1>1, <1>5, <1>6 DEF c, Distinct

\* Sequences without duplicates that share no element.
Apart(ss) ==
    /\ \A i \in 1..Len(ss) : Distinct(ss[i])
    /\ \A i, j \in 1..Len(ss) : i # j => Elems(ss[i]) \cap Elems(ss[j]) = {}

\* The first n sequences of ss behind each other, from 1 on.
Flattens(f, T, ss) ==
    /\ f \in [1..Len(ss) -> Seq(T)]
    /\ \A n \in 1..Len(ss) : f[n] = IF n = 1 THEN ss[n] ELSE f[n - 1] \o ss[n]

LEMMA FlattenedExist ==
    ASSUME NEW T, NEW ss \in Seq(Seq(T)), ss # <<>>
    PROVE  \E f : Flattens(f, T, ss) /\ FlattenSeq(ss) = f[Len(ss)]
<1> DEFINE N == Len(ss)
           Body(f) == [i \in 1..N |-> IF i = 1 THEN ss[i] ELSE f[i - 1] \o ss[i]]
           flat == CHOOSE f : f = Body(f)
<1>1. N \in Nat /\ N # 0 /\ \A n \in 1..N : ss[n] \in Seq(T)
  OBVIOUS
<1>2. \E f : f = Body(f)
  <2> DEFINE step == [x \in (1..N) \X Seq(T) |-> x[2] \o ss[x[1]]]
  <2>1. step \in [(1..N) \X Seq(T) -> Seq(T)]
    BY <1>1
  <2>2. PICK f \in [0..N -> Seq(T)] :
            f[0] = <<>> /\ \A k \in 1..N : f[k] = step[<<k, f[k - 1]>>]
    <3>1. Steps(Seq(T), N, step) /\ <<>> \in Seq(T)
      BY <2>1, EmptyIsThere DEF Steps
    <3> HIDE DEF step, N
    <3>2. \E f : Follows(f, Seq(T), <<>>, N, step)
      BY <1>1, <3>1, RecursionExists
    <3> QED
      BY <3>2 DEF Follows
  <2>3. \A k \in 1..N : f[k] = f[k - 1] \o ss[k]
    <3> TAKE k \in 1..N
    <3>1. <<k, f[k - 1]>> \in (1..N) \X Seq(T)
      <4>1. k - 1 \in 0..N
        BY <1>1
      <4> HIDE DEF N
      <4> QED
        BY <2>2, <4>1
    <3> QED
      BY <2>2, <3>1
  <2> DEFINE g == [i \in 1..N |-> f[i]]
  <2>4. g = Body(g)
    <3> HIDE DEF N
    <3>1. \A n \in 1..N : f[n] = IF n = 1 THEN ss[n] ELSE g[n - 1] \o ss[n]
      <4> TAKE n \in 1..N
      <4>1. n # 1 => n - 1 \in 1..N
        BY <1>1
      <4>2. <<>> \o ss[n] = ss[n]
        BY <1>1, NothingBehind
      <4>3. n = 1 => n - 1 = 0
        OBVIOUS
      <4>4. n # 1 => g[n - 1] = f[n - 1]
        BY <4>1
      <4> HIDE DEF g
      <4> QED
        BY <2>2, <2>3, <4>2, <4>3, <4>4
    <3> HIDE DEF g
    <3>2. Body(g) = [n \in 1..N |-> f[n]]
      BY <3>1
    <3> QED
      BY <3>2 DEF g
  <2> QED
    BY <2>4
<1>3. flat = Body(flat)
  <2> HIDE DEF Body
  <2> QED
    BY <1>2
<1>4. FlattenSeq(ss) = flat[N]
  BY <1>1 DEF FlattenSeq
<1>6. ASSUME NEW n \in 1..N
      PROVE  flat[n] = IF n = 1 THEN ss[n] ELSE flat[n - 1] \o ss[n]
  <2> HIDE DEF flat, N
  <2> QED
    BY <1>3
<1> HIDE DEF flat
<1>7. \A n \in 0..N : n # 0 => flat[n] \in Seq(T)
  <2> DEFINE G == {n \in 0..N : n # 0 => flat[n] \in Seq(T)}
  <2>1. 0 \in G
    <3> HIDE DEF N
    <3> QED
      BY <1>1
  <2>2. ASSUME NEW n \in 1..N, n - 1 \in G PROVE n \in G
    <3>1. ss[n] \in Seq(T) /\ n \in 0..N /\ (n # 1 => flat[n - 1] \in Seq(T))
      BY <1>1, <2>2
    <3>2. n # 1 => flat[n - 1] \o ss[n] \in Seq(T)
      BY <3>1, Concatenated
    <3>3. flat[n] \in Seq(T)
      <4> HIDE DEF N
      <4> QED
        BY <1>6, <3>1, <3>2
    <3> QED
      BY <3>1, <3>3
  <2>3. 0..N \subseteq G
    <3> HIDE DEF G, N
    <3> QED
      BY <1>1, <2>1, <2>2, StepsByInduction
  <2> QED
    BY <2>3
<1>8. flat \in [1..N -> Seq(T)]
  <2>1. flat = [n \in 1..N |-> flat[n]]
    <3> HIDE DEF N
    <3>1. flat = [i \in 1..N |-> IF i = 1 THEN ss[i] ELSE flat[i - 1] \o ss[i]]
      BY <1>3
    <3> QED
      BY <1>6, <3>1
  <2>2. \A n \in 1..N : n \in 0..N /\ n # 0
    BY <1>1
  <2> HIDE DEF N
  <2>3. \A n \in 1..N : flat[n] \in Seq(T)
    BY <1>7, <2>2
  <2> QED
    BY <2>1, <2>3
<1> QED
  BY <1>4, <1>6, <1>8 DEF Flattens

\* Flattening keeps every element, and adds no duplicate of its own.
LEMMA FlattenedIs ==
    ASSUME NEW T, NEW ss \in Seq(Seq(T))
    PROVE  /\ FlattenSeq(ss) \in Seq(T)
           /\ Elems(FlattenSeq(ss)) = UNION {Elems(ss[i]) : i \in 1..Len(ss)}
           /\ Apart(ss) => Distinct(FlattenSeq(ss))
<1> DEFINE N == Len(ss)
           Before(n) == UNION {Elems(ss[k]) : k \in 1..n}
<1>1. N \in Nat /\ \A n \in 1..N : ss[n] \in Seq(T)
  OBVIOUS
<1>2. CASE ss = <<>>
  <2>1. Len(ss) = 0 /\ FlattenSeq(ss) = <<>>
    BY <1>2 DEF FlattenSeq
  <2>2. 1..Len(ss) = {}
    BY <2>1
  <2>3. UNION {Elems(ss[i]) : i \in 1..Len(ss)} = {}
    BY <2>2
  <2> QED
    BY <2>1, <2>3, EmptyElems, EmptyIsThere
<1>3. CASE ss # <<>>
  <2>1. PICK f : Flattens(f, T, ss) /\ FlattenSeq(ss) = f[N]
    BY <1>3, FlattenedExist
  <2>2. /\ \A n \in 1..N : f[n] \in Seq(T)
        /\ \A n \in 1..N : f[n] = IF n = 1 THEN ss[n] ELSE f[n - 1] \o ss[n]
    BY <2>1 DEF Flattens
  <2> DEFINE G == {n \in 0..N : n # 0 => /\ Elems(f[n]) = Before(n)
                                         /\ Apart(ss) => Distinct(f[n])}
  <2>3. 0 \in G
    <3> HIDE DEF N
    <3> QED
      BY <1>1
  <2>4. ASSUME NEW n \in 1..N, n - 1 \in G PROVE n \in G
    <3>1. n \in 0..N /\ ss[n] \in Seq(T) /\ (n # 1 => n - 1 \in 1..N /\ n - 1 # 0 /\ f[n - 1] \in Seq(T))
      BY <1>1, <2>2
    <3>2. Before(n) = Before(n - 1) \cup Elems(ss[n])
      <4>1. 1..n = 1..(n - 1) \cup {n}
        BY <1>1
      <4> QED
        BY <4>1
    <3>3. n = 1 => Before(n - 1) = {}
      <4>1. n = 1 => 1..(n - 1) = {}
        OBVIOUS
      <4> QED
        BY <4>1
    <3>4. Apart(ss) => Distinct(ss[n]) /\ Before(n - 1) \cap Elems(ss[n]) = {}
      <4>1. \A k \in 1..(n - 1) : k \in 1..Len(ss) /\ k # n
        BY <1>1
      <4> QED
        BY <1>1, <4>1 DEF Apart
    <3>5. n # 1 => /\ Elems(f[n - 1]) = Before(n - 1) /\ (Apart(ss) => Distinct(f[n - 1]))
      BY <2>4, <3>1
    <3> HIDE DEF Before
    <3>6. CASE n = 1
      <4>1. f[n] = ss[n]
        BY <2>2, <3>6
      <4> QED
        BY <3>1, <3>2, <3>3, <3>4, <3>6, <4>1
    <3>7. CASE n # 1
      <4>1. f[n] = f[n - 1] \o ss[n]
        BY <2>2, <3>7
      <4>2. /\ Elems(f[n]) = Elems(f[n - 1]) \cup Elems(ss[n])
            /\ Distinct(f[n - 1]) /\ Distinct(ss[n]) /\ Elems(f[n - 1]) \cap Elems(ss[n]) = {}
                    => Distinct(f[n])
        BY <3>1, <3>7, <4>1, ConcatElems
      <4> QED
        BY <3>1, <3>2, <3>4, <3>5, <3>7, <4>2
    <3> QED
      BY <3>6, <3>7
  <2>5. N \in G /\ N # 0
    <3>1. N # 0
      BY <1>3
    <3> HIDE DEF G
    <3>2. 0..N \subseteq G
      BY <1>1, <2>3, <2>4, StepsByInduction
    <3> QED
      BY <1>1, <3>1, <3>2
  <2>6. Elems(f[N]) = Before(N) /\ (Apart(ss) => Distinct(f[N]))
    BY <2>5
  <2>7. f[N] \in Seq(T)
    BY <1>1, <2>2, <2>5
  <2> HIDE DEF G
  <2> QED
    BY <2>1, <2>6, <2>7
<1> QED
  BY <1>2, <1>3

\* What is left when one element is taken out.
LEMMA RemovedIs ==
    ASSUME NEW T, NEW s \in Seq(T), NEW i \in 1..Len(s)
    PROVE  /\ RemoveAt(s, i) \in Seq(T)
           /\ Elems(RemoveAt(s, i)) = {s[j] : j \in (1..Len(s)) \ {i}}
<1> DEFINE a == SubSeq(s, 1, i - 1)
           b == SubSeq(s, i + 1, Len(s))
<1>1. a \in Seq(T) /\ Len(a) = i - 1 /\ \A j \in 1..Len(a) : a[j] = s[j]
  OBVIOUS
<1>2. b \in Seq(T) /\ Len(b) = Len(s) - i /\ \A j \in 1..Len(b) : b[j] = s[i + j]
  OBVIOUS
<1>3. Elems(a) = {s[j] : j \in 1..(i - 1)}
  BY <1>1 DEF Elems
<1>4. Elems(b) = {s[j] : j \in i + 1..Len(s)}
  <2> HIDE DEF b
  <2>1. \A j \in 1..Len(b) : i + j \in i + 1..Len(s)
    BY <1>2
  <2>2. \A j \in i + 1..Len(s) : j - i \in 1..Len(b) /\ i + (j - i) = j
    BY <1>2
  <2>3. \A j \in i + 1..Len(s) : s[j] = b[j - i]
    BY <1>2, <2>2
  <2>4. Elems(b) \subseteq {s[j] : j \in i + 1..Len(s)}
    BY <1>2, <2>1 DEF Elems
  <2>5. ASSUME NEW j \in i + 1..Len(s) PROVE s[j] \in Elems(b)
    <3>1. j - i \in 1..Len(b) /\ s[j] = b[j - i]
      BY <2>2, <2>3
    <3> QED
      BY <3>1 DEF Elems
  <2> QED
    BY <2>4, <2>5
<1>5. (1..Len(s)) \ {i} = 1..(i - 1) \cup i + 1..Len(s)
  OBVIOUS
<1>6. {s[j] : j \in (1..Len(s)) \ {i}} = {s[j] : j \in 1..(i - 1)} \cup {s[j] : j \in i + 1..Len(s)}
  BY <1>5
<1>7. RemoveAt(s, i) = a \o b
  BY DEF RemoveAt
<1> HIDE DEF a, b
<1>8. a \o b \in Seq(T) /\ Elems(a \o b) = Elems(a) \cup Elems(b)
  BY <1>1, <1>2, ConcatElems
<1> QED
  BY <1>3, <1>4, <1>6, <1>7, <1>8

\* A set of positions has a last one.
LEMMA LastPlace ==
    ASSUME NEW N \in Nat, NEW F, F \subseteq 1..N, F # {}
    PROVE  LET last == CHOOSE i \in F : \A j \in F : j <= i
           IN  last \in F /\ \A j \in F : j <= last
<1> DEFINE Left == {N - i : i \in F}
<1>1. Left \subseteq Nat /\ Left # {}
  <2>1. \A i \in F : i \in 1..N /\ N - i \in Nat
    OBVIOUS
  <2> QED
    BY <2>1
<1>2. PICK x \in Left : \A y \in Left : x <= y
  <2> HIDE DEF Left
  <2> QED
    BY <1>1, LeastNumber
<1>3. PICK i \in F : x = N - i
  BY <1>2
<1>4. \A j \in F : j <= i
  <2> TAKE j \in F
  <2>1. N - j \in Left /\ i \in Int /\ j \in Int
    OBVIOUS
  <2>2. N - i <= N - j
    BY <1>2, <1>3, <2>1
  <2> QED
    BY <2>1, <2>2
<1> QED
  BY <1>4
-----------------------------------------------------------------------------
(* The tool's models and the contents of the file, typed.                  *)

Text == KeyText \cup ModelText \cup {"url", InventedName}
Model == {m \in [provider : Provider, params : PartialFunctions(Param, Text), enabled : BOOLEAN] :
            \A k \in DOMAIN m.params : m.params[k] \in TextOf(k)}

ModelsOk(ms) == ms \in [Type -> Seq(Model)]
DefaultsOk(ds) == DOMAIN ds \subseteq Type /\ \A t \in DOMAIN ds : ds[t] \in Provider

LEMMA OwnElements ==
    ASSUME NEW T, NEW s \in Seq(T)
    PROVE  s \in Seq(Elems(s))
<1>1. \A i \in 1..Len(s) : s[i] \in Elems(s)
  BY DEF Elems
<1>2. s = [i \in 1..Len(s) |-> s[i]] /\ Len(s) \in Nat
  OBVIOUS
<1> QED
  BY <1>1, <1>2

LEMMA Orders ==
    /\ ProviderOrder \in Seq(Provider) /\ Elems(ProviderOrder) = Provider /\ Distinct(ProviderOrder)
    /\ TypeOrder \in Seq(Type) /\ Elems(TypeOrder) = Type /\ Distinct(TypeOrder)
    /\ Provider \subseteq {"doubao", "ernie", "modelhub", "openai"}
<1>1. /\ ProviderOrder \in Seq({"doubao", "ernie", "modelhub", "openai"})
      /\ IsInjective(ProviderOrder) /\ IsInjective(TypeOrder)
  BY ConfigurationAssumption
<1>2. /\ Range(ProviderOrder) = Elems(ProviderOrder) /\ Distinct(ProviderOrder)
      /\ ProviderOrder \in Seq(Elems(ProviderOrder))
  BY <1>1, SameWords, OwnElements
<1>3. /\ Range(TypeOrder) = Elems(TypeOrder) /\ Distinct(TypeOrder)
      /\ TypeOrder \in Seq(Elems(TypeOrder))
  BY <1>1, ConfigurationAssumption, SameWords, OwnElements
<1>4. Elems(ProviderOrder) \subseteq {"doubao", "ernie", "modelhub", "openai"}
  BY <1>1, ElemsTyped
<1> QED
  BY <1>2, <1>3, <1>4 DEF Provider, Type

LEMMA NamesApart ==
    /\ NoName \notin Provider /\ "" \notin KeyText /\ "url" \notin KeyText /\ NoName \notin KeyText
    /\ "" \notin ModelText /\ NoName \notin ModelText
BY Orders, ConfigurationAssumption DEF NoName

LEMMA BoundOfChanges == MaxChanges \in Nat
BY ConfigurationAssumption

LEMMA TextsOf == \A k \in Param : TextOf(k) \subseteq Text
BY DEF Param, TextOf, Text

LEMMA PartialIs ==
    ASSUME NEW S, NEW T, NEW f
    PROVE  f \in PartialFunctions(S, T) <=> f \in [DOMAIN f -> T] /\ DOMAIN f \subseteq S
BY DEF PartialFunctions

LEMMA ModelFields ==
    ASSUME NEW m \in Model
    PROVE  /\ m.provider \in Provider /\ m.enabled \in BOOLEAN
           /\ m.params \in PartialFunctions(Param, Text)
           /\ DOMAIN m.params \subseteq Param /\ \A k \in DOMAIN m.params : m.params[k] \in TextOf(k)
<1>1. m \in [provider : Provider, params : PartialFunctions(Param, Text), enabled : BOOLEAN]
  BY DEF Model
<1> QED
  BY <1>1, PartialIs DEF Model

LEMMA ModelMade ==
    ASSUME NEW p \in Provider, NEW D, D \subseteq Param, NEW f, f = [k \in D |-> f[k]],
           \A k \in D : f[k] \in TextOf(k), NEW e \in BOOLEAN
    PROVE  [provider |-> p, params |-> f, enabled |-> e] \in Model
<1>1. \A k \in D : f[k] \in Text
  BY TextsOf
<1>2. DOMAIN f = D /\ f \in [D -> Text]
  BY <1>1
<1>3. f \in PartialFunctions(Param, Text)
  BY <1>2, PartialIs
<1> QED
  BY <1>2, <1>3 DEF Model

LEMMA ContentIs ==
    ASSUME NEW c, IsContent(c)
    PROVE  /\ DefaultsOk(c.defaults) /\ DOMAIN c.providers \subseteq Provider
           /\ \A p \in DOMAIN c.providers :
                /\ DOMAIN c.providers[p].keys \subseteq Param
                /\ \A k \in DOMAIN c.providers[p].keys : c.providers[p].keys[k] \in TextOf(k)
                /\ DOMAIN c.providers[p].models \subseteq Type
                /\ \A t \in DOMAIN c.providers[p].models : c.providers[p].models[t] \in ModelText
BY DEF IsContent, DefaultsOk, Range

LEMMA EmptyIsContent == IsContent(EmptyContent) /\ DOMAIN EmptyContent.providers = {}
BY DEF IsContent, EmptyContent, NoParams, Range

-----------------------------------------------------------------------------
(* What parsing makes of a content.                                        *)

ModelRead(c, t, p) ==
    [provider |-> p, params |-> ParamsRead(c.providers[p].keys, c.providers[p].models[t]),
     enabled |-> t \in DOMAIN c.defaults /\ c.defaults[t] = p]
Listing(c, t) == {p \in DOMAIN c.providers : t \in DOMAIN c.providers[p].models}

LEMMA ModelReadIs ==
    ASSUME NEW c, IsContent(c), NEW t \in Type, NEW p \in Listing(c, t)
    PROVE  /\ ModelRead(c, t, p) \in Model /\ ModelRead(c, t, p).provider = p
           /\ DOMAIN ModelRead(c, t, p).params = {"model"} \cup DOMAIN c.providers[p].keys
           /\ ModelRead(c, t, p).params["model"] = c.providers[p].models[t]
           /\ \A k \in DOMAIN c.providers[p].keys \ {"model"} :
                ModelRead(c, t, p).params[k] = c.providers[p].keys[k]
<1> DEFINE keys == c.providers[p].keys
           name == c.providers[p].models[t]
           D == {"model"} \cup DOMAIN keys
           f == ParamsRead(keys, name)
<1>1. /\ p \in Provider /\ DOMAIN keys \subseteq Param /\ name \in ModelText
      /\ \A k \in DOMAIN keys : keys[k] \in TextOf(k)
  BY ContentIs DEF Listing
<1>2. D \subseteq Param /\ name \in TextOf("model")
  BY <1>1 DEF Param, TextOf
<1>3. f = [k \in D |-> IF k = "model" THEN name ELSE keys[k]]
  BY DEF ParamsRead
<1> HIDE DEF f
<1>4. f = [k \in D |-> f[k]] /\ DOMAIN f = D
  BY <1>3
<1>5. \A k \in D : f[k] \in TextOf(k)
  BY <1>1, <1>2, <1>3
<1>6. (t \in DOMAIN c.defaults /\ c.defaults[t] = p) \in BOOLEAN
  OBVIOUS
<1>7. ModelRead(c, t, p) = [provider |-> p, params |-> f, enabled |-> (t \in DOMAIN c.defaults /\ c.defaults[t] = p)]
  BY DEF ModelRead, f
<1>8. ModelRead(c, t, p) \in Model
  <2> HIDE DEF D
  <2> QED
    BY <1>1, <1>2, <1>4, <1>5, <1>6, <1>7, ModelMade
<1>9. ModelRead(c, t, p).provider = p /\ ModelRead(c, t, p).params = f
  BY <1>7
<1> QED
  BY <1>3, <1>4, <1>8, <1>9

\* Of every type, each provider with a model of it, once.
LEMMA ParsedIs ==
    ASSUME NEW c, IsContent(c)
    PROVE  /\ ModelsOk(Parsed(c))
           /\ \A t \in Type :
                /\ Elems(Parsed(c)[t]) = {ModelRead(c, t, p) : p \in Listing(c, t)}
                /\ \A i, j \in DOMAIN Parsed(c)[t] :
                    Parsed(c)[t][i].provider = Parsed(c)[t][j].provider => i = j
<1> DEFINE Providing(t) == Filtered(ProviderOrder, Listing(c, t))
           Row(t) == [i \in DOMAIN Providing(t) |-> ModelRead(c, t, Providing(t)[i])]
<1>1. Parsed(c) = [t \in Type |-> Row(t)]
  BY DEF Parsed, Listing, ModelRead
<1>2. ASSUME NEW t \in Type
      PROVE  /\ Row(t) \in Seq(Model)
             /\ Elems(Row(t)) = {ModelRead(c, t, p) : p \in Listing(c, t)}
             /\ \A i, j \in DOMAIN Row(t) : Row(t)[i].provider = Row(t)[j].provider => i = j
  <2> DEFINE s == Providing(t)
             r == Row(t)
  <2>1. s \in Seq(Provider) /\ Elems(s) = Provider \cap Listing(c, t) /\ Distinct(s)
    BY Orders, FilteredIs
  <2>2. Elems(s) = Listing(c, t)
    BY <2>1, ContentIs DEF Listing
  <2>3. Len(s) \in Nat /\ DOMAIN s = 1..Len(s)
    BY <2>1
  <2>4. r = [i \in 1..Len(s) |-> ModelRead(c, t, s[i])]
    BY <2>3
  <2> HIDE DEF s, r, Listed, Row
  <2>5. \A i \in 1..Len(s) : s[i] \in Listing(c, t)
    BY <2>2 DEF Elems
  <2>6. \A i \in 1..Len(s) : ModelRead(c, t, s[i]) \in Model /\ ModelRead(c, t, s[i]).provider = s[i]
    BY <2>5, ModelReadIs
  <2>7. r \in Seq(Model) /\ Len(r) = Len(s) /\ \A i \in 1..Len(s) : r[i] = ModelRead(c, t, s[i])
    BY <2>3, <2>4, <2>6
  <2>8. Elems(r) = {ModelRead(c, t, p) : p \in Elems(s)}
    BY <2>7 DEF Elems
  <2>9. \A i, j \in DOMAIN r : r[i].provider = r[j].provider => i = j
    BY <2>1, <2>4, <2>6, <2>7 DEF Distinct
  <2> QED
    BY <2>2, <2>7, <2>8, <2>9 DEF r
<1> HIDE DEF Row
<1> QED
  BY <1>1, <1>2 DEF ModelsOk

-----------------------------------------------------------------------------
(* What saving makes of the tool's models.                                 *)

AnyOf(ms) == UNION {Elems(ms[t]) : t \in Type}

LEMMA AllModelsAre ==
    ASSUME NEW ms, ModelsOk(ms)
    PROVE  AllModels(ms) \in Seq(Model) /\ Elems(AllModels(ms)) = AnyOf(ms)
<1> DEFINE ss == [i \in DOMAIN TypeOrder |-> ms[TypeOrder[i]]]
           N == Len(TypeOrder)
<1>1. N \in Nat /\ DOMAIN TypeOrder = 1..N /\ \A i \in 1..N : TypeOrder[i] \in Type
  BY Orders
<1>2. Type = {TypeOrder[i] : i \in 1..N}
  BY Orders DEF Elems
<1>3. \A t \in Type : ms[t] \in Seq(Model)
  BY DEF ModelsOk
<1>4. ss = [i \in 1..N |-> ms[TypeOrder[i]]]
  BY <1>1
<1>5. AllModels(ms) = FlattenSeq(ss)
  BY DEF AllModels
<1> HIDE DEF ss, N
<1>6. ss \in Seq(Seq(Model)) /\ Len(ss) = N /\ \A i \in 1..N : ss[i] = ms[TypeOrder[i]]
  BY <1>1, <1>3, <1>4
<1>7. FlattenSeq(ss) \in Seq(Model) /\ Elems(FlattenSeq(ss)) = UNION {Elems(ss[i]) : i \in 1..Len(ss)}
  BY <1>6, FlattenedIs
<1>8. UNION {Elems(ss[i]) : i \in 1..N} = UNION {Elems(ms[t]) : t \in Type}
  <2>1. {Elems(ss[i]) : i \in 1..N} = {Elems(ms[t]) : t \in Type}
    BY <1>2, <1>6
  <2> QED
    BY <2>1
<1> QED
  BY <1>5, <1>6, <1>7, <1>8 DEF AnyOf

\* The values the models in M bring for a provider's parameter.
Carries(M, p, k) == {m \in M : m.provider = p /\ k \in DOMAIN m.params}
Values(M, p, k) == {m.params[k] : m \in Carries(M, p, k)}

LEMMA ParamsAre ==
    ASSUME NEW seq \in Seq(Model), NEW p, NEW k
    PROVE  k \in ParamsIn(seq, p) <=> Carries(Elems(seq), p, k) # {}
<1>1. DOMAIN seq = 1..Len(seq)
  OBVIOUS
<1> QED
  BY <1>1 DEF ParamsIn, Carries, Elems

LEMMA LastIsOne ==
    ASSUME NEW seq \in Seq(Model), NEW p, NEW k, Carries(Elems(seq), p, k) # {}
    PROVE  LastWith(seq, p, k) \in Values(Elems(seq), p, k)
<1> DEFINE found == {i \in DOMAIN seq : seq[i].provider = p /\ k \in DOMAIN seq[i].params}
           last == CHOOSE i \in found : \A j \in found : j <= i
<1>1. DOMAIN seq = 1..Len(seq) /\ Len(seq) \in Nat
  OBVIOUS
<1>2. found \subseteq 1..Len(seq) /\ found # {}
  BY <1>1 DEF Carries, Elems
<1>3. LastWith(seq, p, k) = seq[last].params[k]
  BY DEF LastWith
<1>4. last \in found
  <2> HIDE DEF found
  <2> QED
    BY <1>1, <1>2, LastPlace
<1>5. last \in 1..Len(seq) /\ seq[last].provider = p /\ k \in DOMAIN seq[last].params
  BY <1>1, <1>4
<1> HIDE DEF last
<1>6. seq[last] \in Carries(Elems(seq), p, k)
  BY <1>5 DEF Carries, Elems
<1> QED
  BY <1>3, <1>6 DEF Values

KeysOf(ms, p) ==
    [k \in ParamsIn(AllModels(ms), p) \ {"model"} |-> LastWith(AllModels(ms), p, k)]
NamesOf(ms, p) ==
    [t \in {u \in Type : "model" \in ParamsIn(ms[u], p)} |-> LastWith(ms[t], p, "model")]

LEMMA RenderedIs ==
    ASSUME NEW ms, NEW ds, ModelsOk(ms)
    PROVE  /\ Rendered(ms, ds).defaults = ds
           /\ Rendered(ms, ds).providers =
                [p \in {m.provider : m \in AnyOf(ms)} |-> [keys |-> KeysOf(ms, p), models |-> NamesOf(ms, p)]]
<1> DEFINE all == AllModels(ms)
<1>1. all \in Seq(Model) /\ Elems(all) = AnyOf(ms)
  BY AllModelsAre
<1>2. {all[i].provider : i \in DOMAIN all} = {m.provider : m \in AnyOf(ms)}
  <2>1. DOMAIN all = 1..Len(all)
    BY <1>1
  <2> HIDE DEF all
  <2> QED
    BY <1>1, <2>1 DEF Elems
<1> DEFINE D == {all[i].provider : i \in DOMAIN all}
<1>3. Rendered(ms, ds) =
        [defaults |-> ds,
         providers |-> [p \in D |-> [keys |-> KeysOf(ms, p), models |-> NamesOf(ms, p)]]]
  BY DEF Rendered, KeysOf, NamesOf
<1>4. D = {m.provider : m \in AnyOf(ms)}
  BY <1>2
<1> HIDE DEF D
<1>5. Rendered(ms, ds).defaults = ds
  BY <1>3
<1>6. Rendered(ms, ds).providers = [p \in D |-> [keys |-> KeysOf(ms, p), models |-> NamesOf(ms, p)]]
  BY <1>3
<1> QED
  BY <1>4, <1>5, <1>6

LEMMA KeysAre ==
    ASSUME NEW ms, ModelsOk(ms), NEW p, NEW k
    PROVE  /\ k \in DOMAIN KeysOf(ms, p) <=> k # "model" /\ Carries(AnyOf(ms), p, k) # {}
           /\ k \in DOMAIN KeysOf(ms, p) => KeysOf(ms, p)[k] \in Values(AnyOf(ms), p, k)
<1>1. AllModels(ms) \in Seq(Model) /\ Elems(AllModels(ms)) = AnyOf(ms)
  BY AllModelsAre
<1>2. k \in ParamsIn(AllModels(ms), p) <=> Carries(AnyOf(ms), p, k) # {}
  BY <1>1, ParamsAre
<1>3. Carries(AnyOf(ms), p, k) # {} => LastWith(AllModels(ms), p, k) \in Values(AnyOf(ms), p, k)
  BY <1>1, LastIsOne
<1> QED
  BY <1>2, <1>3 DEF KeysOf

LEMMA NamesAre ==
    ASSUME NEW ms, ModelsOk(ms), NEW p, NEW t
    PROVE  /\ t \in DOMAIN NamesOf(ms, p) <=> t \in Type /\ Carries(Elems(ms[t]), p, "model") # {}
           /\ t \in DOMAIN NamesOf(ms, p) => NamesOf(ms, p)[t] \in Values(Elems(ms[t]), p, "model")
<1>1. t \in Type => ms[t] \in Seq(Model)
  BY DEF ModelsOk
<1>2. t \in Type => ("model" \in ParamsIn(ms[t], p) <=> Carries(Elems(ms[t]), p, "model") # {})
  BY <1>1, ParamsAre
<1>3. t \in Type /\ Carries(Elems(ms[t]), p, "model") # {}
        => LastWith(ms[t], p, "model") \in Values(Elems(ms[t]), p, "model")
  BY <1>1, LastIsOne
<1> QED
  BY <1>2, <1>3 DEF NamesOf

LEMMA AnyTyped ==
    ASSUME NEW ms, ModelsOk(ms)
    PROVE  AnyOf(ms) \subseteq Model /\ \A t \in Type : Elems(ms[t]) \subseteq Model
<1>1. \A t \in Type : ms[t] \in Seq(Model)
  BY DEF ModelsOk
<1>2. \A t \in Type : Elems(ms[t]) \subseteq Model
  BY <1>1, ElemsTyped
<1> QED
  BY <1>2 DEF AnyOf

LEMMA RenderedFields ==
    ASSUME NEW ms, NEW ds, ModelsOk(ms)
    PROVE  /\ DOMAIN Rendered(ms, ds).providers = {m.provider : m \in AnyOf(ms)}
           /\ \A p \in DOMAIN Rendered(ms, ds).providers :
                /\ Rendered(ms, ds).providers[p] = [keys |-> KeysOf(ms, p), models |-> NamesOf(ms, p)]
                /\ Rendered(ms, ds).providers[p].keys = KeysOf(ms, p)
                /\ Rendered(ms, ds).providers[p].models = NamesOf(ms, p)
<1> DEFINE D == {m.provider : m \in AnyOf(ms)}
           F == Rendered(ms, ds).providers
<1>1. F = [p \in D |-> [keys |-> KeysOf(ms, p), models |-> NamesOf(ms, p)]]
  BY RenderedIs
<1> HIDE DEF D, F
<1>2. DOMAIN F = D /\ \A p \in D : F[p] = [keys |-> KeysOf(ms, p), models |-> NamesOf(ms, p)]
  BY <1>1
<1>3. \A p \in D : F[p].keys = KeysOf(ms, p) /\ F[p].models = NamesOf(ms, p)
  BY <1>2
<1> QED
  BY <1>2, <1>3 DEF D, F

LEMMA RenderedIsContent ==
    ASSUME NEW ms, NEW ds, ModelsOk(ms), DefaultsOk(ds)
    PROVE  IsContent(Rendered(ms, ds))
<1> DEFINE R == Rendered(ms, ds)
<1>1. R.defaults = ds
  BY RenderedIs
<1>2. /\ DOMAIN R.providers = {m.provider : m \in AnyOf(ms)}
      /\ \A p \in DOMAIN R.providers : R.providers[p].keys = KeysOf(ms, p) /\ R.providers[p].models = NamesOf(ms, p)
  BY RenderedFields
<1>3. DOMAIN R.providers \subseteq Provider
  BY <1>2, AnyTyped, ModelFields
<1>4. ASSUME NEW p, NEW k \in DOMAIN KeysOf(ms, p)
      PROVE  k \in Param /\ KeysOf(ms, p)[k] \in TextOf(k)
  <2>1. KeysOf(ms, p)[k] \in Values(AnyOf(ms), p, k)
    BY KeysAre
  <2>2. PICK m \in AnyOf(ms) : k \in DOMAIN m.params /\ KeysOf(ms, p)[k] = m.params[k]
    BY <2>1 DEF Values, Carries
  <2>3. m \in Model
    BY AnyTyped
  <2> QED
    BY <2>2, <2>3, ModelFields
<1>5. ASSUME NEW p, NEW t \in DOMAIN NamesOf(ms, p)
      PROVE  t \in Type /\ NamesOf(ms, p)[t] \in ModelText
  <2>1. t \in Type /\ NamesOf(ms, p)[t] \in Values(Elems(ms[t]), p, "model")
    BY NamesAre
  <2>2. PICK m \in Elems(ms[t]) : "model" \in DOMAIN m.params /\ NamesOf(ms, p)[t] = m.params["model"]
    BY <2>1 DEF Values, Carries
  <2>3. m \in Model
    BY <2>1, AnyTyped
  <2>4. m.params["model"] \in TextOf("model")
    BY <2>2, <2>3, ModelFields
  <2> QED
    BY <2>1, <2>2, <2>4 DEF TextOf
<1> HIDE DEF R
<1>6. DOMAIN R.defaults \subseteq Type /\ Range(R.defaults) \subseteq Provider
  BY <1>1 DEF DefaultsOk, Range
<1>7. IsContent(R)
  BY <1>2, <1>3, <1>4, <1>5, <1>6 DEF IsContent
<1> QED
  BY <1>7 DEF R

LEMMA FunctionsOf ==
    ASSUME NEW ms, NEW p
    PROVE  /\ KeysOf(ms, p) = [k \in DOMAIN KeysOf(ms, p) |-> KeysOf(ms, p)[k]]
           /\ NamesOf(ms, p) = [t \in DOMAIN NamesOf(ms, p) |-> NamesOf(ms, p)[t]]
           /\ NamesOf(ms, p) = NoParams <=> DOMAIN NamesOf(ms, p) = {}
BY DEF KeysOf, NamesOf, NoParams

\* What a restarted tool reads of what it has written.
LEMMA SavedIsRead ==
    ASSUME NEW ms, NEW ds, ModelsOk(ms), DefaultsOk(ds)
    PROVE  LET R == Rendered(ms, ds)
               again == Parsed(R)
           IN  /\ Rendered(again, ds).providers =
                    [p \in {q \in DOMAIN R.providers : R.providers[q].models # NoParams} |-> R.providers[p]]
               /\ \A t \in Type :
                    /\ {again[t][i].provider : i \in DOMAIN again[t]} =
                        {ms[t][i].provider : i \in {j \in DOMAIN ms[t] : "model" \in DOMAIN ms[t][j].params}}
                    /\ \A i, j \in DOMAIN again[t] : again[t][i].provider = again[t][j].provider => i = j
<1> DEFINE R == Rendered(ms, ds)
           again == Parsed(R)
<1>1. IsContent(R)
  BY RenderedIsContent
<1>2. /\ DOMAIN R.providers = {m.provider : m \in AnyOf(ms)}
      /\ \A p \in DOMAIN R.providers :
            /\ R.providers[p] = [keys |-> KeysOf(ms, p), models |-> NamesOf(ms, p)]
            /\ R.providers[p].keys = KeysOf(ms, p) /\ R.providers[p].models = NamesOf(ms, p)
  BY RenderedFields
<1> HIDE DEF R
<1>3. /\ ModelsOk(again)
      /\ \A t \in Type :
            /\ Elems(again[t]) = {ModelRead(R, t, p) : p \in Listing(R, t)}
            /\ \A i, j \in DOMAIN again[t] : again[t][i].provider = again[t][j].provider => i = j
  BY <1>1, ParsedIs
<1>4. \A t \in Type : \A p \in Listing(R, t) :
        /\ p \in DOMAIN R.providers
        /\ ModelRead(R, t, p).provider = p
        /\ DOMAIN ModelRead(R, t, p).params = {"model"} \cup DOMAIN KeysOf(ms, p)
        /\ ModelRead(R, t, p).params["model"] = NamesOf(ms, p)[t]
        /\ \A k \in DOMAIN KeysOf(ms, p) \ {"model"} : ModelRead(R, t, p).params[k] = KeysOf(ms, p)[k]
  <2> TAKE t \in Type
  <2> TAKE p \in Listing(R, t)
  <2>1. p \in DOMAIN R.providers /\ R.providers[p].keys = KeysOf(ms, p) /\ R.providers[p].models = NamesOf(ms, p)
    BY <1>2 DEF Listing
  <2> QED
    BY <1>1, <2>1, ModelReadIs
<1> HIDE DEF again
<1>5. \A t \in Type : \A p : p \in Listing(R, t) <=> t \in DOMAIN NamesOf(ms, p)
  <2> TAKE t \in Type
  <2> TAKE p
  <2>1. p \in Listing(R, t) => t \in DOMAIN NamesOf(ms, p)
    BY <1>2 DEF Listing
  <2>2. ASSUME t \in DOMAIN NamesOf(ms, p) PROVE p \in Listing(R, t)
    <3>1. Carries(Elems(ms[t]), p, "model") # {}
      BY <2>2, NamesAre
    <3>2. PICK m \in Elems(ms[t]) : m.provider = p
      BY <3>1 DEF Carries
    <3>3. m \in AnyOf(ms)
      BY DEF AnyOf
    <3>4. p \in DOMAIN R.providers
      BY <1>2, <3>2, <3>3
    <3> QED
      BY <1>2, <2>2, <3>4 DEF Listing
  <2> QED
    BY <2>1, <2>2
\* A model read of provider p is the one of its type.
<1>6. \A t \in Type : \A m \in Elems(again[t]) :
        m.provider \in Listing(R, t) /\ m = ModelRead(R, t, m.provider)
  BY <1>3, <1>4
<1>7. \A t \in Type : \A p \in Listing(R, t) :
        ModelRead(R, t, p) \in Elems(again[t]) /\ ModelRead(R, t, p) \in AnyOf(again)
  BY <1>3 DEF AnyOf
<1>8. \A m \in AnyOf(again) : \E t \in Type : m \in Elems(again[t])
  BY DEF AnyOf
<1>9. ASSUME NEW t \in Type
      PROVE  {again[t][i].provider : i \in DOMAIN again[t]} =
                {ms[t][i].provider : i \in {j \in DOMAIN ms[t] : "model" \in DOMAIN ms[t][j].params}}
  <2>1. again[t] \in Seq(Model) /\ ms[t] \in Seq(Model)
    BY <1>3 DEF ModelsOk
  <2>2. DOMAIN again[t] = 1..Len(again[t]) /\ DOMAIN ms[t] = 1..Len(ms[t])
    BY <2>1
  <2>3. {again[t][i].provider : i \in DOMAIN again[t]} = Listing(R, t)
    <3>1. {again[t][i].provider : i \in DOMAIN again[t]} = {m.provider : m \in Elems(again[t])}
      BY <2>2 DEF Elems
    <3>2. {m.provider : m \in Elems(again[t])} = Listing(R, t)
      BY <1>4, <1>6, <1>7
    <3> QED
      BY <3>1, <3>2
  <2>4. ASSUME NEW p
        PROVE  p \in Listing(R, t) <=>
                \E i \in {j \in DOMAIN ms[t] : "model" \in DOMAIN ms[t][j].params} : p = ms[t][i].provider
    <3>1. p \in Listing(R, t) <=> Carries(Elems(ms[t]), p, "model") # {}
      BY <1>5, NamesAre
    <3> QED
      BY <2>2, <3>1 DEF Carries, Elems
  <2> QED
    BY <2>3, <2>4
<1>10. {m.provider : m \in AnyOf(again)} = {q \in DOMAIN R.providers : R.providers[q].models # NoParams}
  <2>1. ASSUME NEW p
        PROVE  (\E m \in AnyOf(again) : p = m.provider) <=> \E t \in Type : p \in Listing(R, t)
    <3>1. ASSUME NEW m \in AnyOf(again), p = m.provider PROVE \E t \in Type : p \in Listing(R, t)
      BY <1>6, <1>8, <3>1
    <3>2. ASSUME NEW t \in Type, p \in Listing(R, t) PROVE \E m \in AnyOf(again) : p = m.provider
      BY <1>4, <1>7, <3>2
    <3> QED
      BY <3>1, <3>2
  <2>2. ASSUME NEW p
        PROVE  (\E t \in Type : p \in Listing(R, t)) <=> (p \in DOMAIN R.providers /\ R.providers[p].models # NoParams)
    <3>1. ASSUME NEW t \in Type, p \in Listing(R, t)
          PROVE  p \in DOMAIN R.providers /\ R.providers[p].models # NoParams
      <4>1. p \in DOMAIN R.providers /\ t \in DOMAIN NamesOf(ms, p)
        BY <1>4, <1>5, <3>1
      <4> QED
        BY <1>2, <4>1, FunctionsOf
    <3>2. ASSUME p \in DOMAIN R.providers, R.providers[p].models # NoParams
          PROVE  \E t \in Type : p \in Listing(R, t)
      <4>1. DOMAIN NamesOf(ms, p) # {}
        BY <1>2, <3>2, FunctionsOf
      <4>2. PICK t : t \in DOMAIN NamesOf(ms, p)
        BY <4>1
      <4>3. t \in Type
        BY <4>2, NamesAre
      <4> QED
        BY <1>5, <4>2, <4>3
    <3> QED
      BY <3>1, <3>2
  <2> QED
    BY <2>1, <2>2
<1>11. ASSUME NEW p \in {m.provider : m \in AnyOf(again)}
       PROVE  KeysOf(again, p) = KeysOf(ms, p) /\ NamesOf(again, p) = NamesOf(ms, p)
  <2>1. PICK u \in Type : p \in Listing(R, u)
    BY <1>6, <1>8
  <2>2. ASSUME NEW k
        PROVE  /\ k # "model" /\ Carries(AnyOf(again), p, k) # {} <=> k \in DOMAIN KeysOf(ms, p)
               /\ k # "model" => Values(AnyOf(again), p, k) \subseteq {KeysOf(ms, p)[k]}
    <3>1. ASSUME NEW m \in Carries(AnyOf(again), p, k), k # "model"
          PROVE  k \in DOMAIN KeysOf(ms, p) /\ m.params[k] = KeysOf(ms, p)[k]
      <4>1. PICK t \in Type : m \in Elems(again[t])
        BY <1>8 DEF Carries
      <4>2. m.provider = p /\ k \in DOMAIN m.params
        BY DEF Carries
      <4>3. p \in Listing(R, t) /\ m = ModelRead(R, t, p)
        BY <1>6, <4>1, <4>2
      <4> QED
        BY <1>4, <3>1, <4>2, <4>3
    <3>2. ASSUME k \in DOMAIN KeysOf(ms, p)
          PROVE  k # "model" /\ Carries(AnyOf(again), p, k) # {}
      <4>1. k # "model"
        BY <3>2, KeysAre
      <4>2. ModelRead(R, u, p) \in Carries(AnyOf(again), p, k)
        BY <1>4, <1>7, <2>1, <3>2 DEF Carries
      <4> QED
        BY <4>1, <4>2
    <3> QED
      BY <3>1, <3>2 DEF Values
  <2>3. DOMAIN KeysOf(again, p) = DOMAIN KeysOf(ms, p)
    BY <1>3, <2>2, KeysAre
  <2>4. \A k \in DOMAIN KeysOf(ms, p) : KeysOf(again, p)[k] = KeysOf(ms, p)[k]
    BY <1>3, <2>2, <2>3, KeysAre
  <2>5. ASSUME NEW t \in Type
        PROVE  /\ Carries(Elems(again[t]), p, "model") # {} <=> t \in DOMAIN NamesOf(ms, p)
               /\ Values(Elems(again[t]), p, "model") \subseteq {NamesOf(ms, p)[t]}
    <3>1. ASSUME NEW m \in Carries(Elems(again[t]), p, "model")
          PROVE  t \in DOMAIN NamesOf(ms, p) /\ m.params["model"] = NamesOf(ms, p)[t]
      <4>1. m \in Elems(again[t]) /\ m.provider = p
        BY DEF Carries
      <4>2. p \in Listing(R, t) /\ m = ModelRead(R, t, p)
        BY <1>6, <4>1
      <4> QED
        BY <1>4, <1>5, <4>2
    <3>2. ASSUME t \in DOMAIN NamesOf(ms, p)
          PROVE  Carries(Elems(again[t]), p, "model") # {}
      <4>1. p \in Listing(R, t)
        BY <1>5, <3>2
      <4>2. ModelRead(R, t, p) \in Carries(Elems(again[t]), p, "model")
        BY <1>4, <1>7, <4>1 DEF Carries
      <4> QED
        BY <4>2
    <3> QED
      BY <3>1, <3>2 DEF Values
  <2>6. DOMAIN NamesOf(again, p) = DOMAIN NamesOf(ms, p)
    BY <1>3, <2>5, NamesAre
  <2>7. \A t \in DOMAIN NamesOf(ms, p) : NamesOf(again, p)[t] = NamesOf(ms, p)[t]
    <3> TAKE t \in DOMAIN NamesOf(ms, p)
    <3>1. t \in Type
      BY NamesAre
    <3>2. NamesOf(again, p)[t] \in Values(Elems(again[t]), p, "model")
      BY <1>3, <2>6, NamesAre
    <3> QED
      BY <2>5, <3>1, <3>2
  <2>8. KeysOf(again, p) = KeysOf(ms, p)
    BY <2>3, <2>4, FunctionsOf
  <2>9. NamesOf(again, p) = NamesOf(ms, p)
    BY <2>6, <2>7, FunctionsOf
  <2> QED
    BY <2>8, <2>9
<1>12. Rendered(again, ds).providers =
            [p \in {q \in DOMAIN R.providers : R.providers[q].models # NoParams} |-> R.providers[p]]
  <2> DEFINE D == {m.provider : m \in AnyOf(again)}
  <2>1. Rendered(again, ds).providers =
            [p \in D |-> [keys |-> KeysOf(again, p), models |-> NamesOf(again, p)]]
    BY <1>3, RenderedIs
  <2>2. \A p \in D : R.providers[p] = [keys |-> KeysOf(again, p), models |-> NamesOf(again, p)]
    BY <1>2, <1>10, <1>11
  <2>3. D = {q \in DOMAIN R.providers : R.providers[q].models # NoParams}
    BY <1>10
  <2> HIDE DEF D
  <2>4. [p \in D |-> [keys |-> KeysOf(again, p), models |-> NamesOf(again, p)]] = [p \in D |-> R.providers[p]]
    BY <2>2
  <2> QED
    BY <2>1, <2>3, <2>4
<1> QED
  BY <1>3, <1>9, <1>12 DEF R, again
-----------------------------------------------------------------------------
(* Where a key comes from, and what every change of the tool keeps.        *)

HadKey(c, p) == p \in DOMAIN c.providers /\ "api_key" \in DOMAIN c.providers[p].keys

\* Content c and models ms have keys only of providers that have one in f.
KnownKeys(f, c) == \A p \in DOMAIN c.providers : HadKey(c, p) => HadKey(f, p)
KnownModel(f, m) == "api_key" \in DOMAIN m.params => HadKey(f, m.provider)
ModelsKnown(f, ms) == \A m \in AnyOf(ms) : KnownModel(f, m)

LEMMA RenderedKnown ==
    ASSUME NEW ms, NEW ds, NEW f, ModelsOk(ms), ModelsKnown(f, ms)
    PROVE  KnownKeys(f, Rendered(ms, ds))
<1> DEFINE R == Rendered(ms, ds)
<1>1. \A p \in DOMAIN R.providers : R.providers[p].keys = KeysOf(ms, p)
  BY RenderedFields
<1> HIDE DEF R
<1>2. ASSUME NEW p \in DOMAIN R.providers, HadKey(R, p) PROVE HadKey(f, p)
  <2>1. "api_key" \in DOMAIN KeysOf(ms, p)
    BY <1>1, <1>2 DEF HadKey
  <2>2. Carries(AnyOf(ms), p, "api_key") # {}
    BY <2>1, KeysAre
  <2> QED
    BY <2>2 DEF Carries, ModelsKnown, KnownModel
<1>3. KnownKeys(f, R)
  BY <1>2 DEF KnownKeys
<1> QED
  BY <1>3 DEF R

LEMMA ParsedKnown ==
    ASSUME NEW c, NEW f, IsContent(c), KnownKeys(f, c)
    PROVE  ModelsKnown(f, Parsed(c))
<1> SUFFICES ASSUME NEW m \in AnyOf(Parsed(c)), "api_key" \in DOMAIN m.params PROVE HadKey(f, m.provider)
  BY DEF ModelsKnown, KnownModel
<1>1. PICK t \in Type : m \in Elems(Parsed(c)[t])
  BY DEF AnyOf
<1>2. PICK p \in Listing(c, t) : m = ModelRead(c, t, p)
  BY <1>1, ParsedIs
<1>3. m.provider = p /\ DOMAIN m.params = {"model"} \cup DOMAIN c.providers[p].keys
  BY <1>2, ModelReadIs
<1>4. p \in DOMAIN c.providers /\ HadKey(c, p)
  BY <1>3 DEF Listing, HadKey
<1> QED
  BY <1>3, <1>4 DEF KnownKeys

LEMMA MarksKeep ==
    ASSUME NEW seq \in Seq(Model), NEW ds, NEW t
    PROVE  /\ WithMarks(seq, ds, t) \in Seq(Model) /\ Len(WithMarks(seq, ds, t)) = Len(seq)
           /\ \A i \in 1..Len(seq) : /\ WithMarks(seq, ds, t)[i].provider = seq[i].provider
                                     /\ WithMarks(seq, ds, t)[i].params = seq[i].params
<1> DEFINE M(i) == [seq[i] EXCEPT !.enabled = (t \in DOMAIN ds /\ ds[t] = seq[i].provider)]
<1>1. DOMAIN seq = 1..Len(seq) /\ Len(seq) \in Nat /\ \A i \in 1..Len(seq) : seq[i] \in Model
  OBVIOUS
<1>2. ASSUME NEW i \in 1..Len(seq)
      PROVE  M(i) \in Model /\ M(i).provider = seq[i].provider /\ M(i).params = seq[i].params
  <2>1. seq[i] \in [provider : Provider, params : PartialFunctions(Param, Text), enabled : BOOLEAN]
    BY <1>1 DEF Model
  <2>2. (t \in DOMAIN ds /\ ds[t] = seq[i].provider) \in BOOLEAN
    OBVIOUS
  <2>3. /\ M(i) \in [provider : Provider, params : PartialFunctions(Param, Text), enabled : BOOLEAN]
        /\ M(i).provider = seq[i].provider /\ M(i).params = seq[i].params
    BY <2>1, <2>2
  <2> QED
    BY <1>1, <2>3 DEF Model
<1>3. WithMarks(seq, ds, t) = [i \in 1..Len(seq) |-> M(i)]
  BY <1>1 DEF WithMarks
<1> HIDE DEF M
<1> QED
  BY <1>1, <1>2, <1>3

\* The models of one type are replaced.
LEMMA OneTypeChanged ==
    ASSUME NEW ms, NEW f, ModelsOk(ms), ModelsKnown(f, ms), NEW t \in Type,
           NEW seq \in Seq(Model), \A i \in 1..Len(seq) : KnownModel(f, seq[i])
    PROVE  LET new == [ms EXCEPT ![t] = seq]
           IN  /\ ModelsOk(new) /\ ModelsKnown(f, new)
               /\ new[t] = seq /\ \A u \in Type \ {t} : new[u] = ms[u]
<1> DEFINE new == [ms EXCEPT ![t] = seq]
<1>1. ModelsOk(new) /\ new[t] = seq /\ \A u \in Type \ {t} : new[u] = ms[u]
  BY DEF ModelsOk
<1> HIDE DEF new
<1>2. ASSUME NEW m \in AnyOf(new) PROVE KnownModel(f, m)
  <2>1. PICK u \in Type : m \in Elems(new[u])
    BY DEF AnyOf
  <2>2. CASE u = t
    BY <1>1, <2>1, <2>2 DEF Elems
  <2>3. CASE u # t
    <3>1. m \in AnyOf(ms)
      BY <1>1, <2>1, <2>3 DEF AnyOf
    <3> QED
      BY <3>1 DEF ModelsKnown
  <2> QED
    BY <2>2, <2>3
<1>3. ModelsKnown(f, new)
  BY <1>2 DEF ModelsKnown
<1> QED
  BY <1>1, <1>3 DEF new

\* new is ds with provider p for type t, or with none.
GivenTo(new, ds, t, p) ==
    /\ DefaultsOk(new) /\ DOMAIN new = {t} \cup DOMAIN ds /\ new[t] = p
    /\ \A u \in DOMAIN ds \ {t} : new[u] = ds[u]
TakenFrom(new, ds, t) ==
    /\ DefaultsOk(new) /\ DOMAIN new = DOMAIN ds \ {t}
    /\ \A u \in DOMAIN ds \ {t} : new[u] = ds[u]

LEMMA DefaultGiven ==
    ASSUME NEW ds, DefaultsOk(ds), NEW t \in Type, NEW p \in Provider
    PROVE  GivenTo(WithDefault(ds, t, p), ds, t, p)
BY DEF DefaultsOk, WithDefault, GivenTo

LEMMA DefaultTaken ==
    ASSUME NEW ds, DefaultsOk(ds), NEW t \in Type
    PROVE  TakenFrom(WithoutDefault(ds, t), ds, t)
BY DEF DefaultsOk, WithoutDefault, TakenFrom

LEMMA ValidatedIs ==
    ASSUME NEW m \in Model, NEW f, KnownModel(f, m)
    PROVE  /\ Validated(m) \in Model /\ Validated(m).provider = m.provider
           /\ DOMAIN Validated(m).params = {"Model"} \cup DOMAIN m.params
           /\ \A k \in DOMAIN m.params : Validated(m).params[k] = m.params[k]
           /\ KnownModel(f, Validated(m))
<1>1. m \in [provider : Provider, params : PartialFunctions(Param, Text), enabled : BOOLEAN]
  BY DEF Model
<1>2. /\ m.provider \in Provider /\ DOMAIN m.params \subseteq Param
      /\ \A k \in DOMAIN m.params : m.params[k] \in TextOf(k)
  BY ModelFields
<1>3. CASE "Model" \in DOMAIN m.params
  <2>1. Validated(m) = m
    BY <1>3 DEF Validated
  <2> QED
    BY <1>3, <2>1
<1>4. CASE "Model" \notin DOMAIN m.params
  <2> DEFINE D == {"Model"} \cup DOMAIN m.params
             g == [k \in D |-> IF k = "Model" THEN InventedName ELSE m.params[k]]
  <2>1. Validated(m) = [m EXCEPT !.params = g]
    BY <1>4 DEF Validated
  <2>2. DOMAIN g = D /\ g["Model"] = InventedName /\ \A k \in DOMAIN m.params : g[k] = m.params[k]
    BY <1>4
  <2>3. D \subseteq Param /\ InventedName \in TextOf("Model")
    BY <1>2 DEF Param, TextOf
  <2>4. \A k \in D : g[k] \in TextOf(k)
    BY <1>2, <2>2, <2>3
  <2>5. g \in PartialFunctions(Param, Text)
    <3>1. \A k \in D : g[k] \in Text
      BY <2>3, <2>4, TextsOf
    <3>2. g = [k \in D |-> g[k]]
      OBVIOUS
    <3> HIDE DEF g, D
    <3>3. g \in [D -> Text]
      BY <3>1, <3>2
    <3> QED
      BY <2>2, <2>3, <3>3, PartialIs
  <2> HIDE DEF g
  <2>6. /\ Validated(m) \in [provider : Provider, params : PartialFunctions(Param, Text), enabled : BOOLEAN]
        /\ Validated(m).params = g /\ Validated(m).provider = m.provider
    BY <1>1, <2>1, <2>5
  <2>7. Validated(m) \in Model
    BY <2>2, <2>4, <2>6 DEF Model
  <2>8. KnownModel(f, Validated(m))
    BY <2>2, <2>6 DEF KnownModel
  <2> QED
    BY <2>2, <2>6, <2>7, <2>8
<1> QED
  BY <1>3, <1>4

-----------------------------------------------------------------------------
(* The inductive invariant of the configuration.                           *)

FileOk ==
    /\ file = File(file.state, file.content)
    /\ file.state \in {"whole", "torn", "absent"}
    /\ IsContent(file.content) /\ IsContent(first) /\ IsContent(root)
    /\ file.state # "whole" => file.content = EmptyContent
    /\ tool \in {"closed", "idle", "writing"}
    /\ tool = "writing" => file.state = "torn"
    /\ first \in StartContent \cup {EmptyContent}

ToolOk ==
    /\ ModelsOk(models) /\ DefaultsOk(defaults)
    /\ changes \in 0..MaxChanges

KeysOk == KnownKeys(first, file.content) /\ KnownKeys(first, root) /\ ModelsKnown(first, models)

\* An edit is of a model that still is where it was.
EditFits(ms, e) ==
    e # <<>> => \E t \in Type : \E i \in DOMAIN ms[t] :
        "api_key" \in DOMAIN ms[t][i].params /\ e = <<t, i, ms[t][i].params["api_key"]>>

\* What is being written, or was written with an edit, is what the tool has.
EditOk ==
    /\ tool = "writing" \/ edited # <<>> => root = Rendered(models, defaults)
    /\ EditFits(models, edited)
    /\ edited # <<>> /\ tool = "idle" => file.content = root

Chosen == [at : {"chosen"}, type : Type, provider : Provider, named : BOOLEAN,
           served : BOOLEAN, changed : BOOLEAN]

RequestOk ==
    /\ request.at \in {"none", "chosen", "ready", "invalid"}
    /\ request.at = "chosen" =>
        /\ request \in Chosen
        /\ request.changed \/ request.served = SupportsInterface(file.content, request.provider, request.type)
    /\ RequestsAreServed /\ KeysStayKeys

ConfigInv == FileOk /\ ToolOk /\ KeysOk /\ EditOk /\ RequestOk

\* What a change may make of the models and the defaults.
Sound(ms, ds, e) ==
    ModelsOk(ms) /\ DefaultsOk(ds) /\ ModelsKnown(first, ms) /\ EditFits(ms, e)

\* No default loses its provider's last model.
Hangs(ms, ds, t) == t \in DOMAIN ds /\ \A i \in DOMAIN ms[t] : ms[t][i].provider # ds[t]
StaysListed(ms, ds) == \A t \in Type : Hangs(ms, ds, t) => Hangs(models, defaults, t)

LEMMA DialogIs ==
    ASSUME FileOk, ToolOk, KeysOk, NEW t \in Type, NEW m \in DialogModels(t)
    PROVE  m \in Model /\ KnownModel(first, m)
<1> DEFINE Params(p) == {g \in PartialFunctions(KnownParams(p), UNION {TextOf(k) : k \in Param}) :
                          \A k \in DOMAIN g : g[k] \in TextOf(k)}
           Offers(p) == {[provider |-> p, params |-> f, enabled |-> TRUE] : f \in Params(p)}
<1>1. DialogModels(t) = UNION {Offers(p) : p \in DialogProviders(t)}
  BY DEF DialogModels
<1>2. PICK p \in DialogProviders(t) : m \in Offers(p)
  <2> HIDE DEF Offers
  <2> QED
    BY <1>1
<1>3. PICK f \in Params(p) : m = [provider |-> p, params |-> f, enabled |-> TRUE]
  <2> HIDE DEF Params
  <2> QED
    BY <1>2
<1>4. p \in Provider
  <2>1. models[t] \in Seq(Model)
    BY DEF ToolOk, ModelsOk
  <2>2. \A i \in DOMAIN models[t] : models[t][i].provider \in Provider
    BY <2>1, ModelFields
  <2> QED
    BY <2>2 DEF DialogProviders
<1>5. /\ f \in [DOMAIN f -> UNION {TextOf(k) : k \in Param}] /\ DOMAIN f \subseteq KnownParams(p)
      /\ \A k \in DOMAIN f : f[k] \in TextOf(k)
  BY PartialIs
<1>6. KnownParams(p) \subseteq Param
  BY ContentIs DEF KnownParams, FileOk, Param
<1>7. m \in Model
  <2>1. f = [k \in DOMAIN f |-> f[k]] /\ DOMAIN f \subseteq Param
    BY <1>5, <1>6
  <2> QED
    BY <1>3, <1>4, <1>5, <2>1, ModelMade
<1>8. "api_key" \in DOMAIN f => HadKey(root, p)
  BY <1>5 DEF KnownParams, HadKey
<1>9. HadKey(root, p) => HadKey(first, p)
  BY DEF KeysOk, KnownKeys, HadKey
<1> QED
  BY <1>3, <1>7, <1>8, <1>9 DEF KnownModel

\* A changed file is noted by a request that has chosen its provider.
LEMMA ReplaceKeeps ==
    ASSUME RequestOk, NEW new, Replace(new)
    PROVE  /\ file' = new
           /\ request'.at = request.at
           /\ request.at = "chosen" => request' \in Chosen /\ request'.changed
           /\ request.at # "chosen" => request' = request
<1>1. CASE request.at = "chosen"
  <2>1. request \in Chosen /\ request' = [request EXCEPT !.changed = TRUE]
    BY <1>1 DEF RequestOk, Replace
  <2>2. request' \in Chosen /\ request'.changed
    BY <2>1 DEF Chosen
  <2> QED
    BY <1>1, <2>2 DEF Replace, Chosen
<1>2. CASE request.at # "chosen"
  BY <1>2 DEF Replace
<1> QED
  BY <1>1, <1>2

LEMMA RequestKept ==
    ASSUME RequestOk,
           \/ request' = request /\ file' = file
           \/ \E new : Replace(new)
    PROVE  RequestOk'
<1>1. CASE request' = request /\ file' = file
  BY <1>1 DEF RequestOk, RequestsAreServed, KeysStayKeys
<1>2. ASSUME NEW new, Replace(new) PROVE RequestOk'
  <2>1. /\ request'.at = request.at
        /\ request.at = "chosen" => request' \in Chosen /\ request'.changed
        /\ request.at # "chosen" => request' = request
    BY <1>2, ReplaceKeeps
  <2>2. CASE request.at = "chosen"
    BY <2>1, <2>2 DEF RequestOk, RequestsAreServed, KeysStayKeys
  <2>3. CASE request.at # "chosen"
    BY <2>1, <2>3 DEF RequestOk, RequestsAreServed, KeysStayKeys
  <2> QED
    BY <2>2, <2>3
<1> QED
  BY <1>1, <1>2

LEMMA FileIs ==
    ASSUME NEW state, NEW content
    PROVE  /\ File(state, content).state = state /\ File(state, content).content = content
           /\ File(state, content) = File(File(state, content).state, File(state, content).content)
BY DEF File

\* Whatever is saved, as long as it is sound.
LEMMA SaveStep ==
    ASSUME ConfigInv, NEW ms, NEW ds, NEW e, Sound(ms, ds, e), Save(ms, ds, e)
    PROVE  ConfigInv'
<1> USE DEF ConfigInv
<1>1. /\ tool = "idle" /\ changes < MaxChanges /\ changes' = changes + 1
      /\ models' = ms /\ defaults' = ds /\ root' = Rendered(ms, ds) /\ first' = first
      /\ \/ tool' = "writing" /\ edited' = e /\ Replace(Truncated)
         \/ tool' = tool /\ file' = file /\ request' = request /\ edited' = <<>>
  BY DEF Save
<1>2. ModelsOk(ms) /\ DefaultsOk(ds) /\ ModelsKnown(first, ms) /\ EditFits(ms, e)
  BY DEF Sound
<1>3. IsContent(root') /\ KnownKeys(first, root')
  BY <1>1, <1>2, RenderedIsContent, RenderedKnown
<1>4. RequestOk'
  BY <1>1, RequestKept
<1>5. CASE tool' = "writing" /\ edited' = e /\ Replace(Truncated)
  <2>1. file' = Truncated
    BY <1>5 DEF Replace
  <2>2. file'.state = "torn" /\ file'.content = EmptyContent /\ file' = File(file'.state, file'.content)
    BY <2>1, FileIs DEF Truncated
  <2>3. IsContent(file'.content) /\ DOMAIN file'.content.providers = {}
    BY <2>2, EmptyIsContent
  <2>4. FileOk'
    BY <1>1, <1>3, <1>5, <2>2, <2>3 DEF FileOk
  <2>5. KnownKeys(first, file'.content)
    BY <2>3 DEF KnownKeys
  <2>6. KeysOk'
    BY <1>1, <1>2, <1>3, <2>5 DEF KeysOk
  <2>7. EditOk'
    BY <1>1, <1>2, <1>5 DEF EditOk
  <2>8. ToolOk'
    BY <1>1, <1>2, BoundOfChanges DEF ToolOk
  <2> QED
    BY <1>4, <2>4, <2>6, <2>7, <2>8
<1>6. CASE tool' = tool /\ file' = file /\ request' = request /\ edited' = <<>>
  <2>1. FileOk'
    BY <1>1, <1>3, <1>6 DEF FileOk
  <2>2. KeysOk'
    BY <1>1, <1>2, <1>3, <1>6 DEF KeysOk
  <2>3. EditOk'
    BY <1>1, <1>6 DEF EditOk, EditFits
  <2>4. ToolOk'
    BY <1>1, <1>2, BoundOfChanges DEF ToolOk
  <2> QED
    BY <1>4, <2>1, <2>2, <2>3, <2>4
<1> QED
  BY <1>1, <1>5, <1>6

-----------------------------------------------------------------------------
(* The changes of the tool are sound, and all but an edit keep what is     *)
(* listed for a default.                                                   *)

LEMMA SavedAgain ==
    ASSUME ConfigInv
    PROVE  Sound(models, defaults, <<>>) /\ StaysListed(models, defaults)
BY DEF ConfigInv, ToolOk, KeysOk, Sound, EditFits, StaysListed

\* Models of one type are replaced by known ones.
LEMMA ChangeIsSound ==
    ASSUME ConfigInv, NEW t \in Type, NEW seq \in Seq(Model), NEW ds, DefaultsOk(ds),
           \A i \in 1..Len(seq) : KnownModel(first, seq[i])
    PROVE  /\ Sound([models EXCEPT ![t] = seq], ds, <<>>)
           /\ [models EXCEPT ![t] = seq][t] = seq
           /\ \A u \in Type \ {t} : [models EXCEPT ![t] = seq][u] = models[u]
<1>1. ModelsOk(models) /\ ModelsKnown(first, models)
  BY DEF ConfigInv, ToolOk, KeysOk
<1> QED
  BY <1>1, OneTypeChanged DEF Sound, EditFits

LEMMA OwnModels ==
    ASSUME ConfigInv, NEW t \in Type
    PROVE  /\ models[t] \in Seq(Model) /\ DOMAIN models[t] = 1..Len(models[t])
           /\ \A i \in DOMAIN models[t] :
                /\ models[t][i] \in Model /\ KnownModel(first, models[t][i])
                /\ models[t][i].provider \in Provider
<1>1. models[t] \in Seq(Model)
  BY DEF ConfigInv, ToolOk, ModelsOk
<1>2. DOMAIN models[t] = 1..Len(models[t])
  BY <1>1
<1>3. \A i \in DOMAIN models[t] : models[t][i] \in Model /\ models[t][i] \in AnyOf(models)
  BY <1>1, <1>2 DEF AnyOf, Elems
<1> QED
  BY <1>1, <1>2, <1>3, ModelFields DEF ConfigInv, KeysOk, ModelsKnown

\* Models that differ only in their marks are known when the others are.
LEMMA MarkedKnown ==
    ASSUME NEW f, NEW seq \in Seq(Model), NEW ds, NEW t, \A i \in 1..Len(seq) : KnownModel(f, seq[i])
    PROVE  /\ WithMarks(seq, ds, t) \in Seq(Model) /\ Len(WithMarks(seq, ds, t)) = Len(seq)
           /\ \A i \in 1..Len(seq) : WithMarks(seq, ds, t)[i].provider = seq[i].provider
           /\ \A i \in 1..Len(WithMarks(seq, ds, t)) : KnownModel(f, WithMarks(seq, ds, t)[i])
<1> DEFINE w == WithMarks(seq, ds, t)
<1>1. /\ w \in Seq(Model) /\ Len(w) = Len(seq)
      /\ \A i \in 1..Len(seq) : w[i].provider = seq[i].provider /\ w[i].params = seq[i].params
  BY MarksKeep
<1> HIDE DEF w
<1>2. \A i \in 1..Len(w) : KnownModel(f, w[i])
  BY <1>1 DEF KnownModel
<1> QED
  BY <1>1, <1>2 DEF w

LEMMA AddIsSound ==
    ASSUME ConfigInv, NEW t \in Type, AddModel(t)
    PROVE  \E ms, ds : Save(ms, ds, <<>>) /\ Sound(ms, ds, <<>>) /\ StaysListed(ms, ds)
<1>1. PICK m \in DialogModels(t) :
        LET ds == IF t \in DOMAIN defaults THEN defaults ELSE WithDefault(defaults, t, m.provider)
            ms == Append(models[t], Validated(m))
        IN  Save([models EXCEPT ![t] = WithMarks(ms, ds, t)], ds, <<>>)
  BY DEF AddModel
<1> DEFINE ds == IF t \in DOMAIN defaults THEN defaults ELSE WithDefault(defaults, t, m.provider)
           v == Validated(m)
           seq == Append(models[t], v)
           marked == WithMarks(seq, ds, t)
           new == [models EXCEPT ![t] = marked]
<1>2. Save(new, ds, <<>>)
  BY <1>1
<1>3. m \in Model /\ m.provider \in Provider /\ v \in Model /\ v.provider = m.provider /\ KnownModel(first, v)
  BY DialogIs, ValidatedIs, ModelFields DEF ConfigInv
<1>4. DefaultsOk(defaults)
  BY DEF ConfigInv, ToolOk
<1>5. /\ DefaultsOk(ds) /\ t \in DOMAIN ds /\ DOMAIN ds \subseteq {t} \cup DOMAIN defaults
      /\ \A u \in DOMAIN defaults : ds[u] = defaults[u]
      /\ t \notin DOMAIN defaults => ds[t] = v.provider
  <2>1. CASE t \in DOMAIN defaults
    <3>1. ds = defaults
      BY <2>1
    <3> QED
      BY <1>4, <2>1, <3>1 DEF DefaultsOk
  <2>2. CASE t \notin DOMAIN defaults
    <3>1. ds = WithDefault(defaults, t, m.provider)
      BY <2>2
    <3>2. /\ DefaultsOk(ds) /\ DOMAIN ds = {t} \cup DOMAIN defaults /\ ds[t] = m.provider
          /\ \A u \in DOMAIN defaults \ {t} : ds[u] = defaults[u]
      <4>1. GivenTo(ds, defaults, t, m.provider)
        BY <1>3, <1>4, <3>1, DefaultGiven
      <4> QED
        BY <4>1 DEF GivenTo
    <3> HIDE DEF ds, v
    <3> QED
      BY <1>3, <2>2, <3>2
  <2> QED
    BY <2>1, <2>2
<1>6. /\ models[t] \in Seq(Model) /\ DOMAIN models[t] = 1..Len(models[t])
      /\ \A i \in DOMAIN models[t] : KnownModel(first, models[t][i])
  BY OwnModels
<1> HIDE DEF v, ds
<1>7. /\ seq \in Seq(Model) /\ Len(seq) = Len(models[t]) + 1
      /\ \A i \in 1..Len(models[t]) : seq[i] = models[t][i]
      /\ seq[Len(seq)] = v
  <2>1. v \in Model /\ models[t] \in Seq(Model)
    BY <1>3, <1>6
  <2> QED
    BY <2>1
<1> HIDE DEF seq
<1>8. \A i \in 1..Len(seq) : KnownModel(first, seq[i])
  <2>1. \A i \in 1..Len(seq) : i \in 1..Len(models[t]) \/ i = Len(seq)
    <3>1. Len(models[t]) \in Nat
      BY <1>6
    <3> QED
      BY <1>7, <3>1
  <2> QED
    BY <1>3, <1>6, <1>7, <2>1
<1>9. /\ marked \in Seq(Model) /\ Len(marked) = Len(seq)
      /\ \A i \in 1..Len(seq) : marked[i].provider = seq[i].provider
      /\ \A i \in 1..Len(marked) : KnownModel(first, marked[i])
  BY <1>7, <1>8, MarkedKnown
<1> HIDE DEF marked
<1>10. Sound(new, ds, <<>>) /\ new[t] = marked /\ \A u \in Type \ {t} : new[u] = models[u]
  BY <1>5, <1>9, ChangeIsSound
<1> HIDE DEF new
<1>11. ASSUME NEW u \in Type, Hangs(new, ds, u) PROVE Hangs(models, defaults, u)
  <2>1. CASE u # t
    BY <1>5, <1>10, <1>11, <2>1 DEF Hangs
  <2>2. CASE u = t
    <3>1. DOMAIN marked = 1..Len(seq) /\ Len(models[t]) \in Nat
      BY <1>6, <1>9
    <3>2. \A i \in 1..Len(seq) : seq[i].provider # ds[t]
      BY <1>9, <1>10, <1>11, <2>2, <3>1 DEF Hangs
    <3>3. v.provider # ds[t]
      BY <1>7, <3>1, <3>2
    <3>4. t \in DOMAIN defaults /\ ds[t] = defaults[t]
      BY <1>5, <3>3
    <3>5. \A i \in DOMAIN models[t] : models[t][i].provider # defaults[t]
      BY <1>6, <1>7, <3>1, <3>2, <3>4
    <3> QED
      BY <2>2, <3>4, <3>5 DEF Hangs
  <2> QED
    BY <2>1, <2>2
<1> QED
  BY <1>2, <1>10, <1>11 DEF StaysListed

LEMMA EditIsSound ==
    ASSUME ConfigInv, NEW t \in Type, NEW i \in DOMAIN models[t], EditModel(t, i)
    PROVE  \E ms, ds, e : /\ Save(ms, ds, e) /\ Sound(ms, ds, e)
                          /\ \A u \in Type \ {t} : Hangs(ms, ds, u) => Hangs(models, defaults, u)
<1>1. PICK m \in DialogModels(t) :
        Save(ReplaceModel(models, t, i, m), defaults,
             IF "api_key" \in DOMAIN m.params THEN <<t, i, m.params["api_key"]>> ELSE <<>>)
  BY DEF EditModel
<1> DEFINE e == IF "api_key" \in DOMAIN m.params THEN <<t, i, m.params["api_key"]>> ELSE <<>>
           v == Validated(m)
           seq == [models[t] EXCEPT ![i] = v]
           new == [models EXCEPT ![t] = seq]
<1>2. /\ v \in Model /\ KnownModel(first, v) /\ DOMAIN v.params = {"Model"} \cup DOMAIN m.params
      /\ \A k \in DOMAIN m.params : v.params[k] = m.params[k]
  BY DialogIs, ValidatedIs DEF ConfigInv
<1>3. /\ models[t] \in Seq(Model) /\ DOMAIN models[t] = 1..Len(models[t])
      /\ \A j \in DOMAIN models[t] : KnownModel(first, models[t][j])
  BY OwnModels
<1>4. ReplaceModel(models, t, i, m) = new
  BY <1>3 DEF ReplaceModel, ConfigInv, ToolOk, ModelsOk
<1> HIDE DEF v
<1>5. /\ seq \in Seq(Model) /\ DOMAIN seq = DOMAIN models[t] /\ DOMAIN seq = 1..Len(seq)
      /\ seq[i] = v /\ \A j \in DOMAIN models[t] \ {i} : seq[j] = models[t][j]
  BY <1>2, <1>3
<1> HIDE DEF seq
<1>6. \A j \in 1..Len(seq) : KnownModel(first, seq[j])
  BY <1>2, <1>3, <1>5
<1>7. DefaultsOk(defaults)
  BY DEF ConfigInv, ToolOk
<1>8. Sound(new, defaults, <<>>) /\ new[t] = seq /\ \A u \in Type \ {t} : new[u] = models[u]
  BY <1>5, <1>6, <1>7, ChangeIsSound
<1> HIDE DEF new
<1>9. EditFits(new, e)
  <2>1. ASSUME "api_key" \in DOMAIN m.params
        PROVE  /\ i \in DOMAIN new[t] /\ "api_key" \in DOMAIN new[t][i].params
               /\ e = <<t, i, new[t][i].params["api_key"]>>
    BY <1>2, <1>5, <1>8, <2>1
  <2>2. "api_key" \notin DOMAIN m.params => e = <<>>
    OBVIOUS
  <2> HIDE DEF e
  <2> QED
    BY <2>1, <2>2 DEF EditFits
<1>10. Save(new, defaults, e)
  BY <1>1, <1>4
<1>11. Sound(new, defaults, e)
  BY <1>8, <1>9 DEF Sound
<1>12. \A u \in Type \ {t} : Hangs(new, defaults, u) => Hangs(models, defaults, u)
  BY <1>8 DEF Hangs
<1> HIDE DEF e
<1> QED
  BY <1>10, <1>11, <1>12

LEMMA DeleteIsSound ==
    ASSUME ConfigInv, NEW t \in Type, NEW i \in DOMAIN models[t], DeleteModel(t, i)
    PROVE  \E ms, ds : Save(ms, ds, <<>>) /\ Sound(ms, ds, <<>>) /\ StaysListed(ms, ds)
<1> DEFINE gone == models[t][i].provider
           left == RemoveAt(models[t], i)
           orphaned == /\ t \in DOMAIN defaults /\ defaults[t] = gone
                       /\ \A j \in DOMAIN left : left[j].provider # gone
           ds == IF orphaned THEN NextDefault(defaults, t, left) ELSE defaults
           seq == IF orphaned /\ left # <<>> THEN WithMarks(left, ds, t) ELSE left
           new == [models EXCEPT ![t] = seq]
<1>1. Save(new, ds, <<>>)
  BY DEF DeleteModel
<1>2. /\ models[t] \in Seq(Model) /\ DOMAIN models[t] = 1..Len(models[t])
      /\ \A j \in DOMAIN models[t] : KnownModel(first, models[t][j])
  BY OwnModels
<1>3. left \in Seq(Model) /\ Elems(left) = {models[t][j] : j \in (1..Len(models[t])) \ {i}}
  BY <1>2, RemovedIs
<1> HIDE DEF left
<1>4. /\ DOMAIN left = 1..Len(left) /\ \A j \in 1..Len(left) : left[j] \in Elems(left)
      /\ \A m \in Elems(left) : \E j \in 1..Len(left) : m = left[j]
  BY <1>3 DEF Elems
<1>5. \A j \in 1..Len(left) : KnownModel(first, left[j]) /\ left[j].provider \in Provider
  <2>1. \A m \in Elems(left) : m \in Model /\ KnownModel(first, m)
    BY <1>2, <1>3, ElemsTyped
  <2> QED
    BY <1>4, <2>1, ModelFields
<1>6. DefaultsOk(defaults)
  BY DEF ConfigInv, ToolOk
<1>7. /\ DefaultsOk(ds) /\ \A u \in DOMAIN ds \ {t} : u \in DOMAIN defaults /\ ds[u] = defaults[u]
      /\ ~orphaned => ds = defaults
      /\ orphaned /\ t \in DOMAIN ds => left # <<>> /\ ds[t] = left[1].provider
  <2>1. left # <<>> => 1 \in 1..Len(left)
    BY <1>3
  <2> HIDE DEF orphaned
  <2>2. CASE ~orphaned
    BY <1>6, <2>2
  <2>3. CASE orphaned /\ left = <<>>
    <3>1. ds = WithoutDefault(defaults, t)
      BY <2>3 DEF NextDefault
    <3>3. TakenFrom(ds, defaults, t)
      <4> HIDE DEF ds
      <4> QED
        BY <1>6, <3>1, DefaultTaken
    <3> HIDE DEF ds
    <3> QED
      BY <2>3, <3>3 DEF TakenFrom
  <2>4. CASE orphaned /\ left # <<>>
    <3>1. ds = WithDefault(defaults, t, left[1].provider) /\ left[1].provider \in Provider
      BY <1>5, <2>1, <2>4 DEF NextDefault
    <3>2. GivenTo(ds, defaults, t, left[1].provider)
      <4> HIDE DEF ds
      <4> QED
        BY <1>6, <3>1, DefaultGiven
    <3> HIDE DEF ds
    <3> QED
      BY <2>4, <3>2 DEF GivenTo
  <2> QED
    BY <2>2, <2>3, <2>4
<1> HIDE DEF ds
<1>8. /\ seq \in Seq(Model) /\ Len(seq) = Len(left)
      /\ \A j \in 1..Len(left) : seq[j].provider = left[j].provider
      /\ \A j \in 1..Len(seq) : KnownModel(first, seq[j])
  <2> HIDE DEF orphaned
  <2>1. CASE orphaned /\ left # <<>>
    <3>1. seq = WithMarks(left, ds, t)
      BY <2>1
    <3>2. \A j \in 1..Len(left) : KnownModel(first, left[j])
      BY <1>5
    <3> DEFINE w == WithMarks(left, ds, t)
    <3>3. /\ w \in Seq(Model) /\ Len(w) = Len(left)
          /\ \A j \in 1..Len(left) : w[j].provider = left[j].provider
          /\ \A j \in 1..Len(w) : KnownModel(first, w[j])
      BY <1>3, <3>2, MarkedKnown
    <3> HIDE DEF seq, w
    <3> QED
      BY <3>1, <3>3 DEF w
  <2>2. CASE ~(orphaned /\ left # <<>>)
    <3>1. seq = left
      BY <2>2
    <3> QED
      BY <1>3, <1>5, <3>1
  <2> QED
    BY <2>1, <2>2
<1>9. DOMAIN seq = 1..Len(left)
  BY <1>8
<1> HIDE DEF seq
<1>10. Sound(new, ds, <<>>) /\ new[t] = seq /\ \A u \in Type \ {t} : new[u] = models[u]
  BY <1>7, <1>8, ChangeIsSound
<1> HIDE DEF new
<1>11. ASSUME NEW u \in Type, Hangs(new, ds, u) PROVE Hangs(models, defaults, u)
  <2>1. CASE u # t
    BY <1>7, <1>10, <1>11, <2>1 DEF Hangs
  <2>2. CASE u = t
    <3>1. t \in DOMAIN ds /\ \A j \in 1..Len(left) : left[j].provider # ds[t]
      BY <1>8, <1>9, <1>10, <1>11, <2>2 DEF Hangs
    <3>2. ~orphaned
      <4>1. left # <<>> => 1 \in 1..Len(left)
        BY <1>3
      <4> HIDE DEF orphaned
      <4> QED
        BY <1>7, <3>1, <4>1
    <3>3. ds = defaults
      <4> HIDE DEF orphaned
      <4> QED
        BY <1>7, <3>2
    <3>4. \A m \in Elems(left) : m.provider # defaults[t]
      BY <1>4, <3>1, <3>3
    <3>5. gone # defaults[t]
      BY <1>4, <3>1, <3>2, <3>3
    <3>6. \A j \in DOMAIN models[t] : models[t][j].provider # defaults[t]
      BY <1>2, <1>3, <3>4, <3>5
    <3> QED
      BY <2>2, <3>1, <3>3, <3>6 DEF Hangs
  <2> QED
    BY <2>1, <2>2
<1> QED
  BY <1>1, <1>10, <1>11 DEF StaysListed

LEMMA DefaultIsSound ==
    ASSUME ConfigInv, NEW t \in Type, NEW i \in DOMAIN models[t], SetAsDefaultModel(t, i)
    PROVE  \E ms, ds : Save(ms, ds, <<>>) /\ Sound(ms, ds, <<>>) /\ StaysListed(ms, ds)
<1> DEFINE ds == WithDefault(defaults, t, models[t][i].provider)
           seq == WithMarks(models[t], ds, t)
           new == [models EXCEPT ![t] = seq]
<1>1. Save(new, ds, <<>>)
  BY DEF SetAsDefaultModel
<1>2. /\ models[t] \in Seq(Model) /\ DOMAIN models[t] = 1..Len(models[t])
      /\ \A j \in DOMAIN models[t] : KnownModel(first, models[t][j]) /\ models[t][j].provider \in Provider
  BY OwnModels
<1>3. /\ DefaultsOk(ds) /\ ds[t] = models[t][i].provider
      /\ DOMAIN ds = {t} \cup DOMAIN defaults /\ \A u \in DOMAIN defaults \ {t} : ds[u] = defaults[u]
  <2>1. DefaultsOk(defaults) /\ models[t][i].provider \in Provider
    BY <1>2 DEF ConfigInv, ToolOk
  <2>2. GivenTo(ds, defaults, t, models[t][i].provider)
    BY <2>1, DefaultGiven
  <2> HIDE DEF ds
  <2> QED
    BY <2>2 DEF GivenTo
<1> HIDE DEF ds
<1>4. /\ seq \in Seq(Model) /\ Len(seq) = Len(models[t])
      /\ \A j \in 1..Len(models[t]) : seq[j].provider = models[t][j].provider
      /\ \A j \in 1..Len(seq) : KnownModel(first, seq[j])
  BY <1>2, MarkedKnown
<1> HIDE DEF seq
<1>5. Sound(new, ds, <<>>) /\ new[t] = seq /\ \A u \in Type \ {t} : new[u] = models[u]
  BY <1>3, <1>4, ChangeIsSound
<1> HIDE DEF new
<1>6. ~Hangs(new, ds, t)
  <2>1. i \in DOMAIN seq /\ seq[i].provider = ds[t]
    BY <1>2, <1>3, <1>4
  <2> QED
    BY <1>5, <2>1 DEF Hangs
<1>7. \A u \in Type \ {t} : Hangs(new, ds, u) => Hangs(models, defaults, u)
  BY <1>3, <1>5 DEF Hangs
<1> QED
  BY <1>1, <1>5, <1>6, <1>7 DEF StaysListed

-----------------------------------------------------------------------------
(* What a provider makes of a content.                                     *)

LEMMA InfoIs ==
    ASSUME NEW c, IsContent(c), NEW p \in Provider, NEW t \in Type
    PROVE  LET info == GetProviderConfig(c, p, t)
           IN  /\ SupportsInterface(c, p, t) =>
                    "Model" \in DOMAIN info /\ info["Model"] = c.providers[p].models[t]
               /\ "api_url" \in DOMAIN info => info["api_url"] = "url"
<1> DEFINE info == GetProviderConfig(c, p, t)
           keys == c.providers[p].keys
           named == IF SupportsInterface(c, p, t) THEN {"Model"} ELSE {}
<1>1. CASE p \notin DOMAIN c.providers
  <2>1. DOMAIN info = {} /\ ~SupportsInterface(c, p, t)
    BY <1>1 DEF GetProviderConfig, NoParams, SupportsInterface
  <2> HIDE DEF info
  <2> QED
    BY <2>1 DEF info
<1>2. CASE p \in DOMAIN c.providers
  <2>1. info = [k \in named \cup DOMAIN keys |->
                    IF k \in named THEN c.providers[p].models[t] ELSE keys[k]]
    BY <1>2 DEF GetProviderConfig, ModelOfType
  <2>2. "api_url" \in DOMAIN keys => keys["api_url"] = "url"
    BY <1>2, ContentIs DEF TextOf
  <2>3. "api_url" \notin named /\ (SupportsInterface(c, p, t) => "Model" \in named)
    OBVIOUS
  <2> HIDE DEF info, named, keys
  <2> QED
    BY <2>1, <2>2, <2>3 DEF info
<1> QED
  BY <1>1, <1>2

\* The interface of a provider that has the model is of that model, and a key
\* is its address only for openai's function calling.
RightInterface(i, c, p, t) ==
    /\ i = Interface(i.model, i.key, i.url)
    /\ SupportsInterface(c, p, t) => i.model = c.providers[p].models[t]
    /\ i.url \in KeyText => p = "openai" /\ t = "FunctionCalling"

LEMMA RightFields ==
    ASSUME NEW c, NEW p, NEW t, NEW model, NEW key, NEW url, NEW i, i = Interface(model, key, url),
           SupportsInterface(c, p, t) => model = c.providers[p].models[t],
           url \in KeyText => p = "openai" /\ t = "FunctionCalling"
    PROVE  RightInterface(i, c, p, t)
<1>1. i.model = model /\ i.key = key /\ i.url = url
  BY DEF Interface
<1> QED
  BY <1>1 DEF RightInterface

LEMMA InterfaceIs ==
    ASSUME NEW c, IsContent(c), NEW p \in Provider, NEW t \in Type, CreateInterface(p, t, c) # NoInterface
    PROVE  RightInterface(CreateInterface(p, t, c), c, p, t)
<1> DEFINE made == CreateInterface(p, t, c)
           info == GetProviderConfig(c, p, t)
           named(other) == ValueOr(info, "Model", other)
           key == ValueOr(info, "api_key", "")
           url == ValueOr(info, "api_url", "")
<1>1. /\ SupportsInterface(c, p, t) =>
            "Model" \in DOMAIN info /\ info["Model"] = c.providers[p].models[t]
      /\ "api_url" \in DOMAIN info => info["api_url"] = "url"
  BY InfoIs
<1>2. "" \notin KeyText /\ (url \in KeyText => p = "openai" /\ t = "FunctionCalling")
  <2> HIDE DEF info
  <2> QED
    BY <1>1, NamesApart DEF ValueOr
<1>3. \A other : SupportsInterface(c, p, t) => named(other) = c.providers[p].models[t]
  <2> HIDE DEF info
  <2> QED
    BY <1>1 DEF ValueOr
<1>4. CASE p = "openai"
  <2>1. made = OpenAIInterface(t, info)
    BY <1>4 DEF CreateInterface
  <2>2. t \in {"Chat", "FunctionCalling"}
    BY <2>1 DEF OpenAIInterface
  <2>3. CASE t = "Chat"
    <3>1. made = Interface(named(""), key, url)
      BY <2>1, <2>3 DEF OpenAIInterface
    <3> HIDE DEF made, named, key, url
    <3>2. SupportsInterface(c, p, t) => named("") = c.providers[p].models[t]
      BY <1>3
    <3>3. RightInterface(made, c, p, t)
      BY <1>2, <3>1, <3>2, RightFields
    <3> QED
      BY <3>3 DEF made
  <2>4. CASE t = "FunctionCalling"
    <3>1. made = Interface(named(""), url, key)
      BY <2>1, <2>4 DEF OpenAIInterface
    <3> HIDE DEF made, named, key, url
    <3>2. SupportsInterface(c, p, t) => named("") = c.providers[p].models[t]
      BY <1>3
    <3>3. key \in KeyText => p = "openai" /\ t = "FunctionCalling"
      BY <1>4, <2>4
    <3>4. RightInterface(made, c, p, t)
      BY <3>1, <3>2, <3>3, RightFields
    <3> QED
      BY <3>4 DEF made
  <2> QED
    BY <2>2, <2>3, <2>4
<1>5. CASE p = "ernie"
  <2>1. made = ErnieInterface(t, info)
    BY <1>5 DEF CreateInterface
  <2>2. made = Interface(named("ERNIE-Lite-8K"), key, url)
    BY <2>1 DEF ErnieInterface
  <2> HIDE DEF made, named, key, url
  <2>3. SupportsInterface(c, p, t) => named("ERNIE-Lite-8K") = c.providers[p].models[t]
    BY <1>3
  <2>4. RightInterface(made, c, p, t)
    BY <1>2, <2>2, <2>3, RightFields
  <2> QED
    BY <2>4 DEF made
<1>6. CASE p = "doubao"
  <2>1. made = DoubaoInterface(t, info)
    BY <1>6 DEF CreateInterface
  <2>2. made = Interface(named(""), key, url)
    BY <2>1 DEF DoubaoInterface
  <2> HIDE DEF made, named, key, url
  <2>3. SupportsInterface(c, p, t) => named("") = c.providers[p].models[t]
    BY <1>3
  <2>4. RightInterface(made, c, p, t)
    BY <1>2, <2>2, <2>3, RightFields
  <2> QED
    BY <2>4 DEF made
<1>7. CASE p = "modelhub"
  <2>1. made = ModelhubInterface(t, info)
    BY <1>7 DEF CreateInterface
  <2>2. made = Interface(info["Model"], "", "")
    BY <2>1 DEF ModelhubInterface
  <2> HIDE DEF made, info
  <2>3. SupportsInterface(c, p, t) => info["Model"] = c.providers[p].models[t]
    BY <1>1
  <2>4. "" \in KeyText => p = "openai" /\ t = "FunctionCalling"
    BY <1>2
  <2>5. RightInterface(made, c, p, t)
    BY <2>2, <2>3, <2>4, RightFields
  <2> QED
    BY <2>5 DEF made
<1> QED
  BY Orders, <1>4, <1>5, <1>6, <1>7

LEMMA CurrentIsUsed ==
    ASSUME ConfigInv
    PROVE  CurrentModelIsUsed
<1> SUFFICES ASSUME NEW t \in Type, GetCurrentModelForCapability(file.content, t) # NoName,
                    CreateInterface(GetDefaultProvider(file.content, t), t, file.content) # NoInterface
             PROVE  CreateInterface(GetDefaultProvider(file.content, t), t, file.content).model =
                        GetCurrentModelForCapability(file.content, t)
  BY DEF CurrentModelIsUsed
<1> DEFINE c == file.content
           p == GetDefaultProvider(c, t)
<1>1. IsContent(c)
  BY DEF ConfigInv, FileOk
<1>2. SupportsInterface(c, p, t) /\ GetCurrentModelForCapability(c, t) = c.providers[p].models[t]
  BY DEF GetCurrentModelForCapability, GetModelName
<1>3. p \in Provider
  BY <1>1, <1>2, ContentIs DEF SupportsInterface
<1> HIDE DEF c, p
<1>4. CreateInterface(p, t, c) # NoInterface
  BY DEF c, p
<1>5. CreateInterface(p, t, c).model = c.providers[p].models[t]
  BY <1>1, <1>2, <1>3, <1>4, InterfaceIs DEF RightInterface
<1> QED
  BY <1>2, <1>5 DEF c, p

-----------------------------------------------------------------------------
(* The lists of the information service.                                   *)

ModelTypes(c, p) == IF p \in DOMAIN c.providers THEN DOMAIN c.providers[p].models ELSE {}
Object(c, p, t) == ModelObject(p, t, c.providers[p].models[t])
Objects(c) == UNION {{Object(c, p, t) : t \in ModelTypes(c, p)} : p \in Provider}

LEMMA ObjectIs ==
    ASSUME NEW c, NEW p, NEW t
    PROVE  /\ Object(c, p, t).provider = p /\ Object(c, p, t).capability = t
           /\ Object(c, p, t).name = c.providers[p].models[t]
BY DEF Object, ModelObject

LEMMA OwnAre ==
    ASSUME NEW c, IsContent(c), NEW p \in Provider
    PROVE  /\ ModelsOf(c, p) \in Seq(Objects(c))
           /\ Elems(ModelsOf(c, p)) = {Object(c, p, t) : t \in ModelTypes(c, p)}
           /\ Distinct(ModelsOf(c, p))
<1>1. CASE p \notin DOMAIN c.providers
  <2>1. ModelsOf(c, p) = <<>> /\ ModelTypes(c, p) = {}
    BY <1>1 DEF ModelsOf, ModelTypes
  <2> QED
    BY <2>1, EmptyElems, EmptyIsThere
<1>2. CASE p \in DOMAIN c.providers
  <2> DEFINE types == Filtered(TypeOrder, DOMAIN c.providers[p].models)
             own == ModelsOf(c, p)
  <2>1. types \in Seq(Type) /\ Elems(types) = Type \cap DOMAIN c.providers[p].models /\ Distinct(types)
    BY Orders, FilteredIs
  <2>2. Elems(types) = ModelTypes(c, p)
    BY <1>2, <2>1, ContentIs DEF ModelTypes
  <2>3. DOMAIN types = 1..Len(types) /\ Len(types) \in Nat
    BY <2>1
  <2>4. own = [i \in DOMAIN types |-> Object(c, p, types[i])]
    BY <1>2 DEF ModelsOf, Object
  <2> HIDE DEF own, types
  <2>5. \A i \in 1..Len(types) : types[i] \in ModelTypes(c, p)
    BY <2>2 DEF Elems
  <2>6. \A i \in 1..Len(types) : Object(c, p, types[i]) \in Objects(c)
    BY <2>5 DEF Objects
  <2>7. own \in Seq(Objects(c)) /\ Len(own) = Len(types) /\ \A i \in 1..Len(types) : own[i] = Object(c, p, types[i])
    BY <2>3, <2>4, <2>6
  <2>8. Elems(own) = {Object(c, p, t) : t \in Elems(types)}
    BY <2>7 DEF Elems
  <2>9. Distinct(own)
    BY <2>1, <2>7, ObjectIs DEF Distinct
  <2> QED
    BY <2>2, <2>7, <2>8, <2>9 DEF own
<1> QED
  BY <1>1, <1>2

LEMMA OwnObjects ==
    ASSUME NEW c, IsContent(c), NEW p \in Provider
    PROVE  \A m : m \in Elems(ModelsOf(c, p)) <=> m \in Objects(c) /\ m.provider = p
<1> TAKE m
<1>1. Elems(ModelsOf(c, p)) = {Object(c, p, t) : t \in ModelTypes(c, p)}
  BY OwnAre
<1>2. ASSUME m \in Elems(ModelsOf(c, p)) PROVE m \in Objects(c) /\ m.provider = p
  <2>1. PICK t \in ModelTypes(c, p) : m = Object(c, p, t)
    BY <1>1, <1>2
  <2> QED
    BY <2>1, ObjectIs DEF Objects
<1>3. ASSUME m \in Objects(c), m.provider = p PROVE m \in Elems(ModelsOf(c, p))
  <2>1. PICK q \in Provider : m \in {Object(c, q, t) : t \in ModelTypes(c, q)}
    BY <1>3 DEF Objects
  <2>2. PICK t \in ModelTypes(c, q) : m = Object(c, q, t)
    BY <2>1
  <2>3. q = p
    BY <1>3, <2>2, ObjectIs
  <2> QED
    BY <1>1, <2>2, <2>3
<1> QED
  BY <1>2, <1>3

\* What is made of every provider's list, one behind the other.
Along(ss, T, row) ==
    /\ ss \in Seq(Seq(T)) /\ Len(ss) = Len(ProviderOrder)
    /\ \A i \in 1..Len(ss) : ss[i] = row[ProviderOrder[i]]
    /\ FlattenSeq(ss) \in Seq(T)
    /\ Elems(FlattenSeq(ss)) = UNION {Elems(row[p]) : p \in Provider}

LEMMA AlongProviders ==
    ASSUME NEW T, NEW row, \A p \in Provider : row[p] \in Seq(T)
    PROVE  Along([i \in DOMAIN ProviderOrder |-> row[ProviderOrder[i]]], T, row)
<1> DEFINE N == Len(ProviderOrder)
           ss == [i \in DOMAIN ProviderOrder |-> row[ProviderOrder[i]]]
<1>1. N \in Nat /\ DOMAIN ProviderOrder = 1..N /\ \A i \in 1..N : ProviderOrder[i] \in Provider
  BY Orders
<1>2. Provider = {ProviderOrder[i] : i \in 1..N}
  BY Orders DEF Elems
<1>3. ss = [i \in 1..N |-> row[ProviderOrder[i]]]
  BY <1>1
<1> HIDE DEF ss, N
<1>4. ss \in Seq(Seq(T)) /\ Len(ss) = N /\ \A i \in 1..N : ss[i] = row[ProviderOrder[i]]
  BY <1>1, <1>3
<1>5. FlattenSeq(ss) \in Seq(T) /\ Elems(FlattenSeq(ss)) = UNION {Elems(ss[i]) : i \in 1..Len(ss)}
  BY <1>4, FlattenedIs
<1>6. {Elems(ss[i]) : i \in 1..N} = {Elems(row[p]) : p \in Provider}
  <2>1. \A i \in 1..N : Elems(ss[i]) = Elems(row[ProviderOrder[i]])
    BY <1>4
  <2>2. {Elems(ss[i]) : i \in 1..N} = {Elems(row[ProviderOrder[i]]) : i \in 1..N}
    BY <2>1
  <2>3. ASSUME NEW p \in Provider PROVE \E i \in 1..N : Elems(row[p]) = Elems(row[ProviderOrder[i]])
    <3>1. PICK i \in 1..N : p = ProviderOrder[i]
      BY <1>2
    <3> QED
      BY <3>1
  <2>4. {Elems(row[ProviderOrder[i]]) : i \in 1..N} = {Elems(row[p]) : p \in Provider}
    BY <1>1, <2>3
  <2> QED
    BY <2>2, <2>4
<1>7. UNION {Elems(ss[i]) : i \in 1..Len(ss)} = UNION {Elems(row[p]) : p \in Provider}
  BY <1>4, <1>6
<1>8. Along(ss, T, row)
  BY <1>4, <1>5, <1>7 DEF Along, N
<1> QED
  BY <1>8 DEF ss

LEMMA AllAre ==
    ASSUME NEW c, IsContent(c)
    PROVE  GetAllModels(c) \in Seq(Objects(c)) /\ Elems(GetAllModels(c)) = Objects(c) /\ Distinct(GetAllModels(c))
<1> DEFINE row == [p \in Provider |-> ModelsOf(c, p)]
           ss == [i \in DOMAIN ProviderOrder |-> row[ProviderOrder[i]]]
<1>1. \A p \in Provider : /\ row[p] \in Seq(Objects(c)) /\ Distinct(row[p])
                          /\ Elems(row[p]) = {Object(c, p, t) : t \in ModelTypes(c, p)}
  BY OwnAre
<1>2. GetAllModels(c) = FlattenSeq(ss)
  <2>1. \A i \in DOMAIN ProviderOrder : ProviderOrder[i] \in Provider
    BY Orders
  <2>2. ss = [i \in DOMAIN ProviderOrder |-> ModelsOf(c, ProviderOrder[i])]
    BY <2>1
  <2> QED
    BY <2>2 DEF GetAllModels
<1>3. \A p \in Provider : row[p] = ModelsOf(c, p)
  OBVIOUS
<1> HIDE DEF row
<1>4. Along(ss, Objects(c), row)
  BY <1>1, AlongProviders
<1> HIDE DEF ss
<1>5. /\ ss \in Seq(Seq(Objects(c))) /\ Len(ss) = Len(ProviderOrder)
      /\ \A i \in 1..Len(ss) : ss[i] = row[ProviderOrder[i]]
      /\ FlattenSeq(ss) \in Seq(Objects(c))
      /\ Elems(FlattenSeq(ss)) = UNION {Elems(row[p]) : p \in Provider}
  BY <1>4 DEF Along
<1>6. {Elems(row[p]) : p \in Provider} = {{Object(c, p, t) : t \in ModelTypes(c, p)} : p \in Provider}
  BY <1>1
<1>7. Elems(FlattenSeq(ss)) = Objects(c)
  BY <1>5, <1>6 DEF Objects
<1>8. \A i \in 1..Len(ss) : ProviderOrder[i] \in Provider
  BY <1>5, Orders
<1>9. \A i, j \in 1..Len(ss) : ProviderOrder[i] = ProviderOrder[j] => i = j
  BY <1>5, Orders DEF Distinct
<1>10. ASSUME NEW i \in 1..Len(ss), NEW j \in 1..Len(ss), i # j
      PROVE  Elems(ss[i]) \cap Elems(ss[j]) = {}
  <2>1. /\ ss[i] = ModelsOf(c, ProviderOrder[i]) /\ ProviderOrder[i] \in Provider
        /\ ss[j] = ModelsOf(c, ProviderOrder[j]) /\ ProviderOrder[j] \in Provider
    BY <1>3, <1>5, <1>8
  <2>2. \A m \in Elems(ss[i]) : m.provider = ProviderOrder[i]
    BY <2>1, OwnObjects
  <2>3. \A m \in Elems(ss[j]) : m.provider = ProviderOrder[j]
    BY <2>1, OwnObjects
  <2>4. ProviderOrder[i] # ProviderOrder[j]
    BY <1>9, <1>10
  <2> QED
    BY <2>2, <2>3, <2>4
<1>11. Apart(ss)
  BY <1>1, <1>5, <1>8, <1>10 DEF Apart
<1> QED
  BY <1>2, <1>5, <1>7, <1>11, FlattenedIs

LEMMA OfNameIs ==
    ASSUME NEW T, NEW s \in Seq(T), NEW name
    PROVE  /\ OfName(s, name) \in Seq(T) /\ Elems(OfName(s, name)) = {m \in Elems(s) : m.name = name}
           /\ Distinct(s) => Distinct(OfName(s, name))
<1>1. Range(s) = Elems(s)
  BY SameWords
<1> DEFINE S == {m \in Range(s) : m.name = name}
<1>2. Elems(s) \cap S = {m \in Elems(s) : m.name = name}
  BY <1>1
<1>3. OfName(s, name) = Filtered(s, S)
  BY DEF OfName
<1> HIDE DEF S
<1> QED
  BY <1>2, <1>3, FilteredIs

LEMMA OfCapabilityIs ==
    ASSUME NEW T, NEW s \in Seq(T), NEW t
    PROVE  OfCapability(s, t) \in Seq(T) /\ Elems(OfCapability(s, t)) = {m \in Elems(s) : m.capability = t}
<1>1. Range(s) = Elems(s)
  BY SameWords
<1> DEFINE S == {m \in Range(s) : m.capability = t}
<1>2. Elems(s) \cap S = {m \in Elems(s) : m.capability = t}
  BY <1>1
<1>3. OfCapability(s, t) = Filtered(s, S)
  BY DEF OfCapability
<1> HIDE DEF S
<1> QED
  BY <1>2, <1>3, FilteredIs

LEMMA PerCapability ==
    ASSUME NEW c, IsContent(c), NEW t
    PROVE  Range(GetModelsForCapability(c, t)) = {m \in Objects(c) : m.capability = t}
<1> DEFINE row == [p \in Provider |-> OfCapability(ModelsOf(c, p), t)]
           ss == [i \in DOMAIN ProviderOrder |-> row[ProviderOrder[i]]]
<1>1. \A p \in Provider : /\ row[p] \in Seq(Objects(c))
                          /\ Elems(row[p]) = {m \in Elems(ModelsOf(c, p)) : m.capability = t}
  BY OwnAre, OfCapabilityIs
<1>2. GetModelsForCapability(c, t) = FlattenSeq(ss)
  <2>1. \A i \in DOMAIN ProviderOrder : ProviderOrder[i] \in Provider
    BY Orders
  <2>2. ss = [i \in DOMAIN ProviderOrder |-> OfCapability(ModelsOf(c, ProviderOrder[i]), t)]
    BY <2>1
  <2> QED
    BY <2>2 DEF GetModelsForCapability
<1> HIDE DEF row
<1>3. Along(ss, Objects(c), row)
  BY <1>1, AlongProviders
<1> HIDE DEF ss
<1>4. FlattenSeq(ss) \in Seq(Objects(c)) /\ Elems(FlattenSeq(ss)) = UNION {Elems(row[p]) : p \in Provider}
  BY <1>3 DEF Along
<1>5. ASSUME NEW m
      PROVE  m \in UNION {Elems(row[p]) : p \in Provider} <=> m \in Objects(c) /\ m.capability = t
  <2>1. \A p \in Provider : m \in Elems(row[p]) <=> m \in Objects(c) /\ m.provider = p /\ m.capability = t
    BY <1>1, OwnObjects
  <2>2. m \in Objects(c) => m.provider \in Provider
    BY ObjectIs DEF Objects
  <2> QED
    BY <2>1, <2>2
<1>6. Range(FlattenSeq(ss)) = Elems(FlattenSeq(ss))
  BY <1>4, SameWords
<1> QED
  BY <1>2, <1>4, <1>5, <1>6

LEMMA PerProvider ==
    ASSUME NEW c, IsContent(c), NEW p \in Provider
    PROVE  LET own == GetModelsForProvider(c, p)
           IN  /\ Range(own) = {m \in Objects(c) : m.provider = p}
               /\ ~IsInjective(own) => \E m, n \in Range(own) : m # n /\ m.name = n.name
<1> DEFINE s == ModelsOf(c, p)
           ss == [i \in DOMAIN s |-> OfName(s, s[i].name)]
<1>1. s \in Seq(Objects(c)) /\ Distinct(s)
  BY OwnAre
<1>2. \A m : m \in Elems(s) <=> m \in Objects(c) /\ m.provider = p
  BY OwnObjects
<1>3. GetModelsForProvider(c, p) = FlattenSeq(ss)
  BY DEF GetModelsForProvider
<1> HIDE DEF s
<1>4. \A name : /\ OfName(s, name) \in Seq(Objects(c)) /\ Distinct(OfName(s, name))
                /\ Elems(OfName(s, name)) = {m \in Elems(s) : m.name = name}
  BY <1>1, OfNameIs
<1>5. Len(s) \in Nat /\ ss = [i \in 1..Len(s) |-> OfName(s, s[i].name)]
  BY <1>1
<1> HIDE DEF ss
<1>6. ss \in Seq(Seq(Objects(c))) /\ Len(ss) = Len(s) /\ \A i \in 1..Len(s) : ss[i] = OfName(s, s[i].name)
  BY <1>4, <1>5
<1>7. /\ FlattenSeq(ss) \in Seq(Objects(c)) /\ (Apart(ss) => Distinct(FlattenSeq(ss)))
      /\ Elems(FlattenSeq(ss)) = UNION {Elems(ss[i]) : i \in 1..Len(ss)}
  BY <1>6, FlattenedIs
<1>8. UNION {Elems(ss[i]) : i \in 1..Len(ss)} = Elems(s)
  <2>1. \A i \in 1..Len(ss) : Elems(ss[i]) \subseteq Elems(s)
    BY <1>4, <1>6
  <2>2. ASSUME NEW m \in Elems(s) PROVE \E i \in 1..Len(ss) : m \in Elems(ss[i])
    <3>1. PICK i \in 1..Len(s) : m = s[i]
      BY DEF Elems
    <3>2. m \in Elems(ss[i])
      BY <1>4, <1>6, <3>1
    <3> QED
      BY <1>6, <3>2
  <2> QED
    BY <2>1, <2>2
<1>9. Range(FlattenSeq(ss)) = Elems(s) /\ (IsInjective(FlattenSeq(ss)) <=> Distinct(FlattenSeq(ss)))
  BY <1>7, <1>8, SameWords
<1>10. ASSUME ~Apart(ss) PROVE \E m, n \in Elems(s) : m # n /\ m.name = n.name
  <2>1. \A i \in 1..Len(ss) : Distinct(ss[i])
    BY <1>4, <1>6
  <2>2. PICK i \in 1..Len(ss), j \in 1..Len(ss) : i # j /\ Elems(ss[i]) \cap Elems(ss[j]) # {}
    BY <1>10, <2>1 DEF Apart
  <2>3. PICK x : x \in Elems(ss[i]) /\ x \in Elems(ss[j])
    BY <2>2
  <2>4. x.name = s[i].name /\ x.name = s[j].name
    BY <1>4, <1>6, <2>3
  <2>5. s[i] # s[j] /\ s[i] \in Elems(s) /\ s[j] \in Elems(s)
    BY <1>1, <1>6, <2>2 DEF Distinct, Elems
  <2> QED
    BY <2>4, <2>5
<1> QED
  BY <1>2, <1>3, <1>7, <1>9, <1>10

LEMMA ToldOfName ==
    ASSUME NEW c, IsContent(c), NEW m \in Objects(c)
    PROVE  LET told == GetModelInfo(c, m.name)
           IN  told # <<>> /\ told[1] \in Objects(c) /\ told[1].name = m.name
<1> DEFINE named == OfName(GetAllModels(c), m.name)
<1>1. named \in Seq(Objects(c)) /\ Elems(named) = {n \in Objects(c) : n.name = m.name}
  BY AllAre, OfNameIs
<1>2. GetModelInfo(c, m.name) = SubSeq(named, 1, IF named = <<>> THEN 0 ELSE 1)
  BY DEF GetModelInfo
<1> HIDE DEF named
<1>3. named # <<>>
  BY <1>1, EmptyElems
<1>4. 1 \in 1..Len(named) /\ Len(named) \in Nat
  BY <1>1, <1>3
<1>5. named[1] \in Objects(c) /\ named[1].name = m.name
  BY <1>1, <1>4 DEF Elems
<1>6. SubSeq(named, 1, 1) # <<>> /\ SubSeq(named, 1, 1)[1] = named[1]
  <2>1. Len(SubSeq(named, 1, 1)) = 1
    BY <1>1, <1>4
  <2> QED
    BY <1>1, <1>4, <2>1
<1> QED
  BY <1>2, <1>3, <1>5, <1>6

LEMMA ListsAgree ==
    ASSUME ConfigInv
    PROVE  ModelListsAgree
<1> DEFINE c == file.content
           all == GetAllModels(c)
<1>1. IsContent(c) /\ first \in StartContent \cup {EmptyContent}
  BY DEF ConfigInv, FileOk
<1>2. Range(all) = Objects(c) /\ IsInjective(all)
  BY <1>1, AllAre, SameWords
<1>3. \A t \in Type : Range(GetModelsForCapability(c, t)) = {m \in Range(all) : m.capability = t}
  BY <1>1, <1>2, PerCapability
<1>4. Range(GetProviderList(c)) = DOMAIN c.providers
  <2>1. Filtered(ProviderOrder, DOMAIN c.providers) \in Seq(Provider)
    BY Orders, FilteredIs
  <2>2. Elems(Filtered(ProviderOrder, DOMAIN c.providers)) = Provider \cap DOMAIN c.providers
    BY Orders, FilteredIs
  <2> QED
    BY <1>1, <2>1, <2>2, SameWords, ContentIs DEF GetProviderList
<1>5. \A p \in DOMAIN c.providers : p \in Provider /\ ModelTypes(c, p) = DOMAIN c.providers[p].models
  BY <1>1, ContentIs DEF ModelTypes
<1>6. \A p \in DOMAIN c.providers : \A t \in DOMAIN c.providers[p].models :
        Object(c, p, t) \in Objects(c) /\ Object(c, p, t).provider = p /\ Object(c, p, t).capability = t
  BY <1>5, ObjectIs DEF Objects
<1>7. GetSupportedCapabilities(c) = {m.capability : m \in Range(all)}
  <2>1. GetSupportedCapabilities(c) = UNION {DOMAIN c.providers[p].models : p \in DOMAIN c.providers}
    BY <1>4 DEF GetSupportedCapabilities
  <2>2. ASSUME NEW m \in Objects(c)
        PROVE  m.capability \in UNION {DOMAIN c.providers[p].models : p \in DOMAIN c.providers}
    <3>1. PICK p \in Provider : m \in {Object(c, p, t) : t \in ModelTypes(c, p)}
      BY DEF Objects
    <3>2. PICK t \in ModelTypes(c, p) : m = Object(c, p, t)
      BY <3>1
    <3>3. p \in DOMAIN c.providers /\ t \in DOMAIN c.providers[p].models /\ m.capability = t
      BY <3>2, ObjectIs DEF ModelTypes
    <3> QED
      BY <3>3
  <2>3. ASSUME NEW p \in DOMAIN c.providers, NEW t \in DOMAIN c.providers[p].models
        PROVE  t \in {m.capability : m \in Objects(c)}
    BY <1>6
  <2> HIDE DEF all, c
  <2> QED
    BY <1>2, <2>1, <2>2, <2>3
<1>8. \A p \in Range(GetProviderList(c)) : (\E m \in Range(all) : m.provider = p) \/ c # first
  <2> SUFFICES ASSUME NEW p \in DOMAIN c.providers, c = first PROVE \E m \in Objects(c) : m.provider = p
    BY <1>2, <1>4
  <2>1. DOMAIN c.providers[p].models # {}
    BY <1>1, EmptyIsContent, ConfigurationAssumption
  <2>2. PICK t : t \in DOMAIN c.providers[p].models
    BY <2>1
  <2> QED
    BY <1>6, <2>2
<1>9. \A p \in Provider :
        LET own == GetModelsForProvider(c, p)
        IN  /\ Range(own) = {m \in Range(all) : m.provider = p}
            /\ ~IsInjective(own) => \E m, n \in Range(own) : m # n /\ m.name = n.name
  BY <1>1, <1>2, PerProvider
<1>10. \A m \in Range(all) :
        LET told == GetModelInfo(c, m.name)
        IN  told # <<>> /\ (told[1].provider # m.provider =>
                \E n \in Range(all) : n.provider = told[1].provider /\ n.name = m.name)
  BY <1>1, <1>2, ToldOfName
<1> QED
  BY <1>2, <1>3, <1>7, <1>8, <1>9, <1>10 DEF ModelListsAgree

-----------------------------------------------------------------------------
(* The steps of the tool.                                                  *)

LEMMA NothingToolOk ==
    /\ ModelsOk([t \in Type |-> <<>>]) /\ DefaultsOk(NoParams)
    /\ \A f : ModelsKnown(f, [t \in Type |-> <<>>])
<1> DEFINE none == [t \in Type |-> <<>>]
<1>1. none \in [Type -> Seq(Model)] /\ \A t \in Type : none[t] = <<>>
  BY EmptyIsThere
<1> HIDE DEF none
<1>2. \A t \in Type : Elems(none[t]) = {}
  BY <1>1, EmptyElems
<1>3. AnyOf(none) = {}
  BY <1>2 DEF AnyOf
<1>4. ModelsOk(none) /\ \A f : ModelsKnown(f, none)
  BY <1>1, <1>3 DEF ModelsOk, ModelsKnown
<1>5. DefaultsOk(NoParams)
  BY DEF DefaultsOk, NoParams
<1> QED
  BY <1>4, <1>5 DEF none

\* The tool reads a content.
LEMMA LoadStep ==
    ASSUME ConfigInv, Load(file.content), edited' = <<>>, tool' = "idle",
           UNCHANGED <<file, first, changes, request>>
    PROVE  ConfigInv'
<1> DEFINE c == file.content
<1>1. IsContent(c) /\ KnownKeys(first, c)
  BY DEF ConfigInv, FileOk, KeysOk
<1>2. root' = c /\ models' = Parsed(c) /\ defaults' = c.defaults
  BY DEF Load
<1>3. ModelsOk(models') /\ DefaultsOk(defaults')
  BY <1>1, <1>2, ParsedIs, ContentIs
<1>4. ModelsKnown(first, models')
  BY <1>1, <1>2, ParsedKnown
<1> HIDE DEF c
<1>5. FileOk'
  BY <1>1, <1>2 DEF ConfigInv, FileOk
<1>6. ToolOk'
  BY <1>3 DEF ConfigInv, ToolOk
<1>7. KeysOk'
  BY <1>1, <1>2, <1>4 DEF ConfigInv, KeysOk
<1>8. EditOk'
  BY DEF EditOk, EditFits
<1>9. RequestOk'
  BY RequestKept DEF ConfigInv
<1> QED
  BY <1>5, <1>6, <1>7, <1>8, <1>9 DEF ConfigInv

LEMMA WriteStep ==
    ASSUME ConfigInv, Write
    PROVE  ConfigInv'
<1>1. /\ tool = "writing" /\ tool' = "idle" /\ Replace(File("whole", root))
      /\ first' = first /\ root' = root /\ models' = models /\ defaults' = defaults
      /\ edited' = edited /\ changes' = changes
  BY DEF Write
<1>2. file' = File("whole", root)
  BY <1>1 DEF Replace
<1>3. file'.state = "whole" /\ file'.content = root /\ file' = File(file'.state, file'.content)
  BY <1>2, FileIs
<1>4. FileOk'
  BY <1>1, <1>3 DEF ConfigInv, FileOk
<1>5. ToolOk'
  BY <1>1 DEF ConfigInv, ToolOk
<1>6. KeysOk'
  BY <1>1, <1>3 DEF ConfigInv, KeysOk
<1>7. EditOk'
  BY <1>1, <1>3 DEF ConfigInv, EditOk
<1>8. RequestOk'
  BY <1>1, RequestKept DEF ConfigInv
<1> QED
  BY <1>4, <1>5, <1>6, <1>7, <1>8 DEF ConfigInv

LEMMA CloseStep ==
    ASSUME ConfigInv, Close
    PROVE  ConfigInv'
<1>1. /\ tool' = "closed" /\ root' = EmptyContent /\ models' = [t \in Type |-> <<>>] /\ defaults' = NoParams
      /\ edited' = <<>> /\ file' = file /\ first' = first /\ changes' = changes /\ request' = request
  BY DEF Close
<1>2. IsContent(EmptyContent) /\ KnownKeys(first, EmptyContent)
  BY EmptyIsContent DEF KnownKeys
<1>3. FileOk'
  BY <1>1, <1>2 DEF ConfigInv, FileOk
<1>4. ToolOk'
  BY <1>1, NothingToolOk DEF ConfigInv, ToolOk
<1>5. KeysOk'
  BY <1>1, <1>2, NothingToolOk DEF ConfigInv, KeysOk
<1>6. EditOk'
  BY <1>1 DEF EditOk, EditFits
<1>7. RequestOk'
  BY <1>1, RequestKept DEF ConfigInv
<1> QED
  BY <1>3, <1>4, <1>5, <1>6, <1>7 DEF ConfigInv

-----------------------------------------------------------------------------
(* The steps of the daemon, which leave the file and the tool alone.       *)

LEMMA ToolRests ==
    ASSUME ConfigInv, UNCHANGED <<file, first, tool, root, models, defaults, edited, changes>>, RequestOk'
    PROVE  ConfigInv'
<1>1. FileOk' /\ ToolOk' /\ KeysOk' /\ EditOk'
  BY DEF ConfigInv, FileOk, ToolOk, KeysOk, EditOk
<1> QED
  BY <1>1 DEF ConfigInv

LEMMA ChooseStep ==
    ASSUME ConfigInv, NEW t \in Type, NEW named \in Provider \cup {NoName}, ChooseProvider(t, named)
    PROVE  ConfigInv'
<1> DEFINE p == IF named # NoName THEN named ELSE GetDefaultProvider(file.content, t)
           serves == SupportsInterface(file.content, p, t)
<1>1. /\ UNCHANGED <<file, first, tool, root, models, defaults, edited, changes>>
      /\ \/ /\ p \in Provider
            /\ request' = [at |-> "chosen", type |-> t, provider |-> p, named |-> named # NoName,
                           served |-> serves, changed |-> FALSE]
         \/ request' = [at |-> "invalid"]
  BY DEF ChooseProvider
<1>2. serves \in BOOLEAN
  BY DEF SupportsInterface
<1> HIDE DEF p
<1>3. ASSUME request' = [at |-> "invalid"] PROVE RequestOk'
  BY <1>3 DEF RequestOk, RequestsAreServed, KeysStayKeys
<1>4. ASSUME p \in Provider,
             request' = [at |-> "chosen", type |-> t, provider |-> p, named |-> named # NoName,
                         served |-> serves, changed |-> FALSE]
      PROVE  RequestOk'
  <2>1. request' \in Chosen
    <3> HIDE DEF serves
    <3> QED
      BY <1>2, <1>4 DEF Chosen
  <2>2. /\ request'.at = "chosen" /\ request'.provider = p /\ request'.type = t
        /\ request'.served = serves
    BY <1>4
  <2>3. request'.served = SupportsInterface(file'.content, request'.provider, request'.type)
    BY <1>1, <2>2
  <2> QED
    BY <2>1, <2>2, <2>3 DEF RequestOk, RequestsAreServed, KeysStayKeys
<1>5. RequestOk'
  BY <1>1, <1>3, <1>4
<1> QED
  BY <1>1, <1>5, ToolRests

\* The model and the address of the interface a request is given.
LEMMA ConfigureStep ==
    ASSUME ConfigInv, NEW model \in ModelText \cup {NoName}, Configure(model)
    PROVE  ConfigInv'
<1> DEFINE c == file.content
           p == request.provider
           t == request.type
           made == CreateInterface(p, t, c)
           given == IF model = NoName THEN made ELSE [made EXCEPT !.model = model]
<1>1. /\ request.at = "chosen"
      /\ UNCHANGED <<file, first, tool, root, models, defaults, edited, changes>>
      /\ IF made = NoInterface THEN request' = [at |-> "invalid"]
         ELSE request' = [at |-> "ready", type |-> t, provider |-> p, named |-> request.named,
                          served |-> request.served, changed |-> request.changed, interface |-> given]
  BY DEF Configure
<1>2. /\ IsContent(c) /\ p \in Provider /\ t \in Type
      /\ request.changed \/ request.served = SupportsInterface(c, p, t)
  BY <1>1 DEF ConfigInv, FileOk, RequestOk, Chosen
<1> HIDE DEF made
<1>3. ASSUME made = NoInterface PROVE RequestOk'
  <2>1. request' = [at |-> "invalid"]
    BY <1>1, <1>3
  <2> QED
    BY <2>1 DEF RequestOk, RequestsAreServed, KeysStayKeys
<1>4. ASSUME made # NoInterface PROVE RequestOk'
  <2>1. RightInterface(made, c, p, t)
    BY <1>2, <1>4, InterfaceIs DEF made
  <2>2. /\ made = Interface(made.model, made.key, made.url)
        /\ SupportsInterface(c, p, t) => made.model = c.providers[p].models[t]
        /\ made.url \in KeyText => p = "openai" /\ t = "FunctionCalling"
    BY <2>1 DEF RightInterface
  <2>3. given.url = made.url /\ given.model = IF model = NoName THEN made.model ELSE model
    BY <2>2 DEF Interface
  <2>4. SupportsInterface(c, p, t) => made.model \in ModelText
    BY <1>2, <2>2, ContentIs DEF SupportsInterface
  <2>5. model # NoName => given.model \notin {"", NoName}
    BY <2>3, NamesApart
  <2>6. SupportsInterface(c, p, t) => given.model \notin {"", NoName}
    BY <2>3, <2>4, <2>5, NamesApart
  <2> HIDE DEF given, c, p, t
  <2>7. /\ request'.at = "ready" /\ request'.type = t /\ request'.provider = p
        /\ request'.named = request.named /\ request'.served = request.served
        /\ request'.changed = request.changed /\ request'.interface = given
    BY <1>1, <1>4
  <2>8. RequestsAreServed'
    BY <1>2, <2>6, <2>7 DEF RequestsAreServed
  <2>9. KeysStayKeys'
    BY <2>2, <2>3, <2>7 DEF KeysStayKeys
  <2> QED
    BY <2>7, <2>8, <2>9 DEF RequestOk
<1>5. RequestOk'
  BY <1>3, <1>4
<1> QED
  BY <1>1, <1>5, ToolRests

LEMMA GiveBackStep ==
    ASSUME ConfigInv, GiveBack
    PROVE  ConfigInv'
<1>1. request' = [at |-> "none"] /\ UNCHANGED <<file, first, tool, root, models, defaults, edited, changes>>
  BY DEF GiveBack, NoRequest
<1>2. RequestOk'
  BY <1>1 DEF RequestOk, RequestsAreServed, KeysStayKeys
<1> QED
  BY <1>1, <1>2, ToolRests

-----------------------------------------------------------------------------
(* The invariant.                                                          *)

LEMMA ConfigBegins == ASSUME ConfigInit PROVE ConfigInv
<1>1. /\ tool = "closed" /\ root = EmptyContent /\ models = [t \in Type |-> <<>>] /\ defaults = NoParams
      /\ edited = <<>> /\ changes = 0 /\ request = [at |-> "none"] /\ first = file.content
  BY DEF ConfigInit, NoRequest
<1>2. /\ file = File(file.state, file.content) /\ file.state \in {"whole", "torn", "absent"}
      /\ first \in StartContent \cup {EmptyContent}
      /\ file.state # "whole" => file.content = EmptyContent
  <2>1. CASE \E c \in StartContent : file = File("whole", c)
    BY <1>1, <2>1, FileIs
  <2>2. CASE file = File("absent", EmptyContent)
    BY <1>1, <2>2, FileIs
  <2> QED
    BY <2>1, <2>2 DEF ConfigInit
<1>3. \A c \in StartContent : IsContent(c)
  BY ConfigurationAssumption
<1>4. IsContent(first) /\ IsContent(root) /\ KnownKeys(first, first) /\ KnownKeys(first, root)
  BY <1>1, <1>2, <1>3, EmptyIsContent DEF KnownKeys
<1>5. FileOk
  BY <1>1, <1>2, <1>4 DEF FileOk
<1>6. ToolOk
  BY <1>1, NothingToolOk, BoundOfChanges DEF ToolOk
<1>7. KeysOk
  BY <1>1, <1>4, NothingToolOk DEF KeysOk
<1>8. EditOk
  BY <1>1 DEF EditOk, EditFits
<1>9. RequestOk
  BY <1>1 DEF RequestOk, RequestsAreServed, KeysStayKeys
<1> QED
  BY <1>5, <1>6, <1>7, <1>8, <1>9 DEF ConfigInv

\* Every save is of something sound.
LEMMA SavesAreSound ==
    ASSUME ConfigInv, SaveConfigFile \/ ChangeModel
    PROVE  \E ms, ds, e : Save(ms, ds, e) /\ Sound(ms, ds, e)
<1>1. CASE SaveConfigFile
  BY <1>1, SavedAgain DEF SaveConfigFile
<1>2. ASSUME NEW t \in Type, AddModel(t) PROVE \E ms, ds, e : Save(ms, ds, e) /\ Sound(ms, ds, e)
  BY <1>2, AddIsSound
<1>3. ASSUME NEW t \in Type, NEW i \in DOMAIN models[t], EditModel(t, i)
      PROVE  \E ms, ds, e : Save(ms, ds, e) /\ Sound(ms, ds, e)
  BY <1>3, EditIsSound
<1>4. ASSUME NEW t \in Type, NEW i \in DOMAIN models[t], DeleteModel(t, i)
      PROVE  \E ms, ds, e : Save(ms, ds, e) /\ Sound(ms, ds, e)
  BY <1>4, DeleteIsSound
<1>5. ASSUME NEW t \in Type, NEW i \in DOMAIN models[t], SetAsDefaultModel(t, i)
      PROVE  \E ms, ds, e : Save(ms, ds, e) /\ Sound(ms, ds, e)
  BY <1>5, DefaultIsSound
<1> QED
  BY <1>1, <1>2, <1>3, <1>4, <1>5 DEF ChangeModel

LEMMA ConfigStep ==
    ASSUME ConfigInv, [Work \/ GiveBack]_configVars
    PROVE  ConfigInv'
<1>1. CASE Start
  BY <1>1, LoadStep DEF Start
<1>2. CASE Open
  BY <1>2, LoadStep DEF Open
<1>3. CASE SaveConfigFile \/ ChangeModel
  <2>1. PICK ms, ds, e : Save(ms, ds, e) /\ Sound(ms, ds, e)
    BY <1>3, SavesAreSound
  <2> QED
    BY <2>1, SaveStep
<1>4. CASE Write
  BY <1>4, WriteStep
<1>5. CASE Close
  BY <1>5, CloseStep
<1>6. ASSUME NEW t \in Type, NEW named \in Provider \cup {NoName}, ChooseProvider(t, named) PROVE ConfigInv'
  BY <1>6, ChooseStep
<1>7. ASSUME NEW model \in ModelText \cup {NoName}, Configure(model) PROVE ConfigInv'
  BY <1>7, ConfigureStep
<1>8. CASE GiveBack
  BY <1>8, GiveBackStep
<1>9. CASE UNCHANGED configVars
  <2>1. request' = request /\ file' = file /\ UNCHANGED <<file, first, tool, root, models, defaults, edited, changes>>
    BY <1>9 DEF configVars
  <2>2. RequestOk'
    BY <2>1, RequestKept DEF ConfigInv
  <2> QED
    BY <2>1, <2>2, ToolRests
<1> QED
  BY <1>1, <1>2, <1>3, <1>4, <1>5, <1>6, <1>7, <1>8, <1>9 DEF Work

\* The inductive invariant of the configuration: what the file, the tool and a
\* request may be together (configmanager.cpp:45, modelcenter.cpp:36).
THEOREM ConfigurationInvariant == ConfigSpec => []ConfigInv
<1>1. ConfigInit => ConfigInv
  BY ConfigBegins
<1>2. ConfigInv /\ [Work \/ GiveBack]_configVars => ConfigInv'
  BY ConfigStep
<1> QED
  BY <1>1, <1>2, PTL DEF ConfigSpec

-----------------------------------------------------------------------------
(* What follows from it.                                                   *)

LEMMA TypesFollow ==
    ASSUME ConfigInv
    PROVE  ConfigTypeOK
<1>1. \A t \in Type : \A i \in DOMAIN models[t] :
        /\ models[t][i].provider \in Provider
        /\ \A k \in DOMAIN models[t][i].params : models[t][i].params[k] \in TextOf(k)
  BY OwnModels, ModelFields
<1>2. request.at \in {"none", "chosen", "ready", "invalid"}
  BY DEF ConfigInv, RequestOk
<1> QED
  BY <1>1, <1>2 DEF ConfigInv, FileOk, ToolOk, ConfigTypeOK

LEMMA KeysFollow ==
    ASSUME ConfigInv
    PROVE  NoNewKeys
BY DEF ConfigInv, KeysOk, KnownKeys, HadKey, NoNewKeys

\* The value of a key in the file is that of a model of the provider.
LEMMA EditsFollow ==
    ASSUME ConfigInv
    PROVE  EditReachesFile
<1> SUFFICES ASSUME edited # <<>>, tool = "idle" PROVE EditReachesFile
  BY DEF EditReachesFile
<1>1. PICK t \in Type : \E i \in DOMAIN models[t] :
        "api_key" \in DOMAIN models[t][i].params /\ edited = <<t, i, models[t][i].params["api_key"]>>
  BY DEF ConfigInv, EditOk, EditFits
<1>2. PICK i \in DOMAIN models[t] :
        "api_key" \in DOMAIN models[t][i].params /\ edited = <<t, i, models[t][i].params["api_key"]>>
  BY <1>1
<1> DEFINE p == models[t][i].provider
           key == models[t][i].params["api_key"]
           R == Rendered(models, defaults)
<1>3. edited[1] = t /\ edited[2] = i /\ edited[3] = key
  BY <1>2
<1>4. ModelsOk(models) /\ file.content = R
  BY DEF ConfigInv, ToolOk, EditOk
<1>5. models[t][i] \in AnyOf(models) /\ models[t][i] \in Carries(AnyOf(models), p, "api_key")
  <2>1. models[t][i] \in Elems(models[t])
    BY OwnModels DEF Elems
  <2> QED
    BY <1>2, <2>1 DEF AnyOf, Carries
<1>6. p \in DOMAIN R.providers /\ R.providers[p].keys = KeysOf(models, p)
  <2>1. /\ DOMAIN R.providers = {m.provider : m \in AnyOf(models)}
        /\ \A q \in DOMAIN R.providers : R.providers[q].keys = KeysOf(models, q)
    BY <1>4, RenderedFields
  <2> HIDE DEF R
  <2>2. p \in DOMAIN R.providers
    BY <1>5, <2>1
  <2> QED
    BY <2>1, <2>2
<1>7. /\ "api_key" \in DOMAIN KeysOf(models, p)
      /\ KeysOf(models, p)["api_key"] \in Values(AnyOf(models), p, "api_key")
  BY <1>4, <1>5, KeysAre
<1>8. PICK m \in Carries(AnyOf(models), p, "api_key") : KeysOf(models, p)["api_key"] = m.params["api_key"]
  BY <1>7 DEF Values
<1>9. PICK u \in Type : m \in Elems(models[u])
  BY <1>8 DEF Carries, AnyOf
<1>10. PICK j \in DOMAIN models[u] : m = models[u][j]
  BY <1>9, OwnModels DEF Elems
<1>11. models[u][j].provider = p /\ "api_key" \in DOMAIN models[u][j].params
  BY <1>8, <1>10 DEF Carries
<1>12. /\ p \in DOMAIN file.content.providers /\ "api_key" \in DOMAIN file.content.providers[p].keys
       /\ file.content.providers[p].keys["api_key"] = models[u][j].params["api_key"]
  BY <1>4, <1>6, <1>7, <1>8, <1>10
<1>13. models[u][j].params["api_key"] # key => <<u, j>> # <<t, i>>
  OBVIOUS
<1> HIDE DEF R
<1> QED
  BY <1>3, <1>11, <1>12, <1>13 DEF EditReachesFile

LEMMA SavesFollow ==
    ASSUME ConfigInv
    PROVE  SavedModelsReturn
<1> SUFFICES ASSUME tool = "writing" PROVE SavedModelsReturn
  BY DEF SavedModelsReturn
<1>1. root = Rendered(models, defaults) /\ ModelsOk(models) /\ DefaultsOk(defaults)
  BY DEF ConfigInv, EditOk, ToolOk
<1> DEFINE again == Parsed(root)
<1>2. /\ Rendered(again, defaults).providers =
            [p \in {q \in DOMAIN root.providers : root.providers[q].models # NoParams} |-> root.providers[p]]
      /\ \A t \in Type :
            /\ {again[t][i].provider : i \in DOMAIN again[t]} =
                {models[t][i].provider : i \in {j \in DOMAIN models[t] : "model" \in DOMAIN models[t][j].params}}
            /\ \A i, j \in DOMAIN again[t] : again[t][i].provider = again[t][j].provider => i = j
  <2>1. LET R == Rendered(models, defaults)
            saved == Parsed(R)
        IN  /\ Rendered(saved, defaults).providers =
                 [p \in {q \in DOMAIN R.providers : R.providers[q].models # NoParams} |-> R.providers[p]]
            /\ \A t \in Type :
                 /\ {saved[t][i].provider : i \in DOMAIN saved[t]} =
                     {models[t][i].provider : i \in {j \in DOMAIN models[t] : "model" \in DOMAIN models[t][j].params}}
                 /\ \A i, j \in DOMAIN saved[t] : saved[t][i].provider = saved[t][j].provider => i = j
    BY <1>1, SavedIsRead, Zenon
  <2> QED
    BY <1>1, <2>1, Zenon
<1> QED
  BY <1>2, Zenon DEF SavedModelsReturn

\* In the running tool only an edit, or reading the file again, leaves a
\* default whose provider has no model of the type.
LEMMA ListedStep ==
    ASSUME ConfigInv, Work \/ GiveBack, NEW t \in Type, tool = "idle", ~Dangling(t), Dangling(t)'
    PROVE  (\E i \in DOMAIN models[t] : EditModel(t, i)) \/ Open
<1>1. ~Hangs(models, defaults, t) /\ Hangs(models', defaults', t)
  BY DEF Dangling, Hangs
<1>2. ASSUME NEW ms, NEW ds, NEW e, Save(ms, ds, e), StaysListed(ms, ds) PROVE FALSE
  BY <1>1, <1>2 DEF Save, StaysListed
<1>3. CASE Start
  BY <1>3 DEF Start
<1>4. CASE SaveConfigFile
  BY <1>2, <1>4, SavedAgain DEF SaveConfigFile
<1>5. CASE Write
  BY <1>5 DEF Write
<1>6. CASE Close
  BY <1>1, <1>6 DEF Close, Hangs, NoParams
<1>7. CASE ChangeModel
  <2>1. ASSUME NEW u \in Type, AddModel(u) PROVE FALSE
    BY <1>2, <2>1, AddIsSound
  <2>2. ASSUME NEW u \in Type, NEW i \in DOMAIN models[u], DeleteModel(u, i) PROVE FALSE
    BY <1>2, <2>2, DeleteIsSound
  <2>3. ASSUME NEW u \in Type, NEW i \in DOMAIN models[u], SetAsDefaultModel(u, i) PROVE FALSE
    BY <1>2, <2>3, DefaultIsSound
  <2>4. ASSUME NEW u \in Type, NEW i \in DOMAIN models[u], EditModel(u, i) PROVE u = t
    <3>1. PICK ms, ds, e : Save(ms, ds, e) /\ \A v \in Type \ {u} : Hangs(ms, ds, v) => Hangs(models, defaults, v)
      BY <2>4, EditIsSound
    <3>2. models' = ms /\ defaults' = ds
      BY <3>1 DEF Save
    <3> QED
      BY <1>1, <3>1, <3>2
  <2> QED
    BY <1>7, <2>1, <2>2, <2>3, <2>4 DEF ChangeModel
<1>8. ASSUME UNCHANGED <<models, defaults>> PROVE FALSE
  BY <1>1, <1>8
<1>9. ASSUME NEW u, NEW named, ChooseProvider(u, named) PROVE FALSE
  BY <1>8, <1>9 DEF ChooseProvider
<1>10. ASSUME NEW model, Configure(model) PROVE FALSE
  BY <1>8, <1>10 DEF Configure
<1>11. CASE GiveBack
  BY <1>8, <1>11 DEF GiveBack
<1> QED
  BY <1>3, <1>4, <1>5, <1>6, <1>7, <1>9, <1>10, <1>11 DEF Work

\* What the user edits is in the file and is listed again, keys are of
\* providers that had one, and a default keeps a model of its provider unless
\* the model is edited away (configmanager.cpp:45).
THEOREM EditsAlwaysKept == ConfigSpec => EditsAreKept
<1>1. ConfigInv => ConfigTypeOK /\ NoNewKeys /\ EditReachesFile /\ SavedModelsReturn
  BY TypesFollow, KeysFollow, EditsFollow, SavesFollow
<1>2. ConfigInv /\ [Work \/ GiveBack]_configVars =>
        [\A t \in Type : tool = "idle" /\ ~Dangling(t) /\ Dangling(t)' =>
            \/ \E i \in DOMAIN models[t] : EditModel(t, i)
            \/ Open]_configVars
  BY ListedStep
<1> QED
  BY <1>1, <1>2, ConfigurationInvariant, PTL DEF ConfigSpec, EditsAreKept, DefaultsStayListed

\* The interface a request is given is of the provider's model of the type, is
\* the one the information service names, and its lists agree (modelcenter.cpp:36,
\* modelinfodbus.cpp:193).
THEOREM InterfacesAlwaysFit == ConfigSpec => []InterfacesFitFile
<1>1. ConfigInv => InterfacesFitFile
  <2> SUFFICES ASSUME ConfigInv PROVE InterfacesFitFile
    OBVIOUS
  <2>1. RequestsAreServed /\ KeysStayKeys
    BY DEF ConfigInv, RequestOk
  <2> QED
    BY <2>1, CurrentIsUsed, ListsAgree DEF InterfacesFitFile
<1> QED
  BY <1>1, ConfigurationInvariant, PTL
=============================================================================
