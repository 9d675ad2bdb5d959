------------------------- MODULE SpeechRecognition -------------------------
(***************************************************************************)
(* The streams of a SpeechToTextSession over XunfeiSpeechToText and its    *)
(* one web socket. All of them live on the sessions' thread.               *)
(* endStreamRecognition waits for the server in a nested event loop while  *)
(* it holds the session's stateMutex: the socket's signals are handled     *)
(* inside the call, and whatever needs the mutex stops the thread for      *)
(* good. Audio is counted in samples, a text is the set of streams whose   *)
(* audio it was made of. frameTimer is left out: it only sends what        *)
(* sendAudioData and the connection have already sent.                     *)
(***************************************************************************)
EXTENDS Naturals, Sequences, FiniteSets

CONSTANTS
    MaxStreams,    \* bound: streams
    MaxSamples,    \* bound: samples of one stream
    FrameSize      \* getDefaultFrameSize, in samples

ASSUME RecognitionAssumption ==
    /\ MaxStreams \in Nat /\ MaxSamples \in Nat
    /\ FrameSize \in Nat \ {0}

Stream == 1..MaxStreams
NoStream == 0

VARIABLES
    keyed,         \* the provider has its credentials
    streams,       \* the session's streamSessions, and whether each isActive
    session,       \* the provider's currentSession; its id is currentSessionId
    wire,          \* the state of the web socket
    heard,         \* currentRecognitionResult of XunfeiWebSocket
    frames,        \* what was sent of each stream: kind and samples of a frame
    served,        \* streams with frames on this connection
    waiting,       \* the stream whose end waits in its event loop
    quitting,      \* that loop was told to quit
    thread,        \* the sessions' thread: "running" or "hung"
    accepted,      \* observed: samples accepted of each stream
    companions,    \* observed: served, when a stream's result came
    returned       \* observed: the text returned by a stream's end

speechVars == <<keyed, streams, session, wire, heard, frames, served, waiting, quitting,
                thread, accepted, companions, returned>>

\* StreamSession as its constructor leaves it.
Idle == [id |-> NoStream, isActive |-> FALSE, currentFrameIndex |-> 0,
              audioBuffer |-> 0, result |-> {}]

RecognitionInit ==
    /\ keyed \in BOOLEAN
    /\ streams = [s \in Stream |-> "absent"]
    /\ session = Idle
    /\ wire = "closed" /\ heard = {} /\ served = {}
    /\ frames = [s \in Stream |-> <<>>]
    /\ waiting = NoStream /\ quitting = FALSE
    /\ thread = "running"
    /\ accepted = [s \in Stream |-> 0]
    /\ companions = [s \in Stream |-> {}]
    /\ returned = [s \in Stream |-> {}]

ThreadRuns == thread = "running"

\* A request is handled to its end when nothing holds stateMutex.
Free == ThreadRuns /\ waiting = NoStream

-----------------------------------------------------------------------------
\* The web socket.

\* open() begins a new connection.
ConnectToServer == wire' = "connecting" /\ heard' = {}

DisconnectFromServer == wire' = "closed" /\ heard' = {} /\ served' = {}

SocketUnchanged == UNCHANGED <<wire, heard, served>>

\* Frames of s leave on this connection.
Sent(s, new) ==
    /\ frames' = [frames EXCEPT ![s] = @ \o new]
    /\ served' = IF new = <<>> THEN served ELSE served \cup {s}

NothingSent == UNCHANGED <<frames, served>>

\* What processAudioBuffer makes of the buffer: whole frames, the first one of a
\* stream marked as such.
WholeFrames(c) ==
    [i \in 1..(c.audioBuffer \div FrameSize) |->
        <<IF c.currentFrameIndex + i = 1 THEN "first" ELSE "continue", FrameSize>>]

AfterFrames(c) ==
    [c EXCEPT !.audioBuffer = @ % FrameSize,
              !.currentFrameIndex = @ + c.audioBuffer \div FrameSize]

ProcessAudioBuffer(c) == Sent(c.id, WholeFrames(c)) /\ session' = AfterFrames(c)

-----------------------------------------------------------------------------
\* Requests.

\* Mutant: the frame index of the stream before is kept.
ReuseSession(s) == [session EXCEPT !.id = s, !.isActive = TRUE, !.audioBuffer = 0,
                                   !.result = {}]
NewSession(s) == [Idle EXCEPT !.id = s, !.isActive = TRUE]

\* A start takes the place of the stream before it. Without credentials the
\* error is handled inside the call, and the stream returned no longer exists.
StartStream(s) ==
    /\ Free
    /\ streams[s] = "absent" /\ \A r \in Stream : r < s => streams[r] # "absent"
    /\ streams' = [streams EXCEPT ![s] = "active"]
    /\ IF wire # "closed"
       THEN session' = NewSession(s) /\ SocketUnchanged
       ELSE IF keyed
       THEN session' = NewSession(s) /\ ConnectToServer /\ UNCHANGED served
       ELSE session' = Idle /\ SocketUnchanged
    /\ UNCHANGED <<keyed, frames, waiting, quitting, thread, accepted, companions, returned>>

SendAudioData(s, n) ==
    /\ Free
    /\ streams[s] = "active"
    /\ session.id = s /\ session.isActive
    /\ accepted[s] + n <= MaxSamples
    /\ accepted' = [accepted EXCEPT ![s] = @ + n]
    /\ LET c == [session EXCEPT !.audioBuffer = @ + n]
       IN  IF wire = "connected" THEN ProcessAudioBuffer(c)
                                 ELSE session' = c /\ NothingSent
    /\ UNCHANGED <<keyed, streams, wire, heard, waiting, quitting, thread, companions, returned>>

\* The last frame takes what is left in the buffer, be it a frame or not.
LastFrame(c) == <<<<"last", c.audioBuffer>>>>

\* The stream is no longer the provider's: there is nothing to end.
EndUnknown(s) ==
    /\ Free
    /\ streams[s] = "active" /\ session.id # s
    /\ streams' = [streams EXCEPT ![s] = "ended"]
    /\ UNCHANGED <<keyed, session, wire, heard, frames, served, waiting, quitting, thread,
                   accepted, companions, returned>>

\* Without a connection the result so far is returned at once.
EndUnconnected(s) ==
    /\ Free
    /\ streams[s] = "active" /\ session.id = s
    /\ wire # "connected"
    /\ streams' = [streams EXCEPT ![s] = "ended"]
    /\ returned' = [returned EXCEPT ![s] = session.result]
    /\ session' = Idle
    /\ UNCHANGED <<keyed, wire, heard, frames, served, waiting, quitting, thread, accepted,
                   companions>>

\* The last frame is sent, and the event loop entered.
EndStream(s) ==
    /\ Free
    /\ streams[s] = "active" /\ session.id = s
    /\ wire = "connected"
    /\ Sent(s, LastFrame(session))
    /\ session' = [session EXCEPT !.isActive = FALSE, !.audioBuffer = 0]
    /\ waiting' = s
    /\ UNCHANGED <<keyed, streams, wire, heard, quitting, thread, accepted, companions,
                   returned>>

\* The loop has quit: the result there is by now is returned, and no error.
ReturnFromEnd ==
    /\ ThreadRuns /\ quitting
    /\ returned' = [returned EXCEPT ![waiting] = session.result]
    /\ streams' = [streams EXCEPT ![waiting] = "ended"]
    /\ session' = Idle
    /\ waiting' = NoStream /\ quitting' = FALSE
    /\ UNCHANGED <<keyed, wire, heard, frames, served, thread, accepted, companions>>

\* A request to the session, or the result of any task, locks stateMutex again.
LockAgain ==
    /\ ThreadRuns /\ waiting # NoStream
    /\ thread' = "hung"
    /\ UNCHANGED <<keyed, streams, session, wire, heard, frames, served, waiting, quitting,
                   accepted, companions, returned>>

\* terminate forgets the session's streams and leaves the provider's alone.
TerminateRecognition ==
    /\ Free
    /\ \E s \in Stream : streams[s] = "active"
    /\ streams' = [s \in Stream |-> IF streams[s] = "absent" THEN "absent" ELSE "ended"]
    /\ UNCHANGED <<keyed, session, wire, heard, frames, served, waiting, quitting, thread,
                   accepted, companions, returned>>

-----------------------------------------------------------------------------
\* Signals of the socket; the server is external.

OnConnected ==
    /\ ThreadRuns /\ wire = "connecting"
    /\ wire' = "connected"
    /\ IF session.id # NoStream /\ session.audioBuffer > 0
       THEN ProcessAudioBuffer(session)
       ELSE UNCHANGED session /\ NothingSent
    /\ UNCHANGED <<keyed, streams, heard, waiting, quitting, thread, accepted, companions,
                   returned>>

\* The server has closed the connection. Nobody tells the loop.
OnDisconnected ==
    /\ ThreadRuns /\ wire # "closed"
    /\ wire' = "closed" /\ served' = {}
    /\ UNCHANGED <<keyed, streams, session, heard, frames, waiting, quitting, thread, accepted,
                   companions, returned>>

KeepWaiting == UNCHANGED quitting
QuitLoop == quitting' = (quitting \/ (waiting # NoStream /\ session.id = waiting))

\* An error of the socket, or a message with an error code.
OnError ==
    /\ ThreadRuns /\ wire # "closed"
    /\ QuitLoop
    /\ session' = Idle
    /\ IF wire = "connected" THEN DisconnectFromServer
                             ELSE wire' = "closed" /\ UNCHANGED <<heard, served>>
    /\ UNCHANGED <<keyed, streams, frames, waiting, thread, accepted, companions, returned>>

\* The server recognises what it received on this connection. The text is final
\* after the last frame, or when the server hears silence.
OnRecognition(s, final) ==
    /\ ThreadRuns /\ wire = "connected" /\ s \in served
    /\ heard' = heard \cup {s}
    /\ IF final /\ session.id # NoStream
       THEN /\ session' = [session EXCEPT !.result = heard']
            /\ companions' = [companions EXCEPT ![session.id] = served]
            /\ QuitLoop
       ELSE UNCHANGED <<session, companions, quitting>>
    /\ UNCHANGED <<keyed, streams, wire, frames, served, waiting, thread, accepted, returned>>

-----------------------------------------------------------------------------

RecognitionRequest ==
    \/ \E s \in Stream : StartStream(s) \/ EndUnknown(s) \/ EndUnconnected(s) \/ EndStream(s)
    \/ \E s \in Stream, n \in 1..MaxSamples : SendAudioData(s, n)
    \/ TerminateRecognition \/ LockAgain

Server ==
    \/ OnConnected \/ OnDisconnected \/ OnError
    \/ \E s \in Stream, final \in BOOLEAN : OnRecognition(s, final)

RecognitionNext == RecognitionRequest \/ ReturnFromEnd \/ Server

\* The server answers a last frame with a final text or an error, and a loop
\* that was told to quit returns.
ServerAnswers ==
    OnError \/ \E s \in Stream : s = waiting /\ OnRecognition(s, TRUE)

RecognitionSpec == RecognitionInit /\ [][RecognitionNext]_speechVars
RecognitionFairness == WF_speechVars(ReturnFromEnd) /\ WF_speechVars(ServerAnswers)

-----------------------------------------------------------------------------

Frame == {"first", "continue", "last"} \X (0..MaxSamples)

\* Every variable keeps its type, and only a loop that waits is told to quit.
SpeechTypeOK ==
    /\ streams \in [Stream -> {"absent", "active", "ended"}]
    /\ session.id \in Stream \cup {NoStream}
    /\ session.audioBuffer \in 0..MaxSamples /\ session.result \subseteq Stream
    /\ wire \in {"closed", "connecting", "connected"}
    /\ heard \subseteq Stream /\ served \subseteq Stream
    /\ \A s \in Stream : \A i \in 1..Len(frames[s]) : frames[s][i] \in Frame
    /\ waiting \in Stream \cup {NoStream}
    /\ quitting => waiting # NoStream
    /\ thread = "hung" => waiting # NoStream

\* What was sent of a stream; only its last frame may have a size of its own, as
\* FramesInOrder says.
Samples(s) ==
    LET n == Len(frames[s])
    IN  IF n = 0 THEN 0 ELSE (n - 1) * FrameSize + frames[s][n][2]

\* No sample of the provider's stream is lost or sent twice, whether it was
\* accepted before or after the connection came up: what was sent and what is
\* buffered is what sendAudioData accepted; once an end waits, all of it was sent.
AudioIsKept ==
    /\ session.id # NoStream => Samples(session.id) + session.audioBuffer
                                    = accepted[session.id]
    /\ waiting # NoStream => Samples(waiting) = accepted[waiting]

\* The frames of a stream are a first one, then continuing ones of whole size,
\* then the last, also on a connection another stream has used. Audio shorter
\* than a frame has a last frame only (endStreamRecognition sends no first one).
FramesInOrder ==
    \A s \in Stream : \A i \in 1..Len(frames[s]) :
        /\ frames[s][i][1] = "first" => i = 1
        /\ frames[s][i][1] = "last" => i = Len(frames[s])
        /\ frames[s][i][1] = "continue" => i > 1
        /\ frames[s][i][1] # "last" => frames[s][i][2] = FrameSize

\* A result holds text of another stream only if both had frames on one
\* connection, which startStreamRecognition reuses with the text heard on it.
TextOfConnection ==
    \A s \in Stream : returned[s] \subseteq companions[s]

\* An end that waits returns, unless a request or a task's result locked the
\* mutex again, or the server closed the connection without an error.
EndsReturn ==
    waiting # NoStream ~>
        \/ waiting = NoStream \/ thread = "hung"
        \/ wire = "closed" /\ session.id = waiting

\* Audio reaches the server whole and in order, and comes back as the text of
\* its own connection.
AudioArrives == SpeechTypeOK /\ AudioIsKept /\ FramesInOrder /\ TextOfConnection
=============================================================================
