-------------------------- MODULE SpeechSynthesis --------------------------
(***************************************************************************)
(* The texts of a TextToSpeechSession over XunfeiTextToSpeech and its one  *)
(* web socket, on the sessions' thread. Every text started becomes the     *)
(* current one, whose audio the socket's messages are taken for. Audio is  *)
(* the set of texts it was made of. synthesizing is left out: it is set,   *)
(* and reset by the failure of any task, but never read.                   *)
(***************************************************************************)
EXTENDS Naturals, FiniteSets

CONSTANT MaxTexts      \* bound: texts

ASSUME SynthesisAssumption == MaxTexts \in Nat

Text == 1..MaxTexts
NoText == 0

VARIABLES
    texts,         \* the session's streamSessions, and whether each isActive
    synthesisSessions, \* texts the provider has a session of
    current,       \* currentSessionId
    link,          \* the state of the web socket
    asked,         \* texts the server works on
    audioHeard,    \* currentAudioData of XunfeiTTSWebSocket
    audioData,     \* audioData of each text
    complete,      \* observed: texts with a synthesisCompleted
    said           \* observed: texts sent to the server

synthesisVars == <<texts, synthesisSessions, current, link, asked, audioHeard, audioData,
                   complete, said>>

SynthesisInit ==
    /\ texts = [t \in Text |-> "absent"]
    /\ synthesisSessions = {} /\ current = NoText
    /\ link \in {"closed", "unusable"}
    /\ asked = {} /\ audioHeard = {}
    /\ audioData = [t \in Text |-> {}]
    /\ complete = {} /\ said = {}

MaySend == link = "connected"

SynthesizeText(t) == asked' = asked \cup {t} /\ said' = said \cup {t} /\ audioHeard' = {}

NothingAsked == UNCHANGED <<asked, said, audioHeard>>

\* Without credentials connectToServer returns without a word: the link is
\* unusable. A text started while the socket connects takes the place of the
\* one that opened it.
StartSynthesis(t) ==
    /\ texts[t] = "absent" /\ \A u \in Text : u < t => texts[u] # "absent"
    /\ texts' = [texts EXCEPT ![t] = "active"]
    /\ synthesisSessions' = synthesisSessions \cup {t}
    /\ current' = t
    /\ link' = IF link = "closed" THEN "connecting" ELSE link
    /\ IF MaySend THEN SynthesizeText(t) ELSE NothingAsked
    /\ UNCHANGED <<audioData, complete>>

\* The audio there is by now is returned.
EndSynthesis(t) ==
    /\ texts[t] = "active"
    /\ texts' = [texts EXCEPT ![t] = "ended"]
    /\ UNCHANGED <<synthesisSessions, current, link, asked, audioHeard, audioData, complete,
                   said>>

\* terminate only forgets the session's texts.
Forget == texts' = [t \in Text |-> IF texts[t] = "active" THEN "ended" ELSE texts[t]]
TerminateSynthesis ==
    /\ \E t \in Text : texts[t] = "active"
    /\ Forget
    /\ UNCHANGED <<synthesisSessions, current, link, asked, audioHeard, audioData, complete,
                   said>>

\* cleanup ends the provider as well, and the session is gone: no other text is
\* started.
CleanupSynthesis ==
    /\ \E t \in Text : texts[t] # "ended"
    /\ texts' = [t \in Text |-> "ended"]
    /\ link' = "gone" /\ current' = NoText
    /\ synthesisSessions' = {} /\ asked' = {} /\ audioHeard' = {}
    /\ UNCHANGED <<audioData, complete, said>>

\* Mutant: the socket, when it is up, has the text that opened it to send.
FirstText == CHOOSE t \in synthesisSessions : \A u \in synthesisSessions : t <= u
TextToSend == current

OnSynthesisConnected ==
    /\ link = "connecting"
    /\ link' = "connected"
    /\ IF current \in synthesisSessions THEN SynthesizeText(TextToSend) ELSE NothingAsked
    /\ UNCHANGED <<texts, synthesisSessions, current, audioData, complete>>

\* An error is reported for the current text, and nothing else changes.
OnSynthesisClosed ==
    /\ link \in {"connecting", "connected"}
    /\ link' = "closed" /\ asked' = {}
    /\ UNCHANGED <<texts, synthesisSessions, current, audioHeard, audioData, complete, said>>

Credited == current

\* A piece of the audio of t; after the last one the socket is closed.
OnSynthesisResult(t, last) ==
    /\ link = "connected" /\ t \in asked
    /\ audioHeard' = audioHeard \cup {t}
    /\ audioData' = [audioData EXCEPT ![Credited] = IF last THEN audioHeard' ELSE @ \cup {t}]
    /\ complete' = IF last THEN complete \cup {Credited} ELSE complete
    /\ link' = IF last THEN "closed" ELSE link
    /\ asked' = IF last THEN {} ELSE asked
    /\ UNCHANGED <<texts, synthesisSessions, current, said>>

SynthesisRequest ==
    \/ \E t \in Text : StartSynthesis(t) \/ EndSynthesis(t)
    \/ TerminateSynthesis \/ CleanupSynthesis

SynthesisServer ==
    \/ OnSynthesisConnected \/ OnSynthesisClosed
    \/ \E t \in Text, last \in BOOLEAN : OnSynthesisResult(t, last)

SynthesisNext == SynthesisRequest \/ SynthesisServer

SynthesisSpec == SynthesisInit /\ [][SynthesisNext]_synthesisVars

-----------------------------------------------------------------------------

\* Every variable keeps its type, only texts that were sent have audio, and the
\* server works on none unless the socket is up.
SynthesisTypeOK ==
    /\ texts \in [Text -> {"absent", "active", "ended"}]
    /\ link \in {"closed", "connecting", "connected", "unusable", "gone"}
    /\ synthesisSessions = {t \in Text : texts[t] # "absent" /\ link # "gone"}
    /\ current \in synthesisSessions \cup {NoText}
    /\ link # "gone" => said \cup complete \subseteq synthesisSessions
    /\ asked \cup audioHeard \subseteq said
    /\ asked # {} => link = "connected"

\* While the socket is up the current text has been sent to the server: a start
\* on an open connection and the end of connecting both send it.
CurrentIsSaid == link = "connected" => current \in said

\* A text is given audio of another one only when that was sent before it: the
\* server's messages name no text, and audio still to come of an earlier one is
\* taken for the current one (onSynthesisResult). A completed text whose
\* predecessors were never sent has its own audio only.
AudioOfEarlier ==
    \A t \in Text :
        /\ \A u \in audioData[t] : u <= t
        /\ t \in complete /\ said \cap 1..t = {t} => audioData[t] = {t}

\* A text that is sent is the one said, and its audio is its own, but for what a
\* text sent while another was said takes over.
TextsAreSpoken == SynthesisTypeOK /\ CurrentIsSaid /\ AudioOfEarlier
=============================================================================
