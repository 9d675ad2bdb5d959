------------------------------ MODULE MCMedia ------------------------------
(***************************************************************************)
(* The media sessions on their thread, for TLC: requests answered by       *)
(* tasks, the streams of a speech recognition, and a speech synthesis.     *)
(* They share the thread and no data, so each of the three is explored     *)
(* while the other two have nothing to do; their states add up instead of  *)
(* multiplying.                                                            *)
(***************************************************************************)
EXTENDS MediaSessions, SpeechRecognition, SpeechSynthesis

NoTasks == owner = [t \in Task |-> NoSession]
NoStreams == streams = [s \in Stream |-> "absent"]
NoTexts == texts = [t \in Text |-> "absent"]

\* Both interfaces take their credentials from the one provider.
MCInit == MediaInit /\ RecognitionInit /\ SynthesisInit /\ (keyed <=> link = "closed")

MCNext ==
    \/ NoStreams /\ NoTexts /\ MediaNext /\ UNCHANGED <<speechVars, synthesisVars>>
    \/ NoTasks /\ NoTexts /\ RecognitionNext /\ UNCHANGED <<mediaVars, synthesisVars>>
    \/ NoTasks /\ NoStreams /\ SynthesisNext /\ UNCHANGED <<mediaVars, speechVars>>

MCSpec ==
    /\ MCInit /\ [][MCNext]_<<mediaVars, speechVars, synthesisVars>>
    /\ Fairness
    /\ RecognitionFairness

\* A request that was taken up is answered in the end, and an end of a stream
\* returns, or locks the thread.
CallsEnd == PictureRequestsEnd /\ EndsReturn
=============================================================================
