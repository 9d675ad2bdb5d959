-------------------------- MODULE MCEmbeddingIndex --------------------------
(***************************************************************************)
(* For TLC, two components that keep files and owe nobody progress: the    *)
(* vector index, with document a of two chunks, b and c of one, created    *)
(* one by one or in one call; and the providers' configuration. Two chunks *)
(* make the index large: one document may fill it, or two, or what a       *)
(* deletion leaves of three. The two share nothing, so each is explored    *)
(* while the other has nothing to do.                                      *)
(***************************************************************************)
EXTENDS EmbeddingIndex, ModelConfiguration, TLC

MCChunks == ("a" :> 2) @@ ("b" :> 1) @@ ("c" :> 1)
OneOrAll == {<<"a">>, <<"b">>, <<"b", "a", "c">>}

\* The providers' file as it is first: openai for both types, ernie for chats,
\* one key.
Providers == <<"ernie", "openai">>
Types == <<"Chat", "FunctionCalling">>
Packaged ==
    [defaults |-> [t \in {"Chat", "FunctionCalling"} |-> "openai"],
     providers |->
        ("openai" :> [keys |-> "api_key" :> "key1",
                      models |-> [t \in {"Chat", "FunctionCalling"} |-> "m1"]]) @@
        ("ernie" :> [keys |-> <<>>, models |-> "Chat" :> "m1"])]

OnlyPackaged == {Packaged}

NoVectors == creates = 0 /\ searches = 0 /\ abort = {} /\ ~damaged
NoConfiguring == tool = "closed" /\ changes = 0 /\ request = NoRequest

\* The vector index is explored once, beside the file that is absent. An
\* interface that was made is not changed any more, so nothing else need
\* happen before it is given back.
MCInit == Init /\ ConfigInit
MCNext ==
    \/ NoConfiguring /\ file.state = "absent" /\ Next /\ UNCHANGED configVars
    \/ NoVectors /\ GiveBack /\ UNCHANGED vars
    \/ NoVectors /\ request.at \notin {"ready", "invalid"} /\ Work /\ UNCHANGED vars
MCSpec == MCInit /\ [][MCNext]_<<vars, configVars>>

=============================================================================
