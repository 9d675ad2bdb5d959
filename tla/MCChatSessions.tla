--------------------------- MODULE MCChatSessions ---------------------------
(***************************************************************************)
(* Sessions for TLC: every task uses a cloud model and no type is          *)
(* throttled, so that no concurrency limit hides what the sessions do.     *)
(***************************************************************************)
EXTENDS ChatSessions, TLC

MCPools == {"General"}
MCPoolSize == [p \in MCPools |-> 1]

\* Tasks 1 and 2 are chats, task 3 a function call.
ChatsAndCall == (1 :> 100) @@ (2 :> 100) @@ (3 :> 101)
CloudModel == [t \in Task |-> "c"]
=============================================================================
