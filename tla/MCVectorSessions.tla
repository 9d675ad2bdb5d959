-------------------------- MODULE MCVectorSessions --------------------------
(* Two clients' files, the name of one within the name of the other.       *)
EXTENDS VectorSessions

Nested == {<<x, x>> : x \in Base}
=============================================================================
