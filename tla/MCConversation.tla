--------------------------- MODULE MCConversation ---------------------------
(* Conversation with two streams whose ids overlap: a later note of one may *)
(* have a lower id than an earlier note of the other, or the same.          *)
EXTENDS Conversation

MCFirstID == [s \in Streams |-> IF s = MainStream THEN 1 ELSE 0]
=============================================================================
