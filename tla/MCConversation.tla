--------------------------- MODULE MCConversation ---------------------------
(* Instances of Conversation for TLC. *)
EXTENDS Conversation

\* A tool result is twice as long as any other message.
MCSize(h) == Len(h) + Cardinality({i \in 1 .. Len(h) : IsTool(h[i])})
=============================================================================
