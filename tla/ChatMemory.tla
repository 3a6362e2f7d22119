----------------------------- MODULE ChatMemory -----------------------------
(***************************************************************************)
(* AgentMemory of eda_agent/agent/memory.py: what is done to the list of   *)
(* messages of a session, as operators on a sequence.  A message keeps its *)
(* role, the tool calls it makes and the call it answers; the text is the  *)
(* caller's business, and its length enters through Bytes and Tokens.      *)
(***************************************************************************)
EXTENDS Naturals, Sequences, FiniteSets

CONSTANTS MaxMessages,  \* AgentMemory's max_messages (40)
          MaxCalls,     \* bound: tool calls in one assistant turn
          MaxBytes,     \* MAX_SESSION_BYTES
          Bytes(_),     \* size of a list of messages once serialised
          Tokens(_)     \* _trim_to_token_budget's estimate, without the system prompt

ASSUME MaxAssumption   == MaxMessages \in Nat \ {0} /\ MaxCalls \in Nat
ASSUME BytesAssumption == MaxBytes \in Nat

CallIds == 1 .. MaxCalls
NoCall  == 0

\* calls: the ids in tool_calls; answers: the tool_call_id of a tool message.
Message == [role    : {"user", "assistant", "tool"},
            calls   : SUBSET CallIds,
            answers : CallIds \cup {NoCall}]

User            == [role |-> "user", calls |-> {}, answers |-> NoCall]
Assistant(ids)  == [role |-> "assistant", calls |-> ids, answers |-> NoCall]
ToolResult(id)  == [role |-> "tool", calls |-> {}, answers |-> id]

IsTool(m) == m.role = "tool"

-----------------------------------------------------------------------------
(* Dropping from the front.  All three limits drop the first message and   *)
(* the tool messages that follow it, until what is left fits or nothing is. *)

\* What can be left: everything, or a suffix that does not begin with a tool
\* message.
Suffixes(h) ==
    {h} \cup {SubSeq(h, i, Len(h)) : i \in {k \in 2 .. Len(h) : ~IsTool(h[k])}} \cup {<<>>}

Longest(S) == CHOOSE s \in S : \A t \in S : Len(t) <= Len(s)

\* _evict_if_needed
Evict(h) == Longest({s \in Suffixes(h) : Len(s) <= MaxMessages})

\* add
Add(h, m) == Evict(Append(h, m))

\* shrink_to_byte_budget
Shrink(h) == Longest({s \in Suffixes(h) : Bytes(s) <= MaxBytes \/ s = <<>>})

\* Faulty variant: any message may be the first one left.
TrimSingly(h, budget) ==
    Longest({s \in {SubSeq(h, i, Len(h)) : i \in 1 .. Len(h)} \cup {<<>>} :
                Tokens(s) <= budget \/ s = <<>>})

\* _trim_to_token_budget, on what follows the system prompt.
Trim(h, budget) == Longest({s \in Suffixes(h) : Tokens(s) <= budget \/ s = <<>>})

-----------------------------------------------------------------------------
(* Loading.                                                                *)

\* The messages from the latest assistant turn before i up to i are its tool
\* results: i answers a call of that turn.
Paired(h, i) ==
    \E k \in 1 .. i - 1 :
        /\ h[k].role = "assistant"
        /\ h[i].answers \in h[k].calls
        /\ \A m \in k + 1 .. i - 1 : IsTool(h[m])

\* Faulty variant: a turn is good for one answer.
KeptFirst(h, i) ==
    IsTool(h[i]) => i > 1 /\ h[i - 1].role = "assistant" /\ h[i].answers \in h[i - 1].calls

\* A tool message is kept only as the first answer to a call of that turn.
Kept(h, i) ==
    IsTool(h[i]) =>
        \E k \in 1 .. i - 1 :
            /\ h[k].role = "assistant"
            /\ h[i].answers \in h[k].calls
            /\ \A m \in k + 1 .. i - 1 : IsTool(h[m]) /\ h[m].answers # h[i].answers

\* _load_messages: drop the rest, then evict.
LoadMessages(h) ==
    LET kept   == {i \in 1 .. Len(h) : Kept(h, i)}
        nth(n) == CHOOSE i \in kept : Cardinality({k \in kept : k < i}) = n - 1
    IN Evict([n \in 1 .. Cardinality(kept) |-> h[nth(n)]])
=============================================================================
