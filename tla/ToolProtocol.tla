---------------------------- MODULE ToolProtocol ----------------------------
(***************************************************************************)
(* The messages of a conversation with tools, and validateToolConversation *)
(* of internal/web/tool_state.go, which openaiChat applies to every request *)
(* on whichever protocol it came.                                          *)
(***************************************************************************)
EXTENDS Naturals, Sequences, FiniteSets, SequencesExt

User             == [role |-> "user"]
Assistant(calls) == [role |-> "assistant", calls |-> calls]
Tool(id, out)    == [role |-> "tool", id |-> id, out |-> out]

\* validateToolConversation, one message: pending holds the calls of the last
\* assistant message that lack a result.
IdsOf(m) == {m.calls[k].id : k \in DOMAIN m.calls}
Check(s, m) ==
    CASE m.role = "assistant" ->
           [ok        |-> /\ s.ok /\ s.pending = {}
                          /\ Cardinality(IdsOf(m)) = Len(m.calls)
                          /\ IdsOf(m) \cap s.completed = {},
            pending   |-> IdsOf(m),
            completed |-> s.completed]
      [] m.role = "tool" ->
           [ok        |-> s.ok /\ m.id \in s.pending,
            pending   |-> s.pending \ {m.id},
            completed |-> s.completed \cup {m.id}]
      [] OTHER -> s
Fresh == [ok |-> TRUE, pending |-> {}, completed |-> {}]
Checked(msgs) ==
    LET after[n \in 0..Len(msgs)] == IF n = 0 THEN Fresh ELSE Check(after[n - 1], msgs[n])
    IN  after[Len(msgs)]

\* A slip: what is pending at the end is not looked at.
ValidUntilEnd(msgs) == Checked(msgs).ok

Valid(msgs) == Checked(msgs).ok /\ Checked(msgs).pending = {}
=============================================================================
