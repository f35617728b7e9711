------------------------------ MODULE MCExchange ------------------------------
(* Exchange for TLC: bodies and answers in each protocol, and the events of a  *)
(* provider's stream.                                                          *)
EXTENDS Exchange, TLC

CONSTANTS i1, x, y, u1, u2, f, web, a, b

Comment == [start |-> None, text |-> None, tool |-> None, args |-> None,
            end |-> FALSE, usage |-> None]

\* Metadata with and without an id, text, calls and their arguments, alone or
\* in one event, endings with and without the usage, a start with a usage of
\* its own and a usage that is null.
SomeEvents ==
  LET C == Comment IN
  {C, [C EXCEPT !.start = i1, !.usage = u2], [C EXCEPT !.start = Anonymous], [C EXCEPT !.usage = Null],
   [C EXCEPT !.text = x], [C EXCEPT !.text = y],
   [C EXCEPT !.tool = 1], [C EXCEPT !.tool = 0, !.args = <<0, x>>],
   [C EXCEPT !.args = <<0, y>>], [C EXCEPT !.args = <<1, x>>], [C EXCEPT !.tool = 0],
   [C EXCEPT !.start = i1, !.text = x, !.end = TRUE],
   [C EXCEPT !.end = TRUE], [C EXCEPT !.usage = u1], [C EXCEPT !.end = TRUE, !.usage = u1]}

Codecs == INSTANCE ProtocolCodecs

Body(system, messages, tools, native, choice, max) ==
  [system |-> system, messages |-> messages, tools |-> tools, native |-> native, choice |-> choice, max |-> max]
Plain(role, text) == Codecs!ChatMessage(role, text, <<>>, None)
Says(role, text) == Codecs!Item("message", role, text, None)
Calls(id) == Codecs!Item("function_call", None, <<>>, id)
Outputs(id, text) == Codecs!Item("function_call_output", None, text, id)
Blocks(role, content) == [role |-> role, content |-> content]

\* Parallel calls and their results, instructions in every place, choices of
\* every form, native tools, and content that cannot be converted.
ChatBodies ==
  {Body(None, <<Plain("system", <<x>>), Plain("user", <<x, y>>),
                Codecs!ChatMessage("assistant", <<y>>, <<a, b>>, None),
                Codecs!ChatMessage("tool", <<x>>, <<>>, a), Codecs!ChatMessage("tool", <<>>, <<>>, b),
                Plain("developer", <<y>>), Plain("user", <<y>>)>>,
        <<f>>, <<>>, Codecs!Choice("word", "auto"), 5),
   Body(None, <<Plain("user", <<x>>)>>, <<>>, <<>>, Codecs!Choice("word", "required"), None),
   Body(None, <<Plain("user", <<x>>)>>, <<f>>, <<>>, Codecs!Choice("nested", f), None),
   Body(None, <<Plain("user", <<x>>)>>, <<f>>, <<>>, Codecs!Choice("word", "none"), 5),
   Body(None, <<Plain("user", <<Image>>)>>, <<>>, <<>>, None, 5),
   Body(None, <<Plain("user", <<x>>)>>, <<>>, <<web>>, None, 5)}

ResponsesBodies ==
  {Body(<<x>>, <<Says("developer", <<y>>), Says("user", <<x>>), Says("assistant", <<y>>),
                 Calls(a), Calls(b), Outputs(a, <<x>>), Outputs(b, <<y>>), Says("user", <<y, x>>)>>,
        <<f>>, <<web>>, Codecs!Choice("flat", f), None),
   Body(None, <<Says("user", <<x>>)>>, <<f>>, <<web>>, Codecs!Choice("word", "required"), 5),
   Body(None, <<Says("user", <<x>>)>>, <<>>, <<>>, Codecs!Choice("native", web), 5),
   Body(<<x>>, <<Codecs!Item("reasoning", None, <<>>, None)>>, <<>>, <<>>, None, 5)}

AnthropicBodies ==
  {Body(<<x>>, <<Blocks("user", <<Codecs!Text(<<x>>), Codecs!Text(<<y>>)>>),
                 Blocks("assistant", <<Codecs!Text(<<y>>), Codecs!ToolCall(a), Codecs!ToolCall(b)>>),
                 Blocks("user", <<Codecs!ToolResult(a, <<x>>, FALSE), Codecs!ToolResult(b, <<y>>, TRUE),
                                  Codecs!Text(<<x>>)>>)>>,
        <<f>>, <<>>, None, 5),
   Body(None, <<Blocks("user", <<Codecs!Text(<<x>>)>>)>>, <<f>>, <<>>, Codecs!Choice("tool", f), 5),
   Body(None, <<Blocks("user", <<Codecs!Text(<<x>>)>>)>>, <<f>>, <<>>, Codecs!Choice("type", "any"), 5),
   Body(None, <<Blocks("user", <<[type |-> "image"]>>)>>, <<>>, <<>>, None, 5)}

SomeBodies(p) ==
  CASE p = "chat" -> ChatBodies [] p = "responses" -> ResponsesBodies [] p = "anthropic" -> AnthropicBodies

\* With and without cached tokens, and of kinds that cannot be converted.
SomeReplies(p) ==
  LET U == Codecs!Usage(u1, u2) IN
  CASE p = "chat" -> {[text |-> <<x, y>>, calls |-> <<a, b>>, usage |-> U], [text |-> <<Image>>, calls |-> <<>>, usage |-> U]}
    [] p = "responses" ->
         {[output |-> <<Says("assistant", <<x>>), Calls(a), Says("assistant", <<y>>)>>, usage |-> U],
          [output |-> <<Codecs!Item("reasoning", None, <<>>, None)>>, usage |-> Codecs!Usage(u1, None)]}
    [] p = "anthropic" ->
         {[content |-> <<Codecs!Text(<<x>>), Codecs!ToolCall(a), Codecs!Text(<<y>>)>>, usage |-> U],
          [content |-> <<Codecs!Text(<<x>>)>>, usage |-> Codecs!Usage(u1, None)],
          [content |-> <<[type |-> "thinking"]>>, usage |-> U]}

\* Of each protocol an agent, known by its token, and a provider.
Speakers == Codecs!ApiProtocols
Speaking == [p \in Codecs!ApiProtocols |-> p]
=============================================================================
