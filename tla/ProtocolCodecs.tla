--------------------------- MODULE ProtocolCodecs ---------------------------
(***************************************************************************)
(* proxy/codecs.rs and proxy/canonical.rs: requests and replies of three   *)
(* protocols are decoded into a canonical form and encoded from it.        *)
(*                                                                         *)
(* A text is a sequence of pieces, a tool or a tool call is its name or    *)
(* id.  What both sides only copy (the model, temperature, schemas, the    *)
(* arguments of a call, the reason a reply ends, in the words of the       *)
(* source) is left out.  Rejected is an error of the codec.                *)
(***************************************************************************)
EXTENDS Naturals, Sequences, SequencesExt

CONSTANTS
  None,
  Rejected,
  Image,     \* a piece of content that is no text
  Notice     \* that tools of Responses are unavailable

ApiProtocols == {"chat", "responses", "anthropic"}

Text(pieces) == [type |-> "text", text |-> pieces]
\* decode_openai_content: content that is absent has no block.
Content(pieces) == IF pieces = <<>> THEN <<>> ELSE <<Text(pieces)>>
ToolCall(id) == [type |-> "call", id |-> id]
ToolResult(id, text, isError) == [type |-> "result", id |-> id, text |-> text, error |-> isError]

Map(F(_), seq) == [i \in DOMAIN seq |-> F(seq[i])]
OfType(content, type) == SelectSeq(content, LAMBDA b : b.type = type)

\* joined_text
Joined(content) == FlattenSeq(Map(LAMBDA b : b.text, OfType(content, "text")))

\* content blocks that are not text cannot be converted
Convertible(texts) == \A t \in ToSet(texts) : Image \notin ToSet(t)

-----------------------------------------------------------------------------
(* Requests: [system, messages, tools, native, choice, max] *)

\* append_system
Appended(system, texts) ==
  LET all == (IF system = None THEN <<>> ELSE system) \o FlattenSeq(texts) IN
  IF all = <<>> THEN system ELSE all

Instructs(m) == m.type = "message" /\ m.role \in {"system", "developer"}
Instructions(messages) == Map(LAMBDA m : m.text, SelectSeq(messages, Instructs))
Others(messages) == SelectSeq(messages, LAMBDA m : ~Instructs(m))

DecodeChatRequest(v) ==
  LET Message(m) ==
        IF m.role = "tool" THEN [role |-> "user", content |-> <<ToolResult(m.id, m.text, FALSE)>>]
        ELSE [role |-> m.role, content |-> Content(m.text) \o Map(ToolCall, m.calls)]
  IN IF ~Convertible(Map(LAMBDA m : m.text, v.messages)) \/ v.native # <<>> THEN Rejected
     ELSE [v EXCEPT !.system = Appended(None, Instructions(v.messages)),
                    !.messages = Map(Message, Others(v.messages))]

\* call_id, or id
DecodeResponsesRequest(v) ==
  LET Message(m) ==
        CASE m.type = "message" -> [role |-> m.role, content |-> Content(m.text)]
          [] m.type = "function_call" -> [role |-> "assistant", content |-> <<ToolCall(m.id)>>]
          [] m.type = "function_call_output" ->
               [role |-> "user", content |-> <<ToolResult(m.id, m.text, FALSE)>>]
      Known(m) == m.type \in {"message", "function_call", "function_call_output"}
  IN IF \/ \E m \in ToSet(v.messages) : ~Known(m)
        \/ ~Convertible(Map(LAMBDA m : m.text, OfType(v.messages, "message")))
       THEN Rejected
     ELSE [v EXCEPT !.system = Appended(@, Instructions(v.messages)),
                    !.messages = Map(Message, Others(v.messages))]

\* The canonical form is Anthropic's own; tools have no type to be refused by.
DecodeAnthropicRequest(v) ==
  IF \E m \in ToSet(v.messages) : \E b \in ToSet(m.content) : b.type \notin {"text", "call", "result"}
    THEN Rejected ELSE v

DecodeRequest(protocol, v) ==
  CASE protocol = "chat" -> DecodeChatRequest(v)
    [] protocol = "responses" -> DecodeResponsesRequest(v)
    [] protocol = "anthropic" -> DecodeAnthropicRequest(v)

\* A choice is a word or names a function, as Chat Completions writes it
\* ("nested"), as Responses does ("flat"), or Anthropic ("tool").
Choice(form, name) == [form |-> form, name |-> name]
Words == {"auto", "none", "required"}

NormalizedForChat(choice, hasTools) ==
  CASE choice = None -> None
    [] choice \in {Choice("word", w) : w \in {"auto", "none"}} -> choice
    [] choice = Choice("word", "required") -> IF hasTools THEN choice ELSE Rejected
    [] choice.form \in {"nested", "flat"} -> Choice("nested", choice.name)
    [] OTHER -> Rejected

NormalizedForAnthropic(choice, hasTools) ==
  CASE choice = None -> None
    [] choice = Choice("word", "auto") -> Choice("type", "auto")
    [] choice = Choice("word", "required") -> IF hasTools THEN Choice("type", "any") ELSE Rejected
    [] choice = Choice("word", "none") -> Rejected
    [] choice.form \in {"nested", "flat"} -> Choice("tool", choice.name)
    [] choice.form = "tool" \/ choice \in {Choice("type", w) : w \in {"auto", "any"}} -> choice
    [] OTHER -> Rejected

\* Tools of Responses that no other protocol has are named in the system prompt.
WithNotice(c) ==
  IF c.native = <<>> THEN c.system ELSE (IF c.system = None THEN <<>> ELSE c.system) \o <<Notice>>

ChatMessage(role, text, calls, id) ==
  [type |-> "message", role |-> role, text |-> text, calls |-> calls, id |-> id]
IdsIn(content, type) == Map(LAMBDA b : b.id, OfType(content, type))

ChatResults(m) == Map(LAMBDA b : ChatMessage("tool", b.text, <<>>, b.id), OfType(m.content, "result"))

\* Mutant: a message with text or calls is taken to have no results.
ChatMessagesOrResults(m) ==
  LET text == Joined(m.content)
      calls == IdsIn(m.content, "call")
  IN IF text = <<>> /\ calls = <<>> THEN ChatResults(m) ELSE <<ChatMessage(m.role, text, calls, None)>>

\* The text and the calls of a message are one, each result one after it.
ChatMessages(m) ==
  LET text == Joined(m.content)
      calls == IdsIn(m.content, "call")
  IN (IF text = <<>> /\ calls = <<>> THEN <<>> ELSE <<ChatMessage(m.role, text, calls, None)>>)
       \o ChatResults(m)

EncodeChatRequest(c) ==
  LET system == WithNotice(c)
      choice == NormalizedForChat(c.choice, c.tools # <<>>)
  IN IF choice = Rejected THEN Rejected
     ELSE [system |-> None, tools |-> c.tools, native |-> <<>>, choice |-> choice, max |-> c.max,
           messages |-> (IF system = None THEN <<>> ELSE <<ChatMessage("system", system, <<>>, None)>>)
                        \o FlattenSeq(Map(ChatMessages, c.messages))]

Item(type, role, text, id) == [type |-> type, role |-> role, text |-> text, id |-> id]

\* What the code writes of a choice for Responses is what it read.
EncodeResponsesRequest(c) ==
  LET Block(b) == IF b.type = "call" THEN Item("function_call", None, <<>>, b.id)
                  ELSE Item("function_call_output", None, b.text, b.id)
      Encoded(m) ==
        (IF Joined(m.content) = <<>> THEN <<>> ELSE <<Item("message", m.role, Joined(m.content), None)>>)
        \o Map(Block, SelectSeq(m.content, LAMBDA b : b.type # "text"))
  IN [c EXCEPT !.messages = FlattenSeq(Map(Encoded, @))]

\* Anthropic demands a limit.
DefaultMax == 1024
EncodeAnthropicRequest(c) ==
  LET choice == NormalizedForAnthropic(c.choice, c.tools # <<>>) IN
  IF choice = Rejected THEN Rejected
  ELSE [c EXCEPT !.system = WithNotice(c), !.native = <<>>, !.choice = choice,
                 !.max = IF @ = None THEN DefaultMax ELSE @]

EncodeRequest(protocol, c) ==
  CASE protocol = "chat" -> EncodeChatRequest(c)
    [] protocol = "responses" -> EncodeResponsesRequest(c)
    [] protocol = "anthropic" -> EncodeAnthropicRequest(c)

-----------------------------------------------------------------------------
(* Replies: [content, usage], in Chat Completions text and calls, in         *)
(* Responses output items, in Anthropic Messages blocks.  A usage is a count *)
(* of tokens and one of those read from a cache.                             *)

Usage(tokens, cached) == [tokens |-> tokens, cached |-> cached]

DecodeReply(protocol, v) ==
  CASE protocol = "chat" ->
         IF Image \in ToSet(v.text) THEN Rejected
         ELSE [content |-> Content(v.text) \o Map(ToolCall, v.calls), usage |-> v.usage]
    [] protocol = "responses" ->
         IF \E m \in ToSet(v.output) : m.type \notin {"message", "function_call"} \/ Image \in ToSet(m.text)
           THEN Rejected
         ELSE [content |-> Map(LAMBDA m : IF m.type = "message" THEN Text(m.text) ELSE ToolCall(m.id), v.output),
               usage |-> v.usage]
    [] protocol = "anthropic" ->
         IF \E b \in ToSet(v.content) : b.type \notin {"text", "call", "result"} THEN Rejected ELSE v

\* Only the encoder of Anthropic writes the tokens read from a cache.
EncodeReply(protocol, c) ==
  CASE protocol = "chat" ->
         [text |-> Joined(c.content), calls |-> IdsIn(c.content, "call"), usage |-> Usage(c.usage.tokens, None)]
    [] protocol = "responses" ->
         [output |-> (IF Joined(c.content) = <<>> THEN <<>>
                      ELSE <<Item("message", "assistant", Joined(c.content), None)>>)
                     \o Map(LAMBDA b : Item("function_call", None, <<>>, b.id), OfType(c.content, "call")),
          usage |-> Usage(c.usage.tokens, None)]
    [] protocol = "anthropic" -> [c EXCEPT !.content = SelectSeq(@, LAMBDA b : b.type # "result")]
=============================================================================
