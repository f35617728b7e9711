-------------------------- MODULE StreamTranslation -------------------------
(***************************************************************************)
(* proxy/streaming.rs and stream_response in proxy/server.rs: one stream   *)
(* of a provider that speaks Chat Completions or Anthropic Messages is     *)
(* translated for an agent that speaks OpenAI Responses (between equal     *)
(* protocols the proxy passes bytes through).  Each upstream event is      *)
(* decoded into canonical events, each of which makes the encoder          *)
(* (ResponsesStreamState) emit the frames a Responses client expects.      *)
(***************************************************************************)
EXTENDS Integers, Sequences, FiniteSets

CONSTANTS
  Pieces,     \* pieces of text or of arguments
  Ids,        \* response ids of the provider
  Tools,      \* indices the provider gives to tool calls
  Usages,     \* token counts
  Protocols,  \* of the provider
  Upstream,   \* events the provider may send
  MaxEvents,  \* bound on how many it sends
  None,       \* an absent field
  Default     \* resp_atsw

\* start is None, Anonymous (metadata without an id) or an id; a usage may be
\* there and null.
Anonymous == "anonymous"
Null == "null"
Event == [start : Ids \cup {None, Anonymous}, text : Pieces \cup {None},
          tool : Tools \cup {None}, args : (Tools \X Pieces) \cup {None},
          end : BOOLEAN, usage : Usages \cup {None, Null}]

ASSUME ConstantsAssumption ==
  /\ Tools \subseteq Nat /\ None \notin Nat \cup Pieces \cup Usages \cup Ids \cup (Tools \X Pieces)
  /\ Anonymous \notin Ids \cup {None} /\ Default \notin Ids \cup {None, Anonymous}
  /\ Null \notin Usages \cup {None}
  /\ Protocols \subseteq {"chat", "anthropic"}
  /\ Upstream \subseteq Event
  /\ MaxEvents \in Nat

VARIABLES
  protocol,  \* of the provider
  told,      \* every event the provider has sent so far
  pc,        \* read, encode, yield, or how the stream ended
  queue,     \* canonical events of the current upstream event
  frames,    \* encoded frames that were not handed to the client yet
  sent,      \* frames the client has received
  enc        \* ResponsesStreamState

vars == <<protocol, told, pc, queue, frames, sent, enc>>

Init ==
  /\ protocol \in Protocols
  /\ told = <<>>
  /\ pc = "read"
  /\ queue = <<>>
  /\ frames = <<>>
  /\ sent = <<>>
  /\ enc = [id |-> None, sequence |-> 0, created |-> FALSE, completed |-> FALSE,
            next |-> 0, textIndex |-> None, text |-> <<>>, tools |-> <<>>, usage |-> None]

-----------------------------------------------------------------------------
(* decode_stream_event *)

Optional(value, event) == IF value = None THEN <<>> ELSE <<event>>

\* A chat chunk may hold everything at once, an Anthropic event one thing: the
\* start with its usage, or the usage and the end.
Sends(e) ==
  protocol = "chat" \/
    LET things == {<<"start", e.start>>, <<"text", e.text>>, <<"tool", e.tool>>, <<"args", e.args>>} IN
    Cardinality({t \in things : t[2] # None})
      + (IF e.end \/ (e.usage # None /\ e.start = None) THEN 1 ELSE 0) <= 1

\* Of a provider that speaks p: decode_anthropic_event does not look for the
\* usage in message_start ...
UsageRead(p, e) == IF p = "anthropic" /\ e.start # None THEN None ELSE e.usage
\* ... and both take a usage that is null for one, without any count.
Figures(usage) == IF usage = Null THEN None ELSE usage

\* Mutant: the usage is told after the end, by every protocol.
EndBeforeUsage(e) ==
  (IF e.end THEN <<[type |-> "MessageEnd"]>> ELSE <<>>)
    \o Optional(UsageRead(protocol, e), [type |-> "Usage", usage |-> Figures(e.usage)])

Ending(e) ==
  LET end == IF e.end THEN <<[type |-> "MessageEnd"]>> ELSE <<>>
      usage == Optional(UsageRead(protocol, e), [type |-> "Usage", usage |-> Figures(e.usage)])
  IN IF protocol = "chat" THEN end \o usage ELSE usage \o end

Decode(e) ==
  Optional(e.start, [type |-> "MessageStart",
                     id |-> IF e.start = Anonymous THEN None ELSE e.start])
    \o Optional(e.text, [type |-> "TextDelta", text |-> e.text])
    \o Optional(e.tool, [type |-> "ToolCallStart", index |-> e.tool])
    \o Optional(e.args, [type |-> "ToolArgumentsDelta", index |-> e.args[1], delta |-> e.args[2]])
    \o Ending(e)

\* An event, or a comment, which decodes to nothing.
Receive ==
  \E e \in Upstream :
    /\ pc = "read"
    /\ Len(told) < MaxEvents
    /\ Sends(e)
    /\ queue' = Decode(e)
    /\ told' = Append(told, e)
    /\ pc' = "encode"
    /\ UNCHANGED <<protocol, frames, sent, enc>>

\* Bytes that are no UTF-8, no JSON or an event without its type.
ReceiveInvalid ==
  /\ pc = "read"
  /\ pc' = "failed"
  /\ UNCHANGED <<protocol, told, queue, frames, sent, enc>>

-----------------------------------------------------------------------------
(* ResponsesStreamState *)

Frame(type, kind, id, index, content) ==
  [type |-> type, kind |-> kind, id |-> id, index |-> index, content |-> content]
Message(type, e, content) == Frame(type, "message", e.id, e.textIndex, content)
Call(type, index, content) == Frame(type, "function_call", None, index, content)

\* ensure_created: the first event, whatever it is, announces the response.
Created(e) ==
  [e EXCEPT !.created = TRUE, !.id = IF ~e.created /\ @ = None THEN Default ELSE @]
Opening(e) ==
  IF e.created THEN <<>>
  ELSE <<Frame("response.created", "response", Created(e).id, None, <<>>)>>

\* The head of the queue turns the encoder into e and makes it emit new.
Emit(e, new) ==
  /\ enc' = [e EXCEPT !.sequence = @ + Len(new)]
  /\ frames' = frames \o
       [i \in DOMAIN new |->
          [type |-> new[i].type, kind |-> new[i].kind, id |-> new[i].id, index |-> new[i].index,
           content |-> new[i].content, sequence |-> e.sequence + i - 1]]
  /\ queue' = Tail(queue)
  /\ UNCHANGED <<protocol, told, pc, sent>>

Encoding(type) ==
  /\ pc = "encode"
  /\ queue # <<>>
  /\ Head(queue).type = type
  /\ ~enc.completed

\* Mutant: a later id replaces the one the client was told.
MessageRestart ==
  LET e == [enc EXCEPT !.id = Head(queue).id] IN
  /\ Encoding("MessageStart")
  /\ Emit(Created(e), Opening(e))

\* The first id counts, and only before the response is announced.
MessageStart ==
  LET e == [enc EXCEPT !.id = IF @ = None THEN Head(queue).id ELSE @] IN
  /\ Encoding("MessageStart")
  /\ Emit(Created(e), Opening(e))

TextDelta ==
  LET new == enc.textIndex = None
      base == Created(enc)
      e == [base EXCEPT !.textIndex = IF new THEN base.next ELSE @,
                        !.next = IF new THEN @ + 1 ELSE @,
                        !.text = Append(@, Head(queue).text)]
  IN
  /\ Encoding("TextDelta")
  /\ Emit(e, Opening(enc)
       \o (IF new THEN <<Message("output_item.added", e, <<>>), Message("content_part.added", e, <<>>)>>
                  ELSE <<>>)
       \o <<Message("output_text.delta", e, <<Head(queue).text>>)>>)

WithTool(e, k, tool) ==
  [e EXCEPT !.tools = [j \in DOMAIN e.tools \cup {k} |-> IF j = k THEN tool ELSE e.tools[j]]]

ToolCallStart ==
  LET k == Head(queue).index
      e == WithTool([Created(enc) EXCEPT !.next = @ + 1], k, [index |-> enc.next, arguments |-> <<>>])
  IN
  /\ Encoding("ToolCallStart")
  /\ k \notin DOMAIN enc.tools
  /\ Emit(e, Opening(enc) \o <<Call("output_item.added", enc.next, <<>>)>>)

\* A provider that repeats id and name in every chunk starts the call once.
ToolCallStarted ==
  /\ Encoding("ToolCallStart")
  /\ Head(queue).index \in DOMAIN enc.tools
  /\ Emit(Created(enc), Opening(enc))

\* Mutant: the upstream index is taken for the output index.
ToolArgumentsMisplaced ==
  LET k == Head(queue).index IN
  /\ Encoding("ToolArgumentsDelta")
  /\ k \in DOMAIN enc.tools
  /\ Emit(WithTool(enc, k, [enc.tools[k] EXCEPT !.arguments = Append(@, Head(queue).delta)]),
          <<Call("function_call_arguments.delta", k, <<Head(queue).delta>>)>>)

ToolArgumentsDelta ==
  LET k == Head(queue).index IN
  /\ Encoding("ToolArgumentsDelta")
  /\ k \in DOMAIN enc.tools
  /\ Emit(WithTool(enc, k, [enc.tools[k] EXCEPT !.arguments = Append(@, Head(queue).delta)]),
          <<Call("function_call_arguments.delta", enc.tools[k].index, <<Head(queue).delta>>)>>)

\* Arguments for a call that was never started end the stream; the frames of
\* the same upstream event are dropped.
ToolCallMissing ==
  /\ Encoding("ToolArgumentsDelta")
  /\ Head(queue).index \notin DOMAIN enc.tools
  /\ pc' = "failed"
  /\ queue' = <<>>
  /\ frames' = <<>>
  /\ enc' = [Created(enc) EXCEPT !.sequence = @ + Len(Opening(enc))]
  /\ UNCHANGED <<protocol, told, sent>>

Usage ==
  /\ Encoding("Usage")
  /\ Emit([enc EXCEPT !.usage = Head(queue).usage], <<>>)

\* complete(): the message, then the calls by the provider's index ...
ClosedMessage(e) ==
  IF e.textIndex = None THEN <<>>
  ELSE <<Message("output_text.done", e, e.text), Message("content_part.done", e, e.text),
         Message("output_item.done", e, e.text)>>

Ascending(S) ==
  CHOOSE s \in [1 .. Cardinality(S) -> S] : \A i, j \in DOMAIN s : i < j => s[i] < s[j]

ClosedCalls(e) ==
  LET keys == Ascending(DOMAIN e.tools) IN
  [i \in 1 .. 2 * Len(keys) |->
     LET tool == e.tools[keys[(i + 1) \div 2]] IN
     Call(IF i % 2 = 1 THEN "function_call_arguments.done" ELSE "output_item.done",
          tool.index, tool.arguments)]

\* Mutant: the output is left in the order in which the items were closed.
OutputAsClosed(e) ==
  LET keys == Ascending(DOMAIN e.tools)
      calls == [i \in DOMAIN keys |->
                  [kind |-> "function_call", content |-> e.tools[keys[i]].arguments]]
  IN IF e.textIndex = None THEN calls ELSE <<[kind |-> "message", content |-> e.text]>> \o calls

\* ... and the whole output, sorted by output index.
Output(e) ==
  [i \in 1 .. e.next |->
     IF e.textIndex = i - 1 THEN [kind |-> "message", content |-> e.text]
     ELSE LET k == CHOOSE j \in DOMAIN e.tools : e.tools[j].index = i - 1 IN
          [kind |-> "function_call", content |-> e.tools[k].arguments]]

Completion(e) ==
  Frame("response.completed", "response", e.id, None, [output |-> Output(e), usage |-> e.usage])

MessageEnd ==
  LET e == Created(enc) IN
  /\ Encoding("MessageEnd")
  /\ Emit([e EXCEPT !.completed = TRUE],
          Opening(enc) \o ClosedMessage(e) \o ClosedCalls(e) \o <<Completion(e)>>)

\* Whatever follows, the second end of [DONE] included, is swallowed.
AfterCompleted ==
  /\ pc = "encode" /\ queue # <<>>
  /\ enc.completed
  /\ queue' = Tail(queue)
  /\ UNCHANGED <<protocol, told, pc, frames, sent, enc>>

-----------------------------------------------------------------------------
(* stream_response *)

Encoded ==
  /\ pc = "encode" /\ queue = <<>>
  /\ pc' = "yield"
  /\ UNCHANGED <<protocol, told, queue, frames, sent, enc>>

\* Mutant: one frame per upstream event, as for the other two encoders.
YieldFirst ==
  /\ pc = "yield" /\ frames # <<>>
  /\ sent' = Append(sent, Head(frames))
  /\ frames' = <<>>
  /\ UNCHANGED <<protocol, told, pc, queue, enc>>

Yield ==
  /\ pc = "yield" /\ frames # <<>>
  /\ sent' = Append(sent, Head(frames))
  /\ frames' = Tail(frames)
  /\ UNCHANGED <<protocol, told, pc, queue, enc>>

Yielded ==
  /\ pc = "yield" /\ frames = <<>>
  /\ pc' = "read"
  /\ UNCHANGED <<protocol, told, queue, frames, sent, enc>>

UpstreamEnds ==
  /\ pc = "read"
  /\ pc' \in {"ended", "failed"}
  /\ UNCHANGED <<protocol, told, queue, frames, sent, enc>>

\* The generator is dropped where it waits.
ClientLeaves ==
  /\ pc \in {"read", "yield"}
  /\ pc' = "gone"
  /\ UNCHANGED <<protocol, told, queue, frames, sent, enc>>

Transcode ==
  \/ MessageStart \/ TextDelta \/ ToolCallStart \/ ToolCallStarted \/ ToolArgumentsDelta
  \/ ToolCallMissing \/ Usage \/ MessageEnd \/ AfterCompleted
  \/ Encoded \/ Yield \/ Yielded

Next == Receive \/ ReceiveInvalid \/ Transcode \/ UpstreamEnds \/ ClientLeaves

Spec == Init /\ [][Next]_vars

\* The generator is polled as long as the client reads; nothing makes the
\* provider send or end.
FairSpec == Spec /\ WF_vars(Transcode)
-----------------------------------------------------------------------------
\* The type of every variable.
CanonicalEvent ==
       [type : {"MessageStart"}, id : Ids \cup {None}]
  \cup [type : {"TextDelta"}, text : Pieces]
  \cup [type : {"ToolCallStart"}, index : Tools]
  \cup [type : {"ToolArgumentsDelta"}, index : Tools, delta : Pieces]
  \cup [type : {"Usage"}, usage : Usages \cup {None}]
  \cup [type : {"MessageEnd"}]

IsSeqOf(s, S) == DOMAIN s = 1 .. Len(s) /\ \A i \in DOMAIN s : s[i] \in S

TypeOK ==
  /\ protocol \in Protocols
  /\ IsSeqOf(told, Event) /\ IsSeqOf(queue, CanonicalEvent)
  /\ pc \in {"read", "encode", "yield", "failed", "ended", "gone"}
  /\ enc.id \in Ids \cup {None, Default}
  /\ enc.created = (enc.sequence > 0)
  /\ enc.created => enc.id # None
  /\ enc.completed \in BOOLEAN
  /\ enc.sequence \in Nat /\ enc.next \in Nat
  /\ enc.textIndex \in Nat \cup {None}
  /\ IsSeqOf(enc.text, Pieces)
  /\ DOMAIN enc.tools \subseteq Tools
  /\ \A k \in DOMAIN enc.tools :
       enc.tools[k].index \in Nat /\ IsSeqOf(enc.tools[k].arguments, Pieces)
  /\ enc.usage \in Usages \cup {None}

\* What the client has been sent, of some type.
Received(types) == {i \in DOMAIN sent : sent[i].type \in types}
DeltaTypes == {"output_text.delta", "function_call_arguments.delta"}

\* The members of s at the positions S.
Selected(s, S) ==
  LET upTo[n \in 0 .. Len(s)] ==
        IF n = 0 THEN <<>> ELSE IF n \in S THEN Append(upTo[n - 1], s[n]) ELSE upTo[n - 1]
  IN upTo[Len(s)]

Deltas(index) ==
  LET s == Selected(sent, {i \in Received(DeltaTypes) : sent[i].index = index}) IN
  [i \in DOMAIN s |-> s[i].content[1]]

ClientStatus ==
  IF Received({"response.completed"}) # {} THEN "completed"
  ELSE IF Received({"response.created"}) # {} THEN "in_progress" ELSE "none"

ClientItems ==
  LET added == Received({"output_item.added"}) IN
  [n \in {sent[i].index + 1 : i \in added} |->
     [kind |-> sent[CHOOSE i \in added : sent[i].index = n - 1].kind,
      content |-> Deltas(n - 1),
      open |-> \A i \in Received({"output_item.done"}) : sent[i].index # n - 1]]

Lifecycle == INSTANCE ResponsesLifecycle WITH
  ItemKinds <- {"message", "function_call"},
  status <- ClientStatus, items <- ClientItems, received <- Len(sent)

\* Whatever a provider sends, in whatever order, every frame a client receives
\* is one it may expect: announced, extended and closed items, in order, and
\* one completion after all of them.
ImplementsLifecycle == Lifecycle!Spec

\* What a client is told to be final is what it has been sent before: the done
\* frame of an item holds the accumulated deltas, and the completed response
\* all items in the order of their output index.
FinalIsAccumulated ==
  \A i \in DOMAIN sent :
    CASE sent[i].type \in {"output_text.done", "content_part.done",
                           "function_call_arguments.done", "output_item.done"} ->
           sent[i].content = Deltas(sent[i].index)
      [] sent[i].type = "response.completed" ->
           sent[i].content.output =
             [n \in DOMAIN ClientItems |->
                [kind |-> ClientItems[n].kind, content |-> ClientItems[n].content]]
      [] OTHER -> TRUE

\* The frames of one stream are numbered from 0 without a gap, also when frames
\* were dropped, and carry the response id that was announced first.
FramesAreNumbered ==
  \A i \in DOMAIN sent :
    /\ sent[i].sequence = i - 1
    /\ sent[i].kind # "function_call" => sent[i].id = sent[1].id

Ends == {i \in DOMAIN told : told[i].end}
UpToEnd == {i \in DOMAIN told : \A j \in Ends : i <= j}

ToldText ==
  LET s == Selected(told, {i \in UpToEnd : told[i].text # None}) IN
  [i \in DOMAIN s |-> s[i].text]
ToldArguments(k) ==
  LET s == Selected(told, {i \in UpToEnd : told[i].args # None /\ told[i].args[1] = k}) IN
  [i \in DOMAIN s |-> s[i].args[2]]

\* Between two reads the client has all the text and all the arguments that the
\* provider has sent up to its end, in order and under the right item, and the
\* response is completed if and only if the provider has ended.
NothingIsLost ==
  pc = "read" =>
    /\ (IF enc.textIndex = None THEN <<>> ELSE Deltas(enc.textIndex)) = ToldText
    /\ \A k \in Tools :
         (IF k \in DOMAIN enc.tools THEN Deltas(enc.tools[k].index) ELSE <<>>) = ToldArguments(k)
    /\ ClientStatus = "completed" <=> Ends # {}

\* What the client has been given, finished or not, is what the provider said:
\* the encoder neither drops a piece nor closes an item with other content.
ClientHasWhatWasSent == FinalIsAccumulated /\ NothingIsLost

\* The completed response reports the usage the provider has sent last, with
\* its end at the latest, and no other.  What that loses is what the code loses:
\* the usage a chat provider sends with or after its end, all that an Anthropic
\* provider tells with the start (the input tokens), and, where a null comes
\* last, the counts before it.
UsageIsReported ==
  LET counted == {i \in UpToEnd : /\ told[i].usage # None
                                  /\ protocol = "chat" => i \notin Ends
                                  /\ protocol = "anthropic" => told[i].start = None}
  IN \A i \in Received({"response.completed"}) :
       IF counted = {} THEN sent[i].content.usage = None
       ELSE \E n \in counted :
              /\ \A m \in counted : m <= n
              /\ sent[i].content.usage = IF told[n].usage = Null THEN None ELSE told[n].usage

\* Once the encoder has completed the response, the client gets all of it, even
\* if the rest of the stream is broken, unless the client itself leaves.
EndIsDelivered == enc.completed ~> ClientStatus = "completed" \/ pc = "gone"
=============================================================================
