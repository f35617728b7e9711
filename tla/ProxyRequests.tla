---------------------------- MODULE ProxyRequests ----------------------------
(***************************************************************************)
(* handle_proxy_request in proxy/server.rs: requests of agents with a      *)
(* local token find the route of the moment, are converted for the         *)
(* provider of that route, sent there with its key, and answered, while    *)
(* the routes are replaced and providers are edited under their feet.      *)
(* A request holds its ActiveConnection until its answer is complete or    *)
(* the client leaves, which drops the request wherever it waits.           *)
(***************************************************************************)
EXTENDS ProtocolCodecs, FiniteSets

CONSTANTS
  Requests,
  Tokens,       \* local tokens, one of an agent
  Speaks,       \* the protocol of the agent of each token
  Providers,    \* the protocol of each provider
  Bodies(_),    \* requests in a protocol
  Malformed,    \* a body that is no JSON
  Replies(_),   \* answers in a protocol
  MaxEdits      \* bound on the edits of providers and the routes registered

VARIABLES
  rows,      \* what each provider has been saved with: base URL, revision of the key
  routes,    \* RouteStore: by token, a provider, its URL and the reference of its key, or None
  keys,      \* the secret store, by reference
  requests,  \* each request, new or at a step, with what it has learnt
  metrics,   \* ProxyMetrics
  edits

vars == <<rows, routes, keys, requests, metrics, edits>>

Current(p) == Last(rows[p])

\* Mutant: a new key replaces the old one under its reference.
RefOfProvider(p, revision) == <<p, 0>>

\* A reference names one key of one provider.
Ref(p, revision) == <<p, revision>>

New == [at |-> "new"]
At(r, step) == requests[r].at = step
InFlight == {r \in Requests : requests[r].at \notin {"new", "ended"}}

Init ==
  /\ rows = [p \in DOMAIN Providers |-> <<[url |-> 0, key |-> 0]>>]
  /\ routes = [t \in Tokens |-> None]
  /\ keys = [ref \in {Ref(p, 0) : p \in DOMAIN Providers} |-> 0]
  /\ requests = [r \in Requests |-> New]
  /\ metrics = [active |-> 0, completed |-> 0, successful |-> 0, conversion |-> 0, upstream |-> 0]
  /\ edits = 0

-----------------------------------------------------------------------------
(* What changes the routes and the keys: a switch, a restore, provider_service *)

Edits == edits < MaxEdits /\ edits' = edits + 1

\* A switch registers the row it has read, which may be old by now.
Register(token, p) ==
  /\ Edits
  /\ \E row \in ToSet(rows[p]) :
       routes' = [routes EXCEPT ![token] = [provider |-> p, url |-> row.url, ref |-> Ref(p, row.key)]]
  /\ UNCHANGED <<rows, keys, requests, metrics>>

Unregister(token) ==
  /\ routes[token] # None
  /\ routes' = [routes EXCEPT ![token] = None]
  /\ UNCHANGED <<rows, keys, requests, metrics, edits>>

\* A new key is stored first, then the row that names it, at another URL or at
\* the same ...
EditKey(p) ==
  /\ Edits
  /\ LET revision == Current(p).key + 1
         ref == Ref(p, revision)
     IN /\ keys' = [k \in DOMAIN keys \cup {ref} |-> IF k = ref THEN revision ELSE keys[k]]
        /\ \E url \in Current(p).url .. Current(p).url + 1 :
             rows' = [rows EXCEPT ![p] = Append(@, [url |-> url, key |-> revision])]
  /\ UNCHANGED <<routes, requests, metrics>>

EditUrl(p) ==
  /\ Edits
  /\ rows' = [rows EXCEPT ![p] = Append(@, [Current(p) EXCEPT !.url = @ + 1])]
  /\ UNCHANGED <<routes, keys, requests, metrics>>

\* ... and the old key is deleted last.
DeleteKey(p) ==
  /\ \E row \in ToSet(rows[p]) :
       LET ref == Ref(p, row.key) IN
       /\ ref \in DOMAIN keys /\ ref # Ref(p, Current(p).key)
       /\ keys' = [k \in DOMAIN keys \ {ref} |-> keys[k]]
  /\ UNCHANGED <<rows, routes, requests, metrics, edits>>

-----------------------------------------------------------------------------
(* handle_proxy_request *)

\* The connection counts from here; fetch_add of each of names.
Counts(change, names) ==
  metrics' = [n \in DOMAIN metrics |->
                metrics[n] + (IF n = "active" THEN change ELSE IF n \in names THEN 1 ELSE 0)]

Goes(r, record) == requests' = [requests EXCEPT ![r] = record]

\* The request is over: its connection counts no more.
Ends(r, outcome, names) ==
  Goes(r, [at |-> "ended", outcome |-> outcome]) /\ Counts(-1, names)

Arrive(r) ==
  /\ At(r, "new")
  /\ \E token \in Tokens \cup {None}, protocol \in ApiProtocols :
       Goes(r, [at |-> "resolve", token |-> token, protocol |-> protocol])
  /\ Counts(1, {})
  /\ UNCHANGED <<rows, routes, keys, edits>>

\* The route of the moment, which the request keeps.
Resolve(r) ==
  /\ At(r, "resolve")
  /\ LET q == requests[r] IN
     IF q.token = None \/ routes[q.token] = None \/ Speaks[q.token] # q.protocol
       THEN Ends(r, "refused", {})
       ELSE /\ Goes(r, [at |-> "convert", protocol |-> q.protocol, route |-> routes[q.token]])
            /\ UNCHANGED metrics
  /\ UNCHANGED <<rows, routes, keys, edits>>

\* Between equal protocols only the model is replaced.
Translated(body, source, upstream) ==
  IF body = Malformed THEN Rejected
  ELSE IF source = upstream THEN body
  ELSE LET canonical == DecodeRequest(source, body) IN
       IF canonical = Rejected THEN Rejected ELSE EncodeRequest(upstream, canonical)

\* Parse what the client sent, on which nothing depended so far, convert it,
\* read the key, send: nothing is awaited in between.
Convert(r) ==
  /\ At(r, "convert")
  /\ LET q == requests[r]
         upstream == Providers[q.route.provider]
     IN \E source \in Bodies(q.protocol) \cup {Malformed} :
          LET body == Translated(source, q.protocol, upstream) IN
          CASE body = Rejected -> Ends(r, "unconverted", {"conversion"})
            [] body # Rejected /\ q.route.ref \notin DOMAIN keys -> Ends(r, "keyless", {})
            [] OTHER ->
                 /\ Goes(r, [at |-> "sent", protocol |-> q.protocol, upstream |-> upstream,
                             source |-> source, body |-> body, to |-> q.route, key |-> keys[q.route.ref]])
                 /\ UNCHANGED metrics
  /\ UNCHANGED <<rows, routes, keys, edits>>

\* Mutant: the connection of a stream is dropped when the handler returns.
AnsweredAndDropped(r) ==
  /\ At(r, "sent")
  /\ \E step \in {"body", "stream"} :
       /\ Goes(r, [at |-> step, protocol |-> requests[r].protocol, upstream |-> requests[r].upstream])
       /\ Counts(IF step = "stream" THEN -1 ELSE 0, {})
  /\ UNCHANGED <<rows, routes, keys, edits>>

\* Not reached, refused, or answered, with a stream if the request wants one.
Answered(r) ==
  /\ At(r, "sent")
  /\ \/ Ends(r, "unreachable", {"upstream"})
     \/ Ends(r, "rejected", {"upstream"})
     \/ /\ \E step \in {"body", "stream"} :
             Goes(r, [at |-> step, protocol |-> requests[r].protocol, upstream |-> requests[r].upstream])
        /\ UNCHANGED metrics
  /\ UNCHANGED <<rows, routes, keys, edits>>

\* passthrough_non_stream_response, non_stream_response
Body(r) ==
  /\ At(r, "body")
  /\ LET q == requests[r] IN
     \/ Ends(r, "broken", {"upstream"})
     \/ \E reply \in Replies(q.upstream) :
          LET canonical == DecodeReply(q.upstream, reply) IN
          IF q.protocol # q.upstream /\ canonical = Rejected
            THEN Ends(r, "untranslated", {"conversion"})
          ELSE /\ Goes(r, [at |-> "ended", outcome |-> "served",
                           protocol |-> q.protocol, upstream |-> q.upstream, reply |-> reply,
                           got |-> IF q.protocol = q.upstream THEN reply ELSE EncodeReply(q.protocol, canonical)])
               /\ Counts(-1, {"completed", "successful"})
  /\ UNCHANGED <<rows, routes, keys, edits>>

\* passthrough_stream_response, stream_response: a stream that breaks off is
\* completed too.  An event that cannot be converted ends only a translation.
Stream(r) ==
  /\ At(r, "stream")
  /\ \/ Ends(r, "streamed", {"completed", "successful"})
     \/ Ends(r, "broken", {"completed", "upstream"})
     \/ requests[r].protocol # requests[r].upstream
        /\ Ends(r, "untranslated", {"completed", "conversion"})
  /\ UNCHANGED <<rows, routes, keys, edits>>

\* Drop of ActiveConnection, with the handler or the stream that holds it.
ClientLeaves(r) ==
  /\ r \in InFlight
  /\ Ends(r, "left", {})
  /\ UNCHANGED <<rows, routes, keys, edits>>

Next ==
  \/ \E token \in Tokens, p \in DOMAIN Providers : Register(token, p)
  \/ \E token \in Tokens : Unregister(token)
  \/ \E p \in DOMAIN Providers : EditKey(p) \/ EditUrl(p) \/ DeleteKey(p)
  \/ \E r \in Requests :
       \/ Arrive(r) \/ Resolve(r) \/ Convert(r) \/ Answered(r)
       \/ Body(r) \/ Stream(r) \/ ClientLeaves(r)

Spec == Init /\ [][Next]_vars
-----------------------------------------------------------------------------
(* What a request means to whoever reads it: the calls and results in order, *)
(* what each side said, the instructions, the tools, the one tool it is made *)
(* to use, the limit.                                                        *)

\* What a reader of the protocol makes of a choice: nothing of another's form.
Forced(protocol, choice) ==
  CASE choice = None -> "auto"
    [] choice # None /\ <<protocol, choice.form>> \in
         {<<"chat", "nested">>, <<"responses", "flat">>, <<"anthropic", "tool">>} -> choice.name
    [] choice # None /\ choice.form = IF protocol = "anthropic" THEN "type" ELSE "word" ->
         IF choice.name = "any" THEN "required" ELSE choice.name
    [] OTHER -> Rejected

Meaning(c) ==
  LET blocks == FlattenSeq(Map(LAMBDA m : m.content, c.messages))
      Said(role) == FlattenSeq(Map(LAMBDA m : Joined(m.content), SelectSeq(c.messages, LAMBDA m : m.role = role)))
  IN [flow |-> Map(LAMBDA b : IF b.type = "call" THEN <<"call", b.id>> ELSE <<"result", b.id, b.text>>,
                   SelectSeq(blocks, LAMBDA b : b.type # "text")),
      said |-> [role \in {"user", "assistant"} |-> Said(role)],
      system |-> IF WithNotice(c) = None THEN <<>> ELSE WithNotice(c),
      tools |-> c.tools]

Failures(c) ==
  {b \in UNION {ToSet(m.content) : m \in ToSet(c.messages)} : b.type = "result" /\ b.error}

\* The translation of a request to another protocol reads there as it did
\* before: the conversation, the instructions, the tools and the choice among
\* them, the limit.  An answer keeps its text, its calls and its count of
\* tokens.  Between equal protocols nothing changes.  What a translation loses
\* is no more than this: native tools of Responses, which the instructions then
\* call unavailable; the mark of a result as an error; for Responses a choice
\* that is more than a word, which is left in the form of its source, where no
\* reader of Responses looks for it; the absence of a limit where Anthropic
\* demands one; and, but for Anthropic's clients, the count of tokens read from
\* a cache.
NothingIsDropped ==
  /\ \A r \in Requests : At(r, "sent") =>
       LET q == requests[r] IN
       IF q.protocol = q.upstream THEN q.body = q.source
       ELSE LET before == DecodeRequest(q.protocol, q.source)
                after == DecodeRequest(q.upstream, q.body)
            IN /\ Meaning(after) = Meaning(before)
               /\ Failures(after) = {}
               /\ IF q.upstream = "responses" /\ before.choice # None /\ before.choice.form # "word"
                    THEN after.choice = before.choice
                    ELSE /\ Forced(q.upstream, after.choice) = Forced(q.protocol, before.choice)
                         /\ Forced(q.upstream, after.choice) # Rejected
               /\ after.max = IF before.max = None /\ q.upstream = "anthropic" THEN DefaultMax ELSE before.max
  /\ \A r \in Requests : At(r, "ended") /\ requests[r].outcome = "served" =>
       LET q == requests[r]
           Reading(reply) == [text |-> Joined(reply.content), calls |-> IdsIn(reply.content, "call"), usage |-> reply.usage]
       IN IF q.protocol = q.upstream THEN q.got = q.reply
          ELSE Reading(DecodeReply(q.protocol, q.got)) =
                 [Reading(DecodeReply(q.upstream, q.reply)) EXCEPT
                    !.usage.cached = IF q.protocol = "anthropic" THEN @ ELSE None]

\* Whatever is saved while a request is under way, the key it carries was saved
\* together with the URL it goes to.
CredentialsMatch ==
  \A r \in Requests : At(r, "sent") =>
    \E row \in ToSet(rows[requests[r].to.provider]) :
      row.url = requests[r].to.url /\ row.key = requests[r].key

\* The status window counts a request as active exactly while it is one, and
\* every request that reached its provider, and was not left, once as a success
\* or a failure.
CountsAgree ==
  LET Settled == {r \in Requests : At(r, "ended") /\ requests[r].outcome \notin {"refused", "keyless", "left"}} IN
  /\ metrics.active = Cardinality(InFlight)
  /\ metrics.successful + metrics.conversion + metrics.upstream = Cardinality(Settled)
  /\ metrics.completed >= metrics.successful
=============================================================================
