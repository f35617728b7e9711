------------------------------ MODULE Exchange ------------------------------
(***************************************************************************)
(* The proxy between agents and providers: many requests under way         *)
(* (ProxyRequests), or one translated stream in detail (StreamTranslation),*)
(* which is what the step Stream of the former does.  A behaviour is one   *)
(* of the two; they share no state.                                        *)
(***************************************************************************)
EXTENDS StreamTranslation

CONSTANTS
  Requests, Tokens, Speaks, Providers, Bodies(_), Replies(_), MaxEdits,
  Malformed, Rejected, Image, Notice

VARIABLES
  acting,                                        \* stream or requests
  rows, routes, keys, requests, metrics, edits   \* of ProxyRequests

Proxy == INSTANCE ProxyRequests

proxyVars == <<rows, routes, keys, requests, metrics, edits>>

ExchangeInit == Init /\ Proxy!Init /\ (acting = "stream" \/ (acting = "requests" /\ protocol = "chat"))

StreamNext == acting = "stream" /\ Next /\ UNCHANGED <<acting, proxyVars>>
RequestsNext == acting = "requests" /\ Proxy!Next /\ UNCHANGED <<acting, vars>>
ExchangeNext == StreamNext \/ RequestsNext

\* The generator of a stream is polled as long as its client reads.
ExchangeSpec ==
  /\ ExchangeInit
  /\ [][ExchangeNext]_<<acting, vars, proxyVars>>
  /\ WF_<<acting, vars, proxyVars>>(acting = "stream" /\ Transcode /\ UNCHANGED <<acting, proxyVars>>)

\* A translated request or answer says what the original does.
NothingIsDropped == Proxy!NothingIsDropped

\* A request carries the key that was saved with the URL it goes to.
CredentialsMatch == Proxy!CredentialsMatch

\* The metrics tell what became of the requests.
CountsAgree == Proxy!CountsAgree
=============================================================================
