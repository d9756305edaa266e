------------------------------- MODULE NetHttp -------------------------------
(***************************************************************************)
(* httpobs: a net/http request on its way in, and those its handler makes  *)
(* on their way out.  Between a caller and the network, and between the    *)
(* network and a handler, stands OpenTelemetry's otelhttp, which records   *)
(* what it is shown.  httpobs shows it less: a layer above takes out of    *)
(* the request what no span may carry and leaves it in the context, and a  *)
(* layer below puts it back.                                               *)
(*                                                                         *)
(* A context is inherited: a transport under httpobs that makes a request  *)
(* of its own, say for a token, makes it with the context it was called    *)
(* with.                                                                   *)
(***************************************************************************)
EXTENDS Naturals, Sequences

CONSTANTS
  Hosts,
  URLs,          \* what is asked for: where to, and what no span may carry
  Arrivals,      \* what requests say of their caller
  Routes,        \* the routes the handler's mux knows
  Setups,        \* how handler and clients are made, see SetupType
  MaxRequests    \* bound: http.Requests alive at once

None == "none"
Hideable   == {"query", "forceQuery", "fragment", "user", "opaque"}
CallerInfo == {"userAgent", "forwardedFor", "remoteAddr"}

URL == [to : Hosts, hidden : SUBSET Hideable]

\* blind: WithoutCallerAttributes.  copies: a middleware hands the mux a copy of
\* the request.  base: the transport under httpobs is the network, another
\* NewTransport, or one that makes requests of its own.
SetupType == [blind : BOOLEAN, copies : BOOLEAN, base : {"network", "wrapped", "calling"}]

ASSUME NetHttpAssumption ==
  /\ URLs \subseteq URL
  /\ Arrivals \subseteq SUBSET CallerInfo
  /\ {None, "concrete", "unmatched"} \cap Routes = {}
  /\ Setups \subseteq SetupType
  /\ MaxRequests \in Nat

VARIABLES
  setup,
  inbound,    \* the request being served, and where it is
  server,     \* the SERVER span's attributes
  requests,   \* the http.Requests of the handler's latest call, clones included
  calls,      \* the round trips under way, the innermost last
  client,     \* the URLs of its CLIENT spans
  wire        \* what was sent for it, and what had been asked for

NoSetup == [blind |-> FALSE, copies |-> FALSE, base |-> None]

netVars == <<setup, inbound, server, requests, calls, client, wire>>

NetInit ==
  /\ setup = NoSetup
  /\ inbound = [at |-> "awaited", sent |-> {}, caller |-> {}, saved |-> {}, pattern |-> None]
  /\ server = [path |-> None, route |-> None, caller |-> {}, ended |-> FALSE]
  /\ requests = <<>> /\ calls = <<>>
  /\ client = {} /\ wire = {}

-----------------------------------------------------------------------------
(* Inbound: NewHandler                                                     *)

Serving == calls = <<>> /\ UNCHANGED <<setup, requests, calls, client, wire>>

\* net/http hands a request to the handler of one of the services.
Arrive ==
  /\ inbound.at = "awaited"
  /\ setup' \in Setups
  /\ \E who \in Arrivals :
       inbound' = [inbound EXCEPT !.at = "arrived", !.sent = who, !.caller = who]
  /\ UNCHANGED <<server, requests, calls, client, wire>>

\* scrubCallerAttributes, on a clone without what otelhttp reads the caller from.
Blind ==
  /\ inbound.at = "arrived"
  /\ inbound' = IF setup.blind
       THEN [inbound EXCEPT !.at = "blinded", !.saved = inbound.caller, !.caller = {}]
       ELSE [inbound EXCEPT !.at = "blinded"]
  /\ Serving /\ UNCHANGED server

\* otelhttp starts its span with what it sees.
StartSpan ==
  /\ inbound.at = "blinded"
  /\ server' = [server EXCEPT !.path = "concrete", !.caller = inbound.caller]
  /\ inbound' = [inbound EXCEPT !.at = "started"]
  /\ Serving

\* restoreCallerAttributes.
Restore ==
  /\ inbound.at = "started"
  /\ inbound' = [inbound EXCEPT !.at = "routing",
       !.caller = IF setup.blind THEN @ \cup inbound.saved ELSE @]
  /\ Serving /\ UNCHANGED server

\* The mux writes the pattern into the request it is given.
Route ==
  /\ inbound.at = "routing"
  /\ \E route \in Routes \cup {None} :
       inbound' = [inbound EXCEPT !.at = "handling",
         !.pattern = IF setup.copies THEN None ELSE route]
  /\ Serving /\ UNCHANGED server

\* Mutant: what follows ServeHTTP is skipped by a panic.
Sequenced(outcome) == IF outcome = "panic" THEN "unwound" ELSE "handled"

\* Where the handler's outcome is seen first: a deferred function sees any.
Deferred(outcome) == "handled"

Handled ==
  /\ inbound.at = "handling"
  /\ \E outcome \in {"return", "panic"} :
       inbound' = [inbound EXCEPT !.at = Deferred(outcome)]
  /\ Serving /\ UNCHANGED server

\* routeTemplateAttribute.
Template(pattern) == IF pattern = None THEN "unmatched" ELSE pattern

NameRoute ==
  /\ inbound.at = "handled"
  /\ server' = [server EXCEPT !.path = Template(inbound.pattern), !.route = inbound.pattern]
  /\ inbound' = [inbound EXCEPT !.at = "unwound"]
  /\ Serving

EndSpan ==
  /\ inbound.at = "unwound" /\ ~server.ended
  /\ server' = [server EXCEPT !.ended = TRUE]
  /\ Serving /\ UNCHANGED inbound

Serve == Arrive \/ Blind \/ StartSpan \/ Restore \/ Route \/ Handled \/ NameRoute \/ EndSpan

-----------------------------------------------------------------------------
(* Outbound: NewTransport                                                  *)

Innermost == calls[Len(calls)]
At(layer) == calls # <<>> /\ Innermost.at = layer
Request   == requests[Innermost.req]
Calling   == UNCHANGED <<setup, inbound, server>>

\* The round trip goes on to a layer, with request r.
Passes(layer, r) == calls' = [calls EXCEPT ![Len(calls)].at = layer, ![Len(calls)].req = r]

\* A request for url, in a context that keeps stash: an URL, or nothing.
Asked(url, stash) ==
  [url |-> url, asked |-> url, stash |-> stash, clone |-> FALSE, nested |-> calls # <<>>]
RoundTripOf(r) ==
  [at |-> "scrub", req |-> r, wraps |-> IF setup.base = "wrapped" THEN 1 ELSE 0]

HandlerAsks ==
  /\ inbound.at = "handling" /\ calls = <<>>
  /\ \E url \in URLs : requests' = <<Asked(url, <<>>)>>
  /\ calls' = <<RoundTripOf(1)>>
  /\ client' = {} /\ wire' = {}
  /\ Calling

\* Another request beside those there are.
Adds(r) ==
  /\ Len(requests) < MaxRequests
  /\ requests' = Append(requests, r)

\* The base transport makes a request of its own before it sends the one it has.
BaseAsks ==
  /\ At("base") /\ setup.base = "calling"
  /\ \E url \in URLs : Adds(Asked(url, Request.stash))
  /\ calls' = Append(calls, RoundTripOf(Len(requests) + 1))
  /\ Calling /\ UNCHANGED <<client, wire>>

\* Mutant: the request is scrubbed where it is.
ScrubInPlace ==
  /\ requests' = [requests EXCEPT ![Innermost.req].url.hidden = {},
                                  ![Innermost.req].stash = <<Request.url>>]
  /\ Passes("instrument", Innermost.req)

\* scrubbedURLTransport: a clone that keeps the URL in its context.
Scrub ==
  /\ Adds([Request EXCEPT !.url.hidden = {}, !.stash = <<Request.url>>, !.clone = TRUE])
  /\ Passes("instrument", Len(requests) + 1)

ScrubURL ==
  /\ At("scrub")
  /\ \/ Request.url.hidden # {} /\ Scrub
     \/ /\ Request.url.hidden = {}
        /\ Passes("instrument", Innermost.req) /\ UNCHANGED requests
  /\ Calling /\ UNCHANGED <<client, wire>>

\* otelhttp starts its span, and clones the request.
Instrument ==
  /\ At("instrument")
  /\ client' = client \cup {Request.url}
  /\ Adds([Request EXCEPT !.clone = TRUE])
  /\ Passes("restore", Len(requests) + 1)
  /\ Calling /\ UNCHANGED wire

\* restoredURLTransport.
RestoreURL ==
  /\ At("restore")
  /\ requests' = [requests EXCEPT ![Innermost.req].url =
       IF Request.stash = <<>> THEN @ ELSE Request.stash[1]]
  /\ calls' = [calls EXCEPT ![Len(calls)].at = IF Innermost.wraps > 0 THEN "scrub" ELSE "base",
                            ![Len(calls)].wraps = 0]
  /\ Calling /\ UNCHANGED <<client, wire>>

Send ==
  /\ At("base")
  /\ wire' = wire \cup {[asked |-> Request.asked, sent |-> Request.url, nested |-> Request.nested]}
  /\ calls' = SubSeq(calls, 1, Len(calls) - 1)
  /\ Calling /\ UNCHANGED <<requests, client>>

RoundTrip == HandlerAsks \/ BaseAsks \/ ScrubURL \/ Instrument \/ RestoreURL \/ Send

NetNext == Serve \/ RoundTrip

-----------------------------------------------------------------------------
(* Properties                                                              *)

\* What is exported of a request carries no credential of a URL, no path but a
\* template even where the handler panicked, and no caller that was to be kept out;
\* whatever wraps what, and whatever a transport below asks for in between.
ExportedIsClean ==
  /\ \A url \in client : url.hidden = {}
  /\ server.ended => server.path \in Routes \cup {"unmatched"}
  /\ setup.blind => server.caller = {}

\* Instrumentation is not seen by those it stands between: the handler is told of
\* its caller what arrived, nobody's own request is changed, and what was asked for
\* is what is sent, but for a transport's own request that has nothing to hide.
RequestsArriveWhole ==
  /\ inbound.at \in {"routing", "handling"} => inbound.caller = inbound.sent
  /\ \A n \in 1..Len(requests) : ~requests[n].clone => requests[n].url = requests[n].asked
  /\ \A w \in wire : w.sent = w.asked \/ (w.nested /\ w.asked.hidden = {})

\* Doc of NewTransport: "The request on the wire is UNCHANGED - the full URL is
\* restored below the instrumentation."
WireIsUnchanged == \A w \in wire : w.sent = w.asked
=============================================================================
