------------------------------ MODULE ScpHttp ------------------------------
(***************************************************************************)
(* The HTTP server of the bridge (core/scp-http-server.js) with the VNC    *)
(* proxy behind it (core/vnc-proxy.js): what becomes of a connection, from *)
(* the request to its answer or to the end of its socket, and how the      *)
(* server stops.  What the handlers of MCP and OAuth do is in McpServer    *)
(* and McpOAuth; here they are awaited.                                    *)
(***************************************************************************)
CONSTANTS Requests

VARIABLES
    request,  \* [Requests -> its route and where it is]
    http      \* the server

httpVars == <<request, http>>

Routes == {"health", "metrics", "register", "mcp", "oauth", "vnc", "upgrade", "other"}
Over == {"answered", "closed"}

Init ==
    /\ request = [r \in Requests |-> [route |-> "other", at |-> "idle"]]
    /\ http = "listening"

At(r, places) == request[r].at \in places
Route(r, routes) == request[r].route \in routes
Goes(r, place) == request' = [request EXCEPT ![r].at = place] /\ UNCHANGED http

\* What a route awaits first, when it is served and asked with its method.
Awaits == [health |-> "beats", register |-> "body", mcp |-> "body", oauth |-> "handler",
           vnc |-> "lookup", upgrade |-> "lookup"]

Arrive(r, route) ==
    /\ At(r, {"idle"}) /\ http = "listening" /\ route \in DOMAIN Awaits
    /\ request' = [request EXCEPT ![r] = [route |-> route, at |-> Awaits[route]]]
    /\ UNCHANGED http

\* Metrics, 404, 405, 401, and /health without a repository.
AnswerAtOnce(r, route) ==
    /\ At(r, {"idle"}) /\ http = "listening"
    /\ request' = [request EXCEPT ![r] =
                     [route |-> route, at |-> IF route = "upgrade" THEN "closed" ELSE "answered"]]
    /\ UNCHANGED http

\* findAll returns: ok, degraded or down; when it throws, the answer is 503 as well.
Health(r) == At(r, {"beats"}) /\ Goes(r, "answered")

\* The body ends in time; too long or no JSON, it is refused.
BodyEnds(r) == At(r, {"body"}) /\ \E place \in {"handler", "answered"} : Goes(r, place)

\* After 5 s the reading rejects, and the catch of the request answers 500.
BodyTimesOut(r) == At(r, {"body"}) /\ Goes(r, "answered")

\* The handler returns, or throws into the catch: 500.
HandlerEnds(r) == At(r, {"handler"}) /\ Goes(r, "answered")

StreamBegins(r) == At(r, {"handler"}) /\ Route(r, {"mcp"}) /\ Goes(r, "streaming")

\* The dispatcher returns or throws: the transport is closed all the same.
StreamEnds(r) == At(r, {"streaming"}) /\ Goes(r, "answered")

\* The workspace is unknown, another user's, without an address, or the database fails: the
\* request is answered, an upgrade is refused and its socket destroyed.
LookedUp(r) ==
    /\ At(r, {"lookup"})
    /\ \/ Route(r, {"vnc"}) /\ \E place \in {"answered", "upstream"} : Goes(r, place)
       \/ Route(r, {"upgrade"}) /\ \E place \in {"closed", "connecting"} : Goes(r, place)

\* The response of the container is piped ...
UpstreamAnswers(r) == At(r, {"upstream"}) /\ Goes(r, "piping")

UpstreamEnds(r) == At(r, {"piping"}) /\ Goes(r, "answered")

\* ... or it fails: 502, unless the head was sent; then nothing ends the response.
UpstreamFails(r) ==
    /\ At(r, {"upstream", "piping"})
    /\ Goes(r, IF At(r, {"upstream"}) THEN "answered" ELSE "torn")

\* The two sockets of an upgrade are piped into each other ...
Bridged(r) == At(r, {"connecting"}) /\ \E place \in {"bridged", "closed"} : Goes(r, place)

\* ... until one of them ends.
BridgeEnds(r) == At(r, {"bridged"}) /\ Goes(r, "closed")

ClientLeaves(r) == ~At(r, {"idle"} \cup Over) /\ Goes(r, "closed")

\* Until the workspace is looked up, the socket of an upgrade has no listener for "error": a reset
\* is an uncaught exception.
SocketBreaks(r) ==
    /\ At(r, {"lookup"}) /\ Route(r, {"upgrade"})
    /\ http' = "crashed"
    /\ request' = [q \in Requests |-> [request[q] EXCEPT !.at = IF @ = "idle" THEN @ ELSE "closed"]]

\* closeAllConnections closes those that speak HTTP: an upgraded socket is not among them.
Stop ==
    /\ http = "listening"
    /\ http' = "stopping"
    /\ request' = [r \in Requests |->
           IF Route(r, {"upgrade"}) \/ At(r, {"idle"} \cup Over) THEN request[r]
           ELSE [request[r] EXCEPT !.at = "closed"]]

\* The callback of server.close: no socket is left.
Stopped ==
    /\ http = "stopping"
    /\ \A r \in Requests : At(r, {"idle"} \cup Over)
    /\ http' = "stopped"
    /\ UNCHANGED request

Step(r) ==
    \/ Health(r) \/ BodyEnds(r) \/ BodyTimesOut(r) \/ HandlerEnds(r) \/ StreamBegins(r)
    \/ StreamEnds(r) \/ LookedUp(r) \/ Bridged(r)

Next ==
    \/ \E r \in Requests :
          \/ \E route \in Routes : Arrive(r, route) \/ AnswerAtOnce(r, route)
          \/ Step(r)
          \/ UpstreamAnswers(r) \/ UpstreamEnds(r) \/ UpstreamFails(r) \/ BridgeEnds(r)
          \/ ClientLeaves(r) \/ SocketBreaks(r)
    \/ Stop \/ Stopped

\* The database and the handlers settle, the body is timed, a connect succeeds or fails.  The
\* container and the viewer owe nothing.
Fairness == (\A r \in Requests : WF_httpVars(Step(r))) /\ WF_httpVars(Stopped)

Spec == Init /\ [][Next]_httpVars /\ Fairness

\* Every request comes to an answer or to the end of its socket, unless the container behind it
\* has the say (scp-http-server.js:143-360, vnc-proxy.js:80-165).
RequestsEnd == \A r \in Requests :
    ~At(r, {"idle"}) ~> At(r, Over \cup {"upstream", "piping", "torn", "bridged"})

\* Once the server stops, no request is served but those that were upgraded before; when it has
\* stopped, or an error of a socket has ended it, none is left.
OnlyUpgradesRemain ==
    \A r \in Requests : ~At(r, {"idle"} \cup Over) =>
        http \in {"listening", "stopping"} /\ (http = "stopping" => Route(r, {"upgrade"}))

\* stop() returns: "Close all keep-alive / upgraded connections so server.close() can resolve
\* immediately rather than waiting for them to idle out." (scp-http-server.js:403-404)
StopResolves == http = "stopping" ~> http \in {"stopped", "crashed"}
=============================================================================
