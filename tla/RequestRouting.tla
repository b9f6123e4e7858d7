--------------------------- MODULE RequestRouting ---------------------------
(***************************************************************************)
(* Where a request goes: the endpoints main registers, and what            *)
(* http_session::on_read and handle_request make of a request.  A target   *)
(* is its path and whether a query follows; of paths only these are told   *)
(* apart: the endpoints, "/", one with "..", one that is not absolute, and *)
(* others ("/app.js").  A handler is known by its answer.                  *)
(***************************************************************************)
EXTENDS Sequences

(* Variant of Endpoints: without the root of the legacy work server. *)
EndpointsWithoutRoot ==
    {<<"post", "/api/v1/work", "work">>, <<"get", "/api/v1/stop", "stop">>}

(* main: add_post_endpoint, add_get_endpoint, add_delete_endpoint. *)
Endpoints ==
    {<<"post", "/", "work">>,
     <<"post", "/api/v1/work", "work">>,
     <<"get", "/api/v1/work/queue", "queue">>,
     <<"delete", "/api/v1/work/queue", "clear">>,
     <<"get", "/api/v1/ping", "ping">>,
     <<"get", "/api/v1/stop", "stop">>,
     <<"get", "/api/v1/version", "version">>}

WebsocketEndpoints == {"/websocket"}

(* The regex of an endpoint is its path from end to end, so it does not    *)
(* match a target with a query.                                            *)
Matches(req, path) == ~req.query /\ req.path = path

(* The handlers for a request; no two are for the same. *)
Handlers(req) ==
    {e[3] : e \in {d \in Endpoints : d[1] = req.verb /\ Matches(req, d[2])}}

IsEndpoint(req) == Handlers(req) # {}

(* class url cuts the query off. *)
UrlPath(req) == [req EXCEPT !.query = FALSE]

(* on_read: a WebSocket endpoint is looked for without the query; if there *)
(* is none, nothing is answered.                                           *)
Upgrade(req) ==
    IF \E path \in WebsocketEndpoints : Matches(UrlPath(req), path)
      THEN "upgraded" ELSE "dropped"

(* "Request path must be absolute and not contain .." *)
Illegal(req) == req.path \in {"", "relative", "/a/.."}

(* Two handlers ask allow_control first, work_generate asks for devices.   *)
Endpoint(handler, conf) ==
    CASE handler \in {"clear", "stop"} /\ ~conf.control -> "refused"
      [] handler = "work" /\ conf.devices = 0 -> "no device"
      [] OTHER -> handler

(* static_pages_allow and static_pages_allow_remote. *)
Served(req, conf) == conf.enable /\ (conf.remote \/ req.loopback)

(* What opening the requested file comes to, or index.html in the place of *)
(* a missing one; HEAD gets no body, and every other verb is a GET.        *)
Page(req, opened, index) ==
    LET result == IF opened = "missing" THEN index ELSE opened
    IN CASE result = "ok" -> IF req.verb = "head" THEN "head" ELSE "page"
         [] result = "missing" -> "not found"
         [] OTHER -> "server error"

(* handle_request, and the upgrade branch of on_read. *)
Answer(req, conf, opened, index) ==
    IF req.upgrade THEN Upgrade(req)
    ELSE CASE Illegal(req) -> "bad request"
           [] ~Illegal(req) /\ IsEndpoint(req) ->
                 Endpoint(CHOOSE h \in Handlers(req) : TRUE, conf)
           [] ~Illegal(req) /\ ~IsEndpoint(req) /\ ~Served(req, conf) ->
                 "denied"
           [] OTHER -> Page(req, opened, index)
=============================================================================
