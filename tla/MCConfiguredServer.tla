------------------------- MODULE MCConfiguredServer -------------------------
(* Instances of ConfiguredServer for TLC. *)
EXTENDS ConfiguredServer

Array(s) == [form |-> "array", at |-> <<s>>, val |-> "table"]
Dotted(s, k, v) == [form |-> "key", at |-> <<s, k>>, val |-> v]
Garbage == [form |-> "garbage", at |-> <<"?">>, val |-> "table"]

UpTo(n, S) == UNION {[1..k -> S] : k \in 0..n}

OptionLines ==
    {Dotted("admin", "enable", "true"), Dotted("server", "allow_control", "false"),
     Dotted("server", "port", "8077"), Dotted("device", "type", "gpu"),
     Array("device"), Setting("type", "gpu")}

FileLines ==
    {Header("admin"), Setting("enable", "true"), Setting("allow_remote", "true"),
     Header("device"), Array("device"), Setting("type", "tpu"),
     Dotted("server", "allow_control", "true")}

(* Files of one line that are unusual in one way. *)
OddFiles ==
    {<<Dotted("server", "port", "65536")>>, <<Dotted("server", "port", "-1")>>,
     <<Dotted("server", "port", "true")>>, <<Dotted("server", "bind", "tpu")>>,
     <<Dotted("work", "base_difficulty", "cpu")>>, <<Array("server")>>,
     <<Setting("device", "0")>>, <<Garbage>>,
     <<Header("server"), Setting("port", "8077")>>,
     <<Dotted("server", "request_limit", "4294967296")>>,
     <<Header("device"), Setting("memory", "4294967296")>>,
     <<Array("device"), Setting("threads", "2048"), Setting("type", "cpu"),
       Array("device"), Setting("type", "gpu"), Setting("type", "tpu"),
       Setting("memory", "0")>>}

(* Options that make a table of a key. *)
OddOptions == {<<Header("server"), Dotted("port", "bind", "0")>>}

MCCommandLines == UpTo(2, OptionLines) \cup OddOptions
MCFiles == UpTo(3, FileLines) \cup OddFiles

Req(verb, path, query, upgrade, loopback) ==
    [verb |-> verb, path |-> path, query |-> query, upgrade |-> upgrade,
     loopback |-> loopback]

MCClients ==
    {Req("post", "/", FALSE, FALSE, FALSE),
     Req("post", "/api/v1/work", TRUE, FALSE, FALSE),
     Req("delete", "/api/v1/work/queue", FALSE, FALSE, FALSE),
     Req("get", "/api/v1/stop", FALSE, FALSE, TRUE),
     Req("get", "/api/v1/stop", TRUE, FALSE, TRUE),
     Req("head", "/app.js", FALSE, FALSE, FALSE),
     Req("get", "/app.js", FALSE, FALSE, TRUE),
     Req("get", "/a/..", FALSE, FALSE, TRUE),
     Req("get", "/websocket", TRUE, TRUE, FALSE),
     Req("get", "/api/v1/work", FALSE, TRUE, FALSE)}
=============================================================================
