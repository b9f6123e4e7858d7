-------------------------- MODULE ConfiguredServer --------------------------
(***************************************************************************)
(* From the command line to the answers: main reads the configuration,     *)
(* hands parts of it to the work handler and the web server, registers the *)
(* endpoints and serves.                                                   *)
(***************************************************************************)
EXTENDS Configuration, RequestRouting

CONSTANT Clients   \* requests: [verb, path, query, upgrade, loopback]

VARIABLE answered  \* the last answer, [req, kind], or Idle

vars == <<cVars, answered>>

Idle == [req |-> CHOOSE c \in Clients : TRUE, kind |-> "none"]

Init == ConfigInit /\ answered = Idle

(* work_handler and web::webserver are constructed; start parses the       *)
(* address, which may throw.                                               *)
Start ==
    /\ stage = "constructed"
    /\ stage' = IF settings.server.bind \in Addresses THEN "serving" ELSE "failed"
    /\ UNCHANGED <<overrides, file, pos, tree, cur, settings, devices, answered>>

(* Variant of WebConf: web_conf is not filled in; its own defaults stay. *)
WebConfDefault ==
    [enable |-> TRUE, remote |-> FALSE,
     control |-> settings.server.allow_control = "true",
     devices |-> Len(devices)]

(* web_conf and what the handlers capture. *)
WebConf ==
    [enable |-> settings.admin.enable = "true",
     remote |-> settings.admin.allow_remote = "true",
     control |-> settings.server.allow_control = "true",
     devices |-> Len(devices)]

Handle(req) ==
    /\ stage = "serving"
    /\ \E opened, index \in {"ok", "missing", "error"} :
          answered' = [req |-> req, kind |-> Answer(req, WebConf, opened, index)]
    /\ stage' = IF answered'.kind = "stop" THEN "exited" ELSE stage
    /\ UNCHANGED <<overrides, file, pos, tree, cur, settings, devices>>

(* The process has ended. *)
Ended == stage \in {"failed", "crashed", "exited"} /\ UNCHANGED vars

Next ==
    \/ ConfigNext /\ UNCHANGED answered
    \/ Start
    \/ \E req \in Clients : Handle(req)
    \/ Ended

Spec == Init /\ [][Next]_vars

-----------------------------------------------------------------------------
(* Properties. *)

NamesDevice(lines) ==
    \E i \in 1..Len(lines) :
        Place(lines, i) # <<>> /\ Head(Place(lines, i)) = "device"

WorkRequests ==
    {req \in Clients :
        /\ req.verb = "post" /\ ~req.query /\ ~req.upgrade
        /\ req.path \in {"/", "/api/v1/work"}}

(* nano_pow_server.cpp:28, --config "takes precedence over any values in   *)
(* the configuration file", and otherwise the file counts, and otherwise   *)
(* the default: the merge of two texts into one gives every setting the    *)
(* value the operator wrote first for it, if it is one of its type.        *)
SettingsAsWritten ==
    Constructed /\ Separate =>
        \A s \in Singles : \A k \in DOMAIN Keys[s] :
            settings[s][k] =
                IF Meant(s, k) \in Accepts[Keys[s][k]] THEN Meant(s, k)
                                                      ELSE Defaults[s][k]

(* The device the line i of a text belongs to: the [[device]] headers up   *)
(* to it are counted.                                                      *)
DeviceEntry(lines, i) ==
    Cardinality({h \in 1..i : lines[h].form = "array"
                               /\ lines[h].at = <<"device">>})

(* What the lines say of key k of the device n, the first of them first.   *)
Wrote(lines, n, k) ==
    LET at == {i \in Mentions(lines, "device", k) : DeviceEntry(lines, i) = n}
    IN IF at = {} THEN None
       ELSE Said(lines, CHOOSE i \in at : \A j \in at : i <= j)

DeviceHeaders(lines) ==
    {lines[i].form : i \in {h \in 1..Len(lines) :
                               IsHeader(lines[h]) /\ lines[h].at = <<"device">>}}

(* config.hpp:144: "We support both a single [device] entry, as well as a  *)
(* TOML table array of [[device]] entries": of the options and the file    *)
(* together, there is a device for each [[device]], or else one if         *)
(* anything names a device; each is of a known type and has the values     *)
(* first written for it, not another's, or the defaults.  Not so for two   *)
(* texts that run into each other, and for a [device] that follows         *)
(* [[device]]s: the parser takes it for more of the last of them and       *)
(* ignores what that one has already, even a type there is not.            *)
DevicesAsListed ==
    Constructed /\ Separate =>
        LET lines == overrides \o file
            n == DeviceEntry(lines, Len(lines))
        IN DeviceHeaders(lines) # {"table", "array"} =>
              /\ Len(devices) = IF n > 0 THEN n
                                ELSE IF NamesDevice(lines) THEN 1 ELSE 0
              /\ \A d \in 1..Len(devices) :
                    /\ devices[d].type \in {"cpu", "gpu"}
                    /\ \A k \in DOMAIN Keys.device :
                          LET wrote == Wrote(lines, IF n > 0 THEN d ELSE 0, k)
                          IN devices[d][k] =
                                IF wrote \in Accepts[Keys.device[k]]
                                  THEN wrote ELSE Defaults.device[k]

(* nano_pow_server.cpp:29, --generate_config writes "commented defaults":  *)
(* a server started with the generated file has the default settings, and  *)
(* a default device.                                                       *)
GeneratedFileIsDefault ==
    Constructed /\ file = ExportDocumented /\ overrides = <<>> =>
        /\ settings = [s \in Singles |-> Defaults[s]]
        /\ devices = <<Defaults.device>>

(* config.hpp:200, "If true, static files are available remotely,          *)
(* otherwise only to loopback", and config.hpp:193, "Administriative REST  *)
(* requests requires this to be true": a page reaches a client only if the *)
(* operator enabled pages, and a remote one only if that was allowed too;  *)
(* the queue is cleared and the process stopped only if the operator       *)
(* allowed control.  Options, file, web_conf and handlers have to agree.   *)
PermissionsRespected ==
    Separate =>
        /\ answered.kind \in {"page", "head", "not found", "server error"} =>
              /\ Meant("admin", "enable") = "true"
              /\ answered.req.loopback \/ Meant("admin", "allow_remote") = "true"
        /\ answered.kind \in {"clear", "stop"} =>
              Meant("server", "allow_control") = "true"

(* Whatever else is configured, POST / and POST /api/v1/work reach the     *)
(* work handler, and work is generated if the operator has named a device. *)
WorkReachable ==
    answered.kind # "none" /\ answered.req \in WorkRequests =>
        answered.kind = IF NamesDevice(overrides \o file) THEN "work"
                                                          ELSE "no device"
=============================================================================
