---------------------------- MODULE AppLifecycle ----------------------------
(***************************************************************************)
(* The application: Run and handleSignals (internal/app/run.go), the       *)
(* servers it starts (mux.go, grpc.go), the engines it configures          *)
(* (engine.go) and the service manager (internal/service).  Every start    *)
(* step may fail, which ends the process; once serving, the main goroutine *)
(* only handles signals: SIGHUP reloads in several steps that others see   *)
(* half done, SIGTERM shuts down servers, node and services in order, under*)
(* a timer that ends the process.                                          *)
(***************************************************************************)
EXTENDS Naturals, Sequences, FiniteSets, ConsumedMessages

CONSTANTS
    AppConfigs,    \* the configurations a process may start with
    Services,      \* names of services: consumer types, the usage sender, exporters
    MaxReloads,    \* SIGHUPs sent
    MaxSvcFailures \* services that fail on their own

VARIABLES
    conf,       \* the configuration of the start
    main,       \* the main goroutine: a start step, "serving", a reload or shutdown step, "exited"
    engines,    \* [broker, presence, map] given to the node
    endpoints,  \* endpoints[s][h]: the middlewares before handler h of server s
    server,     \* server[s]: "off", "serving", "stopping" or "stopped"
    held,       \* the servers the variables grpcAPIServer and grpcUniServer hold
    svc,        \* svc[s]: "off", "running", "failed" or "stopped"
    svcCtx,     \* the context of the services is live
    sigCh,      \* the signal channel, buffer 1
    sent,       \* signals sent: [hup, term]; term: "no", "dropped" or "accepted"
    versions,   \* configuration in use by [verifier, sub, container], and the
                \* one being reloaded: the file changes with every SIGHUP
    timer,      \* the shutdown timer runs
    pidFile,    \* the PID file exists
    svcFailures

app == <<conf, main, engines, endpoints, server, held, svc, svcCtx, sigCh, sent, versions, timer,
         pidFile, svcFailures>>

Servers == {"external", "internal", "grpcApi", "grpcUni"}
None == "none"

-----------------------------------------------------------------------------
(* What a configuration leads to                                           *)

\* configureEngines: an engine unless broker and presence manager are both
\* explicit, then what is explicit replaces the engine's part.
configureEngines(c) ==
    LET engine == IF c.broker # None /\ c.presence # None THEN None ELSE c.engine
        broker == IF c.broker # None THEN c.broker ELSE engine
        presence == IF c.presence # None THEN c.presence ELSE engine
    IN  [ok |-> /\ engine \in {None, "memory", "redis"}
                /\ broker \in {"memory", "redis", "nats", "postgres", "redisnats"}
                /\ (broker = "redisnats" => c.unreleased)
                /\ presence \in {"memory", "redis"},
         broker |-> broker, presence |-> presence]

\* configureMapBroker.
configureMapBroker(c) == [ok |-> c.map \in {"memory", "redis", "postgres"}, broker |-> c.map]

SetIf(b, e) == IF b THEN {e} ELSE {}

\* runHTTPServers: the handlers of the external and of the internal address.
\* Without an internal port of its own the two are one server.
ExternalHandlers(c) ==
    SetIf(c.ws, "websocket") \cup SetIf(c.sse, "sse") \cup SetIf(c.httpStream, "http_stream")
    \cup SetIf(c.sse \/ c.httpStream, "emulation") \cup SetIf(c.wt, "webtransport")
    \cup SetIf(c.admin /\ c.adminExternal, "admin") \cup SetIf(c.api /\ c.apiExternal, "api")
    \cup SetIf(c.uni, "uni") \cup SetIf(c.dev, "dev") \cup SetIf(c.init, "init")
InternalHandlers(c) ==
    SetIf(c.api /\ ~c.apiExternal, "api") \cup SetIf(c.admin /\ ~c.adminExternal, "admin")
    \cup SetIf(c.tools, "prometheus") \cup SetIf(c.tools, "swagger") \cup SetIf(c.tools, "debug")
    \cup SetIf(c.tools, "health")
HttpServers(c) ==
    [s \in Servers |->
        CASE s = "external" -> ExternalHandlers(c) \cup IF c.internalPort THEN {} ELSE InternalHandlers(c)
          [] s = "internal" -> IF c.internalPort THEN InternalHandlers(c) ELSE {}
          [] OTHER -> {}]
\* HTTP/3 needs TLS without autocert, WebTransport needs HTTP/3.
HttpConfigOk(c) == (c.wt => c.http3) /\ (c.http3 => c.tls)

\* Mux: what a request to a handler passes before it: connections a limit,
\* the user header, the kept headers and the origin check; the API its key.
Middlewares(c, handler) ==
    CASE handler \in {"websocket", "webtransport", "init", "http_stream", "sse", "uni"} ->
            SetIf(c.connLimit, "limit") \cup SetIf(c.userHeader, "user_header")
            \cup SetIf(c.keepHeaders, "headers") \cup {"cors"}
      [] handler = "emulation" -> {"cors"}
      [] handler = "api" -> {"post"} \cup SetIf(~c.apiInsecure, "key")
      [] OTHER -> {}

-----------------------------------------------------------------------------
(* Start                                                                   *)

StartSteps == <<"config", "proxies", "engines", "verifiers", "consumers", "node", "services", "grpcApi", "grpcUni", "http">>
After(step) ==
    LET i == CHOOSE j \in DOMAIN StartSteps : StartSteps[j] = step
    IN  IF i = Len(StartSteps) THEN "serving" ELSE StartSteps[i + 1]

AppInit ==
    /\ conf \in AppConfigs /\ main = "config"
    /\ engines = [broker |-> None, presence |-> None, map |-> None]
    /\ endpoints = [s \in Servers |-> <<>>] /\ server = [s \in Servers |-> "off"]
    /\ held = [api |-> None, uni |-> None]
    /\ svc = [s \in Services |-> "off"] /\ svcCtx = TRUE
    /\ sigCh = <<>> /\ sent = [hup |-> 0, term |-> "no"]
    /\ versions = [verifier |-> 0, sub |-> 0, container |-> 0, newCfg |-> 0]
    /\ timer = FALSE /\ pidFile = FALSE /\ svcFailures = 0

\* log.Fatal of any step: the process ends and leaves its PID file.
StartFails ==
    /\ main \in {StartSteps[i] : i \in DOMAIN StartSteps} /\ main' = "exited"
    /\ UNCHANGED <<conf, engines, endpoints, server, held, svc, svcCtx, sigCh, sent, versions, timer,
                   pidFile, svcFailures>>

\* The configuration is read, the PID file written, the proxies, verifiers,
\* handlers and executors built, node.Run called: no step of its own here
\* touches more than the state named.
StartPlain ==
    /\ main \in {"config", "proxies", "verifiers", "node"} /\ main' = After(main)
    /\ pidFile' = TRUE
    /\ UNCHANGED <<conf, engines, endpoints, server, held, svc, svcCtx, sigCh, sent, versions, timer, svcFailures>>

StartEngines ==
    /\ main = "engines" /\ configureEngines(conf).ok /\ configureMapBroker(conf).ok
    /\ engines' = [broker |-> configureEngines(conf).broker, presence |-> configureEngines(conf).presence,
                   map |-> configureMapBroker(conf).broker]
    /\ main' = After(main)
    /\ UNCHANGED <<conf, endpoints, server, held, svc, svcCtx, sigCh, sent, versions, timer, pidFile, svcFailures>>

\* consuming.New: the configured consumers, or the process ends.
StartConsumers ==
    /\ main = "consumers" /\ ConsumersOk(conf.consumers) /\ main' = After(main)
    /\ UNCHANGED <<conf, engines, endpoints, server, held, svc, svcCtx, sigCh, sent, versions, timer, pidFile, svcFailures>>

\* The services registered: enabled consumers, the usage sender, exporters.
Registered == {s \in Services : s \in conf.others \/ \E c \in RunningConsumers(conf.consumers) : c.type = s}

\* serviceManager.Run: all services in an error group.
StartServices ==
    /\ main = "services" /\ svc' = [s \in Services |-> IF s \in Registered THEN "running" ELSE svc[s]] /\ main' = After(main)
    /\ UNCHANGED <<conf, engines, endpoints, server, held, svcCtx, sigCh, sent, versions, timer, pidFile, svcFailures>>

\* The GRPC API server; its result goes to grpcAPIServer.
StartGrpcApi ==
    /\ main = "grpcApi" /\ main' = After(main)
    /\ IF conf.grpcApi THEN server' = [server EXCEPT !["grpcApi"] = "serving"] /\ held' = [held EXCEPT !.api = "grpcApi"]
       ELSE UNCHANGED <<server, held>>
    /\ UNCHANGED <<conf, engines, endpoints, svc, svcCtx, sigCh, sent, versions, timer, pidFile, svcFailures>>

\* The unidirectional GRPC server; its result goes to grpcAPIServer too.
StartGrpcUni ==
    /\ main = "grpcUni" /\ main' = After(main)
    /\ IF conf.grpcUni THEN server' = [server EXCEPT !["grpcUni"] = "serving"] /\ held' = [held EXCEPT !.api = "grpcUni"]
       ELSE UNCHANGED <<server, held>>
    /\ UNCHANGED <<conf, engines, endpoints, svc, svcCtx, sigCh, sent, versions, timer, pidFile, svcFailures>>

StartHTTP ==
    /\ main = "http" /\ HttpConfigOk(conf) /\ main' = After(main)
    /\ endpoints' = [s \in Servers |-> [h \in HttpServers(conf)[s] |-> Middlewares(conf, h)]]
    /\ server' = [s \in Servers |-> IF HttpServers(conf)[s] # {} THEN "serving" ELSE server[s]]
    /\ UNCHANGED <<conf, engines, held, svc, svcCtx, sigCh, sent, versions, timer, pidFile, svcFailures>>

-----------------------------------------------------------------------------
(* Signals and reload                                                      *)

\* External: the operating system; signal.Notify drops what the channel
\* cannot hold.  Before handleSignals a signal just ends the process.
Signal(sig) ==
    /\ main \notin {StartSteps[i] : i \in DOMAIN StartSteps} \cup {"exited"}
    /\ IF sig = "HUP" THEN sent.hup < MaxReloads ELSE sent.term = "no"
    /\ sigCh' = IF Len(sigCh) < 1 THEN Append(sigCh, sig) ELSE sigCh
    /\ sent' = [hup |-> IF sig = "HUP" THEN sent.hup + 1 ELSE sent.hup,
                term |-> IF sig # "TERM" THEN sent.term ELSE IF Len(sigCh) < 1 THEN "accepted" ELSE "dropped"]
    /\ UNCHANGED <<conf, main, engines, endpoints, server, held, svc, svcCtx, versions, timer, pidFile, svcFailures>>

\* SIGHUP: the file is read and validated, the verifier's part extracted;
\* any error leaves everything as it was.
TakeHUP ==
    /\ main = "serving" /\ sigCh # <<>> /\ Head(sigCh) = "HUP" /\ sigCh' = Tail(sigCh)
    /\ main' \in {"serving", "reloadVerifier"}
    /\ versions' = [versions EXCEPT !.newCfg = sent.hup]
    /\ UNCHANGED <<conf, engines, endpoints, server, held, svc, svcCtx, sent, timer, pidFile, svcFailures>>

\* Then verifier, subscription verifier and container take the new version
\* one by one; an error stops half way.
Reloads(step) ==
    CASE step = "reloadVerifier" -> "verifier" [] step = "reloadSub" -> "sub" [] OTHER -> "container"
ReloadNext(step) ==
    CASE step = "reloadVerifier" -> IF conf.sub THEN "reloadSub" ELSE "reloadContainer"
      [] step = "reloadSub" -> "reloadContainer" [] OTHER -> "serving"
Reload ==
    /\ main \in {"reloadVerifier", "reloadSub", "reloadContainer"}
    /\ \/ /\ versions' = [versions EXCEPT ![Reloads(main)] = versions.newCfg]
          /\ main' = ReloadNext(main)
       \/ UNCHANGED versions /\ main' = "serving"
    /\ UNCHANGED <<conf, engines, endpoints, server, held, svc, svcCtx, sigCh, sent, timer, pidFile, svcFailures>>

-----------------------------------------------------------------------------
(* Services                                                                *)

\* A service returns an error of its own: the error group cancels the
\* others and, once all have returned, the process exits.
ServiceFails(s) ==
    /\ svc[s] = "running" /\ main # "exited" /\ svcFailures < MaxSvcFailures
    /\ svcFailures' = svcFailures + 1 /\ svc' = [svc EXCEPT ![s] = "failed"]
    /\ UNCHANGED <<conf, main, engines, endpoints, server, held, svcCtx, sigCh, sent, versions, timer, pidFile>>

GroupFailed == \E s \in Services : svc[s] = "failed"
\* A service whose context ended returns.
ServiceStops(s) ==
    /\ svc[s] = "running" /\ main # "exited" /\ (GroupFailed \/ ~svcCtx)
    /\ svc' = [svc EXCEPT ![s] = "stopped"]
    /\ UNCHANGED <<conf, main, engines, endpoints, server, held, svcCtx, sigCh, sent, versions, timer, pidFile, svcFailures>>

ServicesDone == \A s \in Registered : svc[s] \in {"failed", "stopped"}
ExitOnServiceError ==
    /\ main # "exited" /\ GroupFailed /\ ServicesDone /\ main' = "exited"
    /\ UNCHANGED <<conf, engines, endpoints, server, held, svc, svcCtx, sigCh, sent, versions, timer, pidFile, svcFailures>>

-----------------------------------------------------------------------------
(* Shutdown                                                                *)

\* The servers handleSignals knows: those of the two GRPC variables and the
\* HTTP servers.
Known == ({held.api, held.uni} \cup {"external", "internal"}) \cap {s \in Servers : server[s] = "serving"}

TakeTERMMutant ==
    /\ main = "serving" /\ sigCh # <<>> /\ Head(sigCh) = "TERM" /\ sigCh' = Tail(sigCh)
    /\ main' = "stopNode"
    /\ server' = [s \in Servers |-> IF s \in Known THEN "stopping" ELSE server[s]]
    /\ UNCHANGED <<conf, engines, endpoints, held, svc, svcCtx, sent, versions, pidFile, svcFailures, timer>>

\* SIGTERM: the timer starts, each server is stopped by a goroutine.
TakeTERM ==
    /\ main = "serving" /\ sigCh # <<>> /\ Head(sigCh) = "TERM" /\ sigCh' = Tail(sigCh)
    /\ main' = "stopNode" /\ timer' = TRUE
    /\ server' = [s \in Servers |-> IF s \in Known THEN "stopping" ELSE server[s]]
    /\ UNCHANGED <<conf, engines, endpoints, held, svc, svcCtx, sent, versions, pidFile, svcFailures>>

\* GracefulStop and http Shutdown return when the last request has; a
\* request may hang.
ServerStopped(s) ==
    /\ server[s] = "stopping" /\ main # "exited" /\ server' = [server EXCEPT ![s] = "stopped"]
    /\ UNCHANGED <<conf, main, engines, endpoints, held, svc, svcCtx, sigCh, sent, versions, timer, pidFile, svcFailures>>

\* n.Shutdown, then wg.Wait, then serviceCancel.
StopNode ==
    /\ main = "stopNode" /\ main' = "waitServers"
    /\ UNCHANGED <<conf, engines, endpoints, server, held, svc, svcCtx, sigCh, sent, versions, timer, pidFile, svcFailures>>
CancelServicesMutant ==
    /\ main = "waitServers" /\ svcCtx' = FALSE /\ main' = "waitServices"
    /\ UNCHANGED <<conf, engines, endpoints, server, held, svc, sigCh, sent, versions, timer, pidFile, svcFailures>>
CancelServices ==
    /\ main = "waitServers" /\ \A s \in Servers : server[s] # "stopping"
    /\ svcCtx' = FALSE /\ main' = "waitServices"
    /\ UNCHANGED <<conf, engines, endpoints, server, held, svc, sigCh, sent, versions, timer, pidFile, svcFailures>>

\* serviceDone is closed: the PID file is removed, exit 0.
ExitClean ==
    /\ main = "waitServices" /\ ServicesDone /\ ~GroupFailed
    /\ main' = "exited" /\ pidFile' = FALSE
    /\ UNCHANGED <<conf, engines, endpoints, server, held, svc, svcCtx, sigCh, sent, versions, timer, svcFailures>>

\* The timer: whatever hangs, the PID file is removed and the process ends.
ShutdownTimeout ==
    /\ timer /\ main # "exited" /\ main' = "exited" /\ pidFile' = FALSE
    /\ UNCHANGED <<conf, engines, endpoints, server, held, svc, svcCtx, sigCh, sent, versions, timer, svcFailures>>

AppNext ==
    \/ StartFails \/ StartPlain \/ StartEngines \/ StartConsumers \/ StartServices \/ StartGrpcApi \/ StartGrpcUni \/ StartHTTP
    \/ \E sig \in {"HUP", "TERM"} : Signal(sig)
    \/ TakeHUP \/ Reload \/ TakeTERM \/ StopNode \/ CancelServices \/ ExitClean \/ ShutdownTimeout
    \/ ExitOnServiceError
    \/ \E s \in Services : ServiceFails(s) \/ ServiceStops(s)
    \/ \E s \in Servers : ServerStopped(s)

\* The main goroutine runs; the timer fires.  Servers and services may hang.
AppFairness ==
    WF_app(TakeHUP \/ Reload \/ TakeTERM \/ StopNode \/ CancelServices \/ ExitClean) /\ WF_app(ShutdownTimeout)

AppSpec == AppInit /\ [][AppNext]_app /\ AppFairness

-----------------------------------------------------------------------------
(* Properties                                                              *)

\* The comment of Run: services "will be stopped after node's shutdown and
\* HTTP/GRPC servers shutdown".  In an orderly shutdown no service has its
\* context canceled while a server still serves requests; but with both GRPC
\* servers the one of the API is not stopped, as its variable got the other.
Overwritten == IF conf.grpcApi /\ conf.grpcUni THEN {"grpcApi"} ELSE {}
ServicesStopLast ==
    ~svcCtx => \A s \in Servers \ Overwritten : server[s] \notin {"serving", "stopping"}

\* The options of a configuration are only in force once the verifiers use
\* its keys (or newer ones), also after reloads that failed half way.
ConfigNeverAhead ==
    /\ conf.sub => versions.container <= versions.sub /\ versions.sub <= versions.verifier
    /\ versions.container <= versions.verifier

\* A SIGTERM the process accepted ends it, even when a request, a consumer
\* or the node hangs and reloads come in between.
AcceptedTermExits == []<>(sent.term = "accepted" => main = "exited")

\* Every enabled endpoint is served at exactly one address, and with an
\* internal port of its own none of the internal ones is at the external
\* address unless the configuration asks for it.
EndpointsServedOnce ==
    LET external == DOMAIN endpoints["external"]
        internal == DOMAIN endpoints["internal"]
    IN  main = "serving" =>
        /\ external \cap internal = {}
        /\ conf.api => \E s \in {"external", "internal"} :
                /\ "api" \in DOMAIN endpoints[s]
                /\ ("key" \in endpoints[s]["api"] \/ conf.apiInsecure)
        /\ conf.internalPort =>
            /\ external \cap {"prometheus", "swagger", "debug", "health"} = {}
            /\ ("api" \in external <=> conf.api /\ conf.apiExternal)
            /\ ("admin" \in external <=> conf.admin /\ conf.adminExternal)

\* Start, reload and shutdown happen in the order that keeps requests served.
AppOrder == ServicesStopLast /\ ConfigNeverAhead /\ EndpointsServedOnce
=============================================================================
