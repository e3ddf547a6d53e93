------------------------------- MODULE RestServer -------------------------------
(***************************************************************************)
(* The API server as a process (restapi/server.go, configure_blob_hub.go,  *)
(* cmd/blob-hub-server): its listeners are opened, and for each scheme a   *)
(* server is configured and set to serve; a gRPC server runs beside them;  *)
(* an interrupt shuts it all down, within a grace period.  What a request  *)
(* is answered is in BlobServer; here it is under way or not.              *)
(*                                                                         *)
(* The goroutines are main, those of http.Server.Serve, handleInterrupt,   *)
(* handleShutdown and one Server.Shutdown per scheme, and grpcServer.  The *)
(* end of main, log.Fatal and an unrecovered panic end them all.           *)
(***************************************************************************)
EXTENDS Config, Sequences

CONSTANTS
    EnabledListeners,   \* schemes given on the command line
    ConfigFiles,        \* configuration files of the server
    Environments,       \* environments the process may be started in
    MaxCalls,           \* bound: requests under way at a listener
    MaxSignals          \* bound: interrupts sent

ASSUME RestAssumption ==
    /\ EnabledListeners \subseteq {"unix", "http", "https"}
    /\ ConfigFiles \subseteq ServerConfig
    /\ Environments \subseteq Environment
    /\ MaxCalls \in Nat /\ MaxSignals \in Nat

VARIABLES
    main,           \* where main is
    exit,           \* how the process ended, "" while it runs
    todo,           \* schemes main has still to open or to serve
    listener,       \* scheme -> "none", "open" or "closed"
    serving,        \* scheme -> "none", "spawned", "serving" or "stopped"
    calls,          \* scheme, or grpc -> requests under way
    svc,            \* how often service.BlobSvc was set
    grpc,           \* where grpcServer is
    sent,           \* interrupts sent
    interrupt,      \* those in the channel: none or one
    interrupted,
    shuttingDown,
    closing,        \* goroutines about to close the channel of the shutdown
    shutdown,       \* whether that is closed
    handler,        \* where handleShutdown is
    down,           \* scheme -> where the call of Server.Shutdown is
    received,       \* schemes whose result was received
    success,        \* its local of that name
    expired,        \* whether the grace period is over
    hooks           \* hooks run

mainVars == <<main, exit, todo>>
serverVars == <<listener, serving, calls, svc>>
signalVars == <<sent, interrupt, interrupted, shuttingDown, closing, shutdown>>
shutdownVars == <<handler, down, received, success, expired, hooks>>
restVars == <<mainVars, serverVars, grpc, signalVars, shutdownVars>>

\* hasScheme
Schemes == IF EnabledListeners = {} THEN {"http"} ELSE EnabledListeners

\* The order in which they are opened and served.
Order ==
    (IF "unix" \in Schemes THEN <<"unix">> ELSE <<>>)
    \o (IF "http" \in Schemes THEN <<"http">> ELSE <<>>)
    \o (IF "https" \in Schemes THEN <<"https">> ELSE <<>>)

-----------------------------------------------------------------------------
(* The end of the process *)

Running == exit = ""

\* By the end of main, Fatalf, log.Fatal or an unrecovered panic.
Exit(why) ==
    /\ exit' = why
    /\ UNCHANGED <<main, todo, serverVars, grpc, signalVars, shutdownVars>>

-----------------------------------------------------------------------------
(* Shutdown, which main defers and handleInterrupt calls *)

\* Mutant: whoever calls Shutdown closes the channel.
Shutdown_Plain(g) ==
    /\ shuttingDown' = TRUE
    /\ closing' = closing \cup {g}

\* The compare-and-swap: goroutine g goes on to close the channel if it is the
\* first.
Shutdown(g) ==
    IF shuttingDown THEN UNCHANGED <<shuttingDown, closing>>
    ELSE /\ shuttingDown' = TRUE
         /\ closing' = closing \cup {g}

\* The next statement.  To close a closed channel is a panic.
CloseChannel(g) ==
    /\ g \in closing
    /\ IF shutdown THEN Exit("close")
       ELSE /\ shutdown' = TRUE
            /\ closing' = closing \ {g}
            /\ UNCHANGED <<mainVars, serverVars, grpc, sent, interrupt,
                           interrupted, shuttingDown, shutdownVars>>

-----------------------------------------------------------------------------
(* main: ConfigureAPI, Listen, Serve *)

\* A panic of main: the deferred Shutdown is called, then the process dies.
Panic(why) ==
    /\ main' = why
    /\ Shutdown("main")
    /\ UNCHANGED <<exit, todo, serverVars, grpc, sent, interrupt, interrupted,
                   shutdown, shutdownVars>>

\* The command line is wrong, or asks for help.
BadFlags ==
    /\ main = "flags"
    /\ \E why \in {"flags", "help"} : Exit(why)

\* configureAPI starts grpcServer.
ConfigureAPI ==
    /\ main = "flags"
    /\ main' = "listen" /\ todo' = Order
    /\ grpc' = "listen"
    /\ UNCHANGED <<exit, serverVars, signalVars, shutdownVars>>

Listen ==
    /\ main = "listen"
    /\ todo # <<>>
    /\ \/ /\ listener' = [listener EXCEPT ![Head(todo)] = "open"]
          /\ todo' = Tail(todo)
          /\ UNCHANGED <<main, exit, serving, calls, svc, grpc, signalVars,
                         shutdownVars>>
       \/ Exit("listen")

\* signalNotify, and handleInterrupt is started.
Notify ==
    /\ main = "listen"
    /\ todo = <<>>
    /\ main' = "serve" /\ todo' = Order
    /\ UNCHANGED <<exit, serverVars, grpc, signalVars, shutdownVars>>

\* Mutant: the server is started before it is configured.
Spawn_First(s) ==
    \/ /\ serving[s] = "none"
       /\ serving' = [serving EXCEPT ![s] = "spawned"]
       /\ UNCHANGED <<mainVars, listener, calls, svc, grpc, signalVars,
                      shutdownVars>>
    \/ /\ serving[s] # "none"
       /\ svc' = svc + 1
       /\ todo' = Tail(todo)
       /\ UNCHANGED <<main, exit, listener, serving, calls, grpc, signalVars,
                      shutdownVars>>

\* configureServer, once per scheme: the configuration is read again, a
\* database handle and a cache are made, and the service is replaced.
ConfigAccepted(file, env) ==
    LET cfg == ParseServerConfigFromFile(file, env)
    IN  ValidServer(cfg) /\ cfg.local

\* The certificates of https are read before configureServer is called; one may
\* be missing, or not be one.  The database or the cache may not open.
Spawn(s) ==
    /\ s = Head(todo)
    /\ \/ s = "https" /\ Exit("certificate")
       \/ \E file \in ConfigFiles, env \in Environments :
            IF ConfigAccepted(file, env)
            THEN \/ /\ svc' = svc + 1
                    /\ serving' = [serving EXCEPT ![s] = "spawned"]
                    /\ todo' = Tail(todo)
                    /\ UNCHANGED <<main, exit, listener, calls, grpc,
                                   signalVars, shutdownVars>>
                 \/ Panic("open")
            ELSE Panic("config")

ServeScheme ==
    /\ main = "serve"
    /\ todo # <<>>
    /\ Spawn(Head(todo))

\* All servers are started, and handleShutdown with them.
StartShutdownHandler ==
    /\ main = "serve"
    /\ todo = <<>>
    /\ main' = "wait"
    /\ handler' = "wait"
    /\ UNCHANGED <<exit, todo, serverVars, grpc, signalVars, down, received,
                   success, expired, hooks>>

\* wg.Wait returns, and so does main, which calls its deferred Shutdown.
Return ==
    /\ main = "wait"
    /\ \A s \in Schemes : serving[s] = "stopped"
    /\ handler = "done"
    /\ main' = "return"
    /\ Shutdown("main")
    /\ UNCHANGED <<exit, todo, serverVars, grpc, sent, interrupt, interrupted,
                   shutdown, shutdownVars>>

\* The deferred call is over.
End ==
    /\ "main" \notin closing
    /\ \/ main = "return" /\ Exit("returned")
       \/ main \in {"config", "open"} /\ Exit(main)

MainStep ==
    \/ BadFlags \/ ConfigureAPI \/ Listen \/ Notify \/ ServeScheme
    \/ StartShutdownHandler \/ Return \/ End \/ CloseChannel("main")

-----------------------------------------------------------------------------
(* http.Server *)

\* Serve, called for the listener of s: it returns at once if Shutdown was
\* called before it.
StartServing(s) ==
    /\ serving[s] = "spawned"
    /\ IF down[s] \in {"none", "called"}
       THEN /\ serving' = [serving EXCEPT ![s] = "serving"]
            /\ UNCHANGED listener
       ELSE /\ serving' = [serving EXCEPT ![s] = "stopped"]
            /\ listener' = [listener EXCEPT ![s] = "closed"]
    /\ UNCHANGED <<mainVars, calls, svc, grpc, signalVars, shutdownVars>>

Accept(s) ==
    /\ serving[s] = "serving" /\ listener[s] = "open"
    /\ calls[s] < MaxCalls
    /\ calls' = [calls EXCEPT ![s] = @ + 1]
    /\ UNCHANGED <<mainVars, listener, serving, svc, grpc, signalVars,
                   shutdownVars>>

AcceptFails(s) ==
    /\ serving[s] = "serving" /\ listener[s] = "open"
    /\ Exit("accept")

CallEnds(s) ==
    /\ calls[s] > 0
    /\ calls' = [calls EXCEPT ![s] = @ - 1]
    /\ UNCHANGED <<mainVars, listener, serving, svc, grpc, signalVars,
                   shutdownVars>>

\* Serve returns ErrServerClosed.
StopServing(s) ==
    /\ serving[s] = "serving" /\ listener[s] = "closed"
    /\ serving' = [serving EXCEPT ![s] = "stopped"]
    /\ UNCHANGED <<mainVars, listener, calls, svc, grpc, signalVars,
                   shutdownVars>>

\* Server.Shutdown closes the listeners of which Serve has told it.
CloseListener(s) ==
    /\ down[s] = "called"
    /\ listener' = [listener EXCEPT
            ![s] = IF serving[s] = "serving" THEN "closed" ELSE @]
    /\ down' = [down EXCEPT ![s] = "draining"]
    /\ UNCHANGED <<mainVars, serving, calls, svc, grpc, signalVars, handler,
                   received, success, expired, hooks>>

\* It returns when the server is idle, with an error if closing the listener
\* was one, or when the grace period is over.
Drained(s) ==
    /\ down[s] = "draining" /\ serving[s] # "serving"
    /\ \/ calls[s] = 0 /\ down' = [down EXCEPT ![s] = "ok"]
       \/ calls[s] = 0 /\ down' = [down EXCEPT ![s] = "notclosed"]
       \/ expired /\ down' = [down EXCEPT ![s] = "late"]
    /\ UNCHANGED <<mainVars, serverVars, grpc, signalVars, handler, received,
                   success, expired, hooks>>

ServerStep(s) ==
    \/ StartServing(s) \/ StopServing(s) \/ CloseListener(s) \/ Drained(s)

Request(s) == Accept(s) \/ AcceptFails(s) \/ CallEnds(s)

-----------------------------------------------------------------------------
(* Interrupts *)

\* Mutant: the channel holds every interrupt.
Deliver_All == interrupt' = interrupt + 1

\* The channel holds one interrupt; more are dropped.
Deliver == interrupt' = 1

\* Before signalNotify the process dies of it.
Interrupt ==
    /\ sent < MaxSignals
    /\ IF main \in {"flags", "listen"}
       THEN Exit("signal")
       ELSE /\ Deliver
            /\ sent' = sent + 1
            /\ UNCHANGED <<mainVars, serverVars, grpc, interrupted,
                           shuttingDown, closing, shutdown, shutdownVars>>

HandleInterrupt ==
    /\ "interrupt" \notin closing
    /\ interrupt > 0
    /\ interrupt' = interrupt - 1
    /\ interrupted' = TRUE
    /\ IF interrupted THEN UNCHANGED <<shuttingDown, closing>>
       ELSE Shutdown("interrupt")
    /\ UNCHANGED <<mainVars, serverVars, grpc, sent, shutdown, shutdownVars>>

InterruptStep == HandleInterrupt \/ CloseChannel("interrupt")

-----------------------------------------------------------------------------
(* handleShutdown *)

\* The channel is closed: the grace period begins, the first hook is run, and
\* Server.Shutdown is called for each server, each in a goroutine.
BeginShutdown ==
    /\ handler = "wait"
    /\ shutdown
    /\ handler' = "drain"
    /\ hooks' = hooks \cup {"PreServerShutdown"}
    /\ down' = [s \in Schemes |-> "called"]
    /\ UNCHANGED <<mainVars, serverVars, grpc, signalVars, received, success,
                   expired>>

\* Mutant: the context has no timeout.
Expire_Never == FALSE /\ UNCHANGED restVars

Expire ==
    /\ handler = "drain" /\ ~expired
    /\ expired' = TRUE
    /\ UNCHANGED <<mainVars, serverVars, grpc, signalVars, handler, down,
                   received, success, hooks>>

Returned == {"ok", "notclosed", "late"}

\* Mutant: the result is not looked at.
Collect_Any(s) ==
    /\ handler = "drain" /\ success
    /\ down[s] \in Returned /\ s \notin received
    /\ received' = received \cup {s}
    /\ UNCHANGED <<mainVars, serverVars, grpc, signalVars, handler, down,
                   success, expired, hooks>>

\* The results are received in the order they come, up to the first failure.
Collect(s) ==
    /\ handler = "drain" /\ success
    /\ down[s] \in Returned /\ s \notin received
    /\ received' = received \cup {s}
    /\ success' = (down[s] = "ok")
    /\ UNCHANGED <<mainVars, serverVars, grpc, signalVars, handler, down,
                   expired, hooks>>

\* Mutant: the second hook and the end wait for one server only.
EndShutdown_One ==
    /\ handler = "drain"
    /\ ~success \/ received # {}
    /\ handler' = "done"
    /\ hooks' = IF success THEN hooks \cup {"ServerShutdown"} ELSE hooks
    /\ UNCHANGED <<mainVars, serverVars, grpc, signalVars, down, received,
                   success, expired>>

\* At the first failure, or with all results.
EndShutdown ==
    /\ handler = "drain"
    /\ ~success \/ received = Schemes
    /\ handler' = "done"
    /\ hooks' = IF success THEN hooks \cup {"ServerShutdown"} ELSE hooks
    /\ UNCHANGED <<mainVars, serverVars, grpc, signalVars, down, received,
                   success, expired>>

ShutdownStep ==
    \/ BeginShutdown \/ Expire \/ EndShutdown \/ \E s \in Schemes : Collect(s)

-----------------------------------------------------------------------------
(* grpcServer *)

\* Port 9000 is opened and served; then a connection to port 8080 is waited for.
GrpcListen ==
    /\ grpc = "listen"
    /\ \/ /\ grpc' = "dial"
          /\ UNCHANGED <<mainVars, serverVars, signalVars, shutdownVars>>
       \/ Exit("grpc")

GrpcUp == grpc \in {"dial", "gateway"}

\* A call is answered by the service, which may not be there yet: a panic of a
\* gRPC handler is not recovered.
GrpcCall ==
    /\ GrpcUp
    /\ calls["grpc"] < MaxCalls
    /\ IF svc = 0 THEN Exit("nil service")
       ELSE /\ calls' = [calls EXCEPT !["grpc"] = @ + 1]
            /\ UNCHANGED <<mainVars, listener, serving, svc, grpc, signalVars,
                           shutdownVars>>

\* The gateway is served once something answers in gRPC at port 8080, where the
\* gRPC server is not.
Gateway ==
    /\ grpc = "dial"
    /\ grpc' = "gateway"
    /\ UNCHANGED <<mainVars, serverVars, signalVars, shutdownVars>>

\* One of the two servers ends, or the gateway's port is taken.
GrpcFails ==
    /\ GrpcUp
    /\ Exit("grpc")

-----------------------------------------------------------------------------

RestInit ==
    /\ main = "flags" /\ exit = "" /\ todo = <<>>
    /\ listener = [s \in Schemes |-> "none"]
    /\ serving = [s \in Schemes |-> "none"]
    /\ calls = [s \in Schemes \cup {"grpc"} |-> 0]
    /\ svc = 0
    /\ grpc = "none"
    /\ sent = 0 /\ interrupt = 0 /\ interrupted = FALSE
    /\ shuttingDown = FALSE /\ closing = {} /\ shutdown = FALSE
    /\ handler = "none" /\ down = [s \in Schemes |-> "none"]
    /\ received = {} /\ success = TRUE /\ expired = FALSE /\ hooks = {}

RestStep ==
    \/ MainStep
    \/ \E s \in Schemes : ServerStep(s) \/ Request(s)
    \/ CallEnds("grpc")
    \/ Interrupt \/ InterruptStep
    \/ ShutdownStep
    \/ GrpcListen \/ GrpcCall \/ Gateway \/ GrpcFails

\* Nothing happens once the process has ended.
RestNext == Running /\ RestStep

RestSpec == RestInit /\ [][RestNext]_restVars

\* Every goroutine is scheduled and the timer runs; requests need not come and
\* need not end.
RestFairSpec ==
    /\ RestSpec
    /\ WF_restVars(Running /\ MainStep)
    /\ WF_restVars(Running /\ InterruptStep)
    /\ WF_restVars(Running /\ ShutdownStep)
    /\ \A s \in Schemes : WF_restVars(Running /\ ServerStep(s))

-----------------------------------------------------------------------------
(* Properties *)

\* "" while it runs; "returned" from main; the others are errors and panics.
Ends == {"", "returned", "flags", "help", "listen", "certificate", "config",
         "open", "signal", "accept", "grpc", "nil service", "close"}

\* Types of the variables; the channel for interrupts holds at most one.
RestTypeOK ==
    /\ main \in {"flags", "listen", "serve", "wait", "return", "config", "open"}
    /\ exit \in Ends
    /\ todo \in Seq(Schemes)
    /\ listener \in [Schemes -> {"none", "open", "closed"}]
    /\ serving \in [Schemes -> {"none", "spawned", "serving", "stopped"}]
    /\ calls \in [Schemes \cup {"grpc"} -> Nat]
    /\ svc \in Nat
    /\ grpc \in {"none", "listen", "dial", "gateway"}
    /\ sent \in Nat /\ interrupt \in 0 .. 1
    /\ interrupted \in BOOLEAN /\ shuttingDown \in BOOLEAN
    /\ closing \subseteq {"main", "interrupt"} /\ shutdown \in BOOLEAN
    /\ handler \in {"none", "wait", "drain", "done"}
    /\ down \in [Schemes -> {"none", "called", "draining"} \cup Returned]
    /\ received \subseteq Schemes
    /\ success \in BOOLEAN /\ expired \in BOOLEAN
    /\ hooks \subseteq {"PreServerShutdown", "ServerShutdown"}

\* A request over HTTP is never handled without a service, although the service
\* is a global that the last scheme to be configured sets again while the first
\* is served.
ServedOnlyConfigured == \A s \in Schemes : calls[s] > 0 => svc > 0

\* The second hook runs when the HTTP servers are done handling all active
\* connections and accept no more (blob_hub_api.go: ServerShutdown).
ShutdownHookAfterDrain ==
    "ServerShutdown" \in hooks =>
        \A s \in Schemes : calls[s] = 0 /\ serving[s] # "serving"

\* The process returns only because it was interrupted, after the first hook,
\* with every listener closed, and without cutting a request over HTTP off
\* within the grace period - unless closing a listener was an error.
ReturnsInOrder ==
    exit = "returned" =>
        /\ interrupted /\ "PreServerShutdown" \in hooks
        /\ \A s \in Schemes : listener[s] = "closed"
        /\ \/ expired \/ \E s \in Schemes : down[s] = "notclosed"
           \/ "ServerShutdown" \in hooks /\ \A s \in Schemes : calls[s] = 0

\* However many interrupts come, and although main calls the Shutdown it defers
\* when it returns and when it panics, which may be while an interrupt is
\* handled, the channel is closed once: to close it again would be a panic.
ClosedOnce == exit # "close"

\* An interrupt that was received ends the process, whatever requests do.
InterruptStops == interrupted ~> exit # ""
=============================================================================
