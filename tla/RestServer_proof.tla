---------------------------- MODULE RestServer_proof ----------------------------
(***************************************************************************)
(* Proofs about RestServer, for any set of listeners, any configuration    *)
(* files and any number of requests and interrupts.                        *)
(***************************************************************************)
EXTENDS RestServer, TLAPS

\* How the process may end without main having returned.
Other == {"", "flags", "help", "listen", "certificate", "config", "open",
          "signal", "accept", "grpc", "nil service"}

(* RestTypeOK in parts *)

MainType ==
    /\ main \in {"flags", "listen", "serve", "wait", "return", "config", "open"}
    /\ exit \in Ends
    /\ grpc \in {"none", "listen", "dial", "gateway"}

TodoType == todo \in Seq(Schemes)

ListenerType ==
    /\ listener \in [Schemes -> {"none", "open", "closed"}]
    /\ serving \in [Schemes -> {"none", "spawned", "serving", "stopped"}]

CallType ==
    /\ calls \in [Schemes \cup {"grpc"} -> Nat]
    /\ svc \in Nat

SignalType == sent \in Nat /\ interrupt \in 0 .. 1

FlagType ==
    /\ interrupted \in BOOLEAN
    /\ shuttingDown \in BOOLEAN
    /\ closing \subseteq {"main", "interrupt"}
    /\ shutdown \in BOOLEAN

DownType ==
    /\ handler \in {"none", "wait", "drain", "done"}
    /\ down \in [Schemes -> {"none", "called", "draining"} \cup Returned]
    /\ received \subseteq Schemes
    /\ hooks \subseteq {"PreServerShutdown", "ServerShutdown"}

ResultType == success \in BOOLEAN /\ expired \in BOOLEAN

LEMMA Types ==
    RestTypeOK <=> /\ MainType /\ TodoType /\ ListenerType /\ CallType
                   /\ SignalType /\ FlagType /\ DownType /\ ResultType
BY DEF RestTypeOK, MainType, TodoType, ListenerType, CallType, SignalType,
       FlagType, DownType, ResultType

(* What makes the properties inductive *)

\* A server is only spawned once it is configured, and main opens every
\* listener before it spawns a server.
Spawned ==
    /\ main \in {"flags", "listen"} => \A s \in Schemes : serving[s] = "none"
    /\ \A s \in Schemes : serving[s] # "none" => svc > 0
    /\ \A s \in Schemes : calls[s] > 0 => serving[s] # "none"
    /\ \A s \in Schemes : serving[s] = "stopped" => listener[s] = "closed"

\* Whoever is to close the channel is the only one, and it is open until then.
Closing ==
    /\ \A g, h \in closing : g = h
    /\ closing # {} => shuttingDown /\ ~shutdown
    /\ shutdown => shuttingDown

\* Unless main has panicked, that is by the first interrupt.
Signalled == shuttingDown => interrupted \/ main \in {"config", "open"}

\* handleShutdown is started last, and before it has the channel closed no
\* server was told to stop.
Quiet ==
    /\ main \notin {"wait", "return"} => handler = "none"
    /\ handler \in {"none", "wait"} =>
            /\ \A s \in Schemes : down[s] = "none"
            /\ received = {} /\ success /\ ~expired /\ hooks = {}

\* Afterwards every server was, and the first hook has been run.
Begun ==
    handler \in {"drain", "done"} =>
        /\ shutdown /\ "PreServerShutdown" \in hooks
        /\ \A s \in Schemes : down[s] # "none"

\* A server that has shut down within the grace period is idle.
Idle ==
    \A s \in Schemes :
        down[s] \in {"ok", "notclosed"} => calls[s] = 0 /\ serving[s] # "serving"

Late ==
    \A s \in Schemes :
        /\ down[s] = "late" => expired
        /\ s \in received => down[s] \in Returned

\* success means that all results so far were good, and after the second hook
\* that all are.
Successful ==
    /\ success => \A s \in received : down[s] = "ok"
    /\ ~success => \E s \in received : down[s] \in {"notclosed", "late"}
    /\ "ServerShutdown" \in hooks =>
            handler = "done" /\ success /\ received = Schemes
    /\ handler = "done" /\ success => "ServerShutdown" \in hooks

\* Main returns when the servers and handleShutdown are done.
Returning ==
    /\ main = "return" =>
            handler = "done" /\ \A s \in Schemes : serving[s] = "stopped"
    /\ exit \in Other \cup {"returned"}
    /\ exit = "returned" => main = "return"

RestInv ==
    /\ MainType /\ TodoType /\ ListenerType /\ CallType /\ SignalType
    /\ FlagType /\ DownType /\ ResultType /\ Spawned /\ Closing /\ Signalled
    /\ Quiet /\ Begun /\ Idle /\ Late /\ Successful
    /\ Returning

-----------------------------------------------------------------------------
(* Each part of the invariant holds as long as its variables stay *)

LEMMA Frame ==
    /\ MainType /\ UNCHANGED <<main, exit, grpc>> => MainType'
    /\ TodoType /\ UNCHANGED <<todo>> => TodoType'
    /\ ListenerType /\ UNCHANGED <<listener, serving>> => ListenerType'
    /\ CallType /\ UNCHANGED <<calls, svc>> => CallType'
    /\ SignalType /\ UNCHANGED <<sent, interrupt>> => SignalType'
    /\ FlagType /\ UNCHANGED <<interrupted, shuttingDown, closing, shutdown>> =>
         FlagType'
    /\ DownType /\ UNCHANGED <<handler, down, received, hooks>> => DownType'
    /\ ResultType /\ UNCHANGED <<success, expired>> => ResultType'
    /\ Spawned /\ UNCHANGED <<main, listener, serving, calls, svc>> =>
         Spawned'
    /\ Signalled /\ UNCHANGED <<interrupted, shuttingDown, main>> => Signalled'
    /\ Closing /\ UNCHANGED <<shuttingDown, closing, shutdown>> => Closing'
    /\ Quiet /\
         UNCHANGED <<main, handler, down, received, success, expired, hooks>>
         => Quiet'
    /\ Begun /\ UNCHANGED <<handler, shutdown, hooks, down>> => Begun'
    /\ Idle /\ UNCHANGED <<down, calls, serving>> => Idle'
    /\ Late /\ UNCHANGED <<down, received, expired>> => Late'
    /\ Successful /\ UNCHANGED <<down, received, success, handler, hooks>> =>
         Successful'
    /\ Returning /\ UNCHANGED <<main, exit, handler, serving>> => Returning'
<1>1. MainType /\ UNCHANGED <<main, exit, grpc>> => MainType'
  BY DEF MainType
<1>2. TodoType /\ UNCHANGED <<todo>> => TodoType'
  BY DEF TodoType
<1>3. ListenerType /\ UNCHANGED <<listener, serving>> => ListenerType'
  BY DEF ListenerType
<1>4. CallType /\ UNCHANGED <<calls, svc>> => CallType'
  BY DEF CallType
<1>5. SignalType /\ UNCHANGED <<sent, interrupt>> => SignalType'
  BY DEF SignalType
<1>6. FlagType /\ UNCHANGED <<interrupted, shuttingDown, closing, shutdown>> =>
       FlagType'
  BY DEF FlagType
<1>7. DownType /\ UNCHANGED <<handler, down, received, hooks>> => DownType'
  BY DEF DownType
<1>8. ResultType /\ UNCHANGED <<success, expired>> => ResultType'
  BY DEF ResultType
<1>9. Spawned /\ UNCHANGED <<main, listener, serving, calls, svc>> => Spawned'
  BY DEF Spawned
<1>10. /\ Signalled /\ UNCHANGED <<interrupted, shuttingDown, main>> => Signalled'
       /\ Closing /\ UNCHANGED <<shuttingDown, closing, shutdown>> => Closing'
  BY DEF Signalled, Closing
<1>11. Quiet /\
       UNCHANGED <<main, handler, down, received, success, expired, hooks>> =>
       Quiet'
  BY DEF Quiet
<1>12. Begun /\ UNCHANGED <<handler, shutdown, hooks, down>> => Begun'
  BY DEF Begun
<1>13. Idle /\ UNCHANGED <<down, calls, serving>> => Idle'
  BY DEF Idle
<1>14. Late /\ UNCHANGED <<down, received, expired>> => Late'
  BY DEF Late
<1>15. Successful /\ UNCHANGED <<down, received, success, handler, hooks>> =>
       Successful'
  BY DEF Successful
<1>16. Returning /\ UNCHANGED <<main, exit, handler, serving>> => Returning'
  BY DEF Returning
<1>17. QED
  BY <1>1, <1>2, <1>3, <1>4, <1>5, <1>6, <1>7, <1>8, <1>9, <1>10, <1>11,
     <1>12, <1>13, <1>14, <1>15, <1>16

LEMMA StutterInv ==
    ASSUME RestInv, UNCHANGED restVars
    PROVE  RestInv'
<1>1. UNCHANGED <<main, exit, todo, listener, serving, calls, svc, grpc, sent,
                  interrupt, interrupted, shuttingDown, closing, shutdown,
                  handler, down, received, success, expired, hooks>>
  BY DEF restVars, mainVars, serverVars, signalVars, shutdownVars
<1>2. QED
  BY <1>1, Frame DEF RestInv

LEMMA OrderType == Order \in Seq(Schemes)
BY DEF Order

LEMMA InitInv == RestInit => RestInv
<1> SUFFICES ASSUME RestInit PROVE RestInv
  OBVIOUS
<1>0. /\ main = "flags" /\ todo = << >> /\ sent = 0 /\ interrupt = 0 /\ svc = 0
      /\ serving = [s \in Schemes |-> "none"]
      /\ calls = [s \in Schemes \cup {"grpc"} |-> 0]
  BY DEF RestInit
<1>1. MainType
  BY DEF RestInit, MainType, Ends
<1>2. TodoType
  BY <1>0 DEF TodoType
<1>3. ListenerType
  BY DEF RestInit, ListenerType
<1>4. CallType
  BY DEF RestInit, CallType
<1>5. SignalType
  BY <1>0 DEF SignalType
<1>6. FlagType
  BY DEF RestInit, FlagType
<1>7. DownType
  BY DEF RestInit, DownType, Returned
<1>8. ResultType
  BY DEF RestInit, ResultType
<1>9. Spawned
  BY <1>0 DEF Spawned
<1>10. Closing /\ Signalled
  BY DEF RestInit, Closing, Signalled
<1>11. Quiet
  BY DEF RestInit, Quiet
<1>12. Begun
  BY DEF RestInit, Begun
<1>13. Idle
  BY DEF RestInit, Idle, Returned
<1>14. Late
  BY DEF RestInit, Late, Returned
<1>15. Successful
  BY DEF RestInit, Successful, Returned
<1>16. Returning
  BY DEF RestInit, Returning, Other
<1>17. QED
  BY <1>1, <1>2, <1>3, <1>4, <1>5, <1>6, <1>7, <1>8, <1>9, <1>10, <1>11,
     <1>12, <1>13, <1>14, <1>15, <1>16 DEF RestInv

\* Whatever ends the process changes nothing else.
LEMMA ExitInv ==
    ASSUME RestInv, NEW why \in Other, Exit(why)
    PROVE  RestInv'
<1>1. /\ exit' = why
      /\ UNCHANGED <<main, todo, listener, serving, calls, svc, grpc, sent,
                     interrupt, interrupted, shuttingDown, closing, shutdown,
                     handler, down, received, success, expired, hooks>>
  BY DEF Exit, mainVars, serverVars, signalVars, shutdownVars
<1>2. MainType'
  BY <1>1 DEF RestInv, MainType, Ends, Other
<1>3. Returning'
  BY <1>1 DEF RestInv, Returning, Other
<1>4. QED
  BY <1>1, <1>2, <1>3, Frame DEF RestInv

LEMMA ConfigureAPIInv ==
    ASSUME RestInv, Running, ConfigureAPI
    PROVE  RestInv'
<1>1. /\ main = "flags" /\ main' = "listen"
      /\ todo' = Order
      /\ grpc' = "listen"
      /\ UNCHANGED <<exit, listener, serving, calls, svc, sent, interrupt,
                     interrupted, shuttingDown, closing, shutdown, handler,
                     down, received, success, expired, hooks>>
  BY DEF ConfigureAPI, mainVars, serverVars, signalVars, shutdownVars
<1>2. MainType'
  BY <1>1, OrderType
  DEF RestInv, MainType
<1>3. TodoType'
  BY <1>1, OrderType
  DEF RestInv, TodoType
<1>4. Spawned'
  BY <1>1, OrderType
  DEF RestInv, Spawned, ListenerType, CallType
<1>5. Quiet'
  BY <1>1, OrderType
  DEF RestInv, Quiet, DownType, ResultType
<1>6. Returning'
  BY <1>1, OrderType
  DEF RestInv, Returning, MainType, ListenerType, DownType, Other
<1>7. Signalled'
  BY <1>1 DEF RestInv, Signalled
<1>8. QED
  BY <1>1, <1>2, <1>3, <1>4, <1>5, <1>6, <1>7,
     Frame DEF RestInv

LEMMA ListenInv ==
    ASSUME RestInv, Running, Listen
    PROVE  RestInv'
<1>1. CASE todo' = Tail(todo) /\ exit' = exit
  <2>1. /\ main = "listen" /\ todo # <<>>
        /\ listener' = [listener EXCEPT ![Head(todo)] = "open"]
        /\ todo' = Tail(todo)
        /\ UNCHANGED <<main, exit, serving, calls, svc, grpc, sent, interrupt,
                       interrupted, shuttingDown, closing, shutdown, handler,
                       down, received, success, expired, hooks>>
    BY <1>1 DEF Listen, Exit, mainVars, serverVars, signalVars, shutdownVars
  <2>2. TodoType'
    BY <1>1, <2>1
    DEF RestInv, TodoType
  <2>3. ListenerType'
    BY <1>1, <2>1
    DEF RestInv, ListenerType
  <2>4. Spawned'
    BY <1>1, <2>1
    DEF RestInv, Spawned, ListenerType, CallType
  <2>5. QED
    BY <2>1, <2>2, <2>3, <2>4, Frame DEF RestInv
<1>2. CASE Exit("listen")
  BY <1>2, ExitInv DEF Other
<1>3. QED
  BY <1>1, <1>2 DEF Listen, Exit

LEMMA NotifyInv ==
    ASSUME RestInv, Running, Notify
    PROVE  RestInv'
<1>1. /\ main = "listen" /\ main' = "serve"
      /\ todo' = Order
      /\ UNCHANGED <<exit, listener, serving, calls, svc, grpc, sent,
                     interrupt, interrupted, shuttingDown, closing, shutdown,
                     handler, down, received, success, expired, hooks>>
  BY DEF Notify, mainVars, serverVars, signalVars, shutdownVars
<1>2. MainType'
  BY <1>1, OrderType
  DEF RestInv, MainType
<1>3. TodoType'
  BY <1>1, OrderType
  DEF RestInv, TodoType
<1>4. Spawned'
  BY <1>1, OrderType
  DEF RestInv, Spawned, ListenerType, CallType
<1>5. Quiet'
  BY <1>1, OrderType
  DEF RestInv, Quiet, DownType, ResultType
<1>6. Returning'
  BY <1>1, OrderType
  DEF RestInv, Returning, MainType, ListenerType, DownType, Other
<1>7. Signalled'
  BY <1>1 DEF RestInv, Signalled
<1>8. QED
  BY <1>1, <1>2, <1>3, <1>4, <1>5, <1>6, <1>7,
     Frame DEF RestInv

LEMMA StartShutdownHandlerInv ==
    ASSUME RestInv, Running, StartShutdownHandler
    PROVE  RestInv'
<1>1. /\ main = "serve" /\ main' = "wait"
      /\ handler' = "wait"
      /\ UNCHANGED <<exit, todo, listener, serving, calls, svc, grpc, sent,
                     interrupt, interrupted, shuttingDown, closing, shutdown,
                     down, received, success, expired, hooks>>
  BY DEF StartShutdownHandler, mainVars, serverVars, signalVars, shutdownVars
<1>2. MainType'
  BY <1>1
  DEF RestInv, MainType
<1>3. DownType'
  BY <1>1
  DEF RestInv, DownType, Returned
<1>4. Spawned'
  BY <1>1
  DEF RestInv, Spawned, ListenerType, CallType
<1>5. Quiet'
  BY <1>1
  DEF RestInv, Quiet, DownType, ResultType
<1>6. Begun'
  BY <1>1
  DEF RestInv, Begun, FlagType, DownType, Quiet
<1>7. Successful'
  BY <1>1
  DEF RestInv, Successful, DownType, ResultType, Quiet, Late, Returned
<1>8. Returning'
  BY <1>1
  DEF RestInv, Returning, MainType, ListenerType, DownType, Other
<1>9. Signalled'
  BY <1>1 DEF RestInv, Signalled
<1>10. QED
  BY <1>1, <1>2, <1>3, <1>4, <1>5, <1>6, <1>7, <1>8, <1>9,
     Frame DEF RestInv

\* The compare-and-swap lets one goroutine through.
LEMMA ShutdownCloses ==
    ASSUME RestInv, NEW g, Shutdown(g), UNCHANGED shutdown
    PROVE  Closing'
<1>1. CASE shuttingDown
  <2>1. UNCHANGED <<shuttingDown, closing, shutdown>>
    BY <1>1 DEF Shutdown
  <2>2. QED
    BY <2>1, Frame DEF RestInv
<1>2. CASE ~shuttingDown
  <2>1. closing = {} /\ ~shutdown
    BY <1>2 DEF RestInv, Closing
  <2>2. shuttingDown' = TRUE /\ closing' = {g} /\ ~shutdown'
    BY <1>2, <2>1 DEF Shutdown
  <2>3. QED
    BY <2>2 DEF Closing
<1>3. QED
  BY <1>1, <1>2 DEF RestInv, FlagType

LEMMA ReturnInv ==
    ASSUME RestInv, Running, Return
    PROVE  RestInv'
<1>0. shuttingDown
  BY DEF Return, RestInv, Begun, Closing
<1>1. /\ main = "wait" /\ main' = "return"
      /\ handler = "done" /\ \A s \in Schemes : serving[s] = "stopped"
      /\ UNCHANGED <<exit, todo, listener, serving, calls, svc, grpc, sent,
                     interrupt, interrupted, shuttingDown, closing, shutdown,
                     handler, down, received, success, expired, hooks>>
  BY <1>0 DEF Return, Shutdown, mainVars, serverVars, signalVars, shutdownVars
<1>2. MainType'
  BY <1>1
  DEF RestInv, MainType
<1>3. Spawned'
  BY <1>1
  DEF RestInv, Spawned, ListenerType, CallType
<1>4. Signalled'
  BY <1>1
  DEF RestInv, Signalled
<1>5. Quiet'
  BY <1>1
  DEF RestInv, Quiet, DownType, ResultType
<1>6. Returning'
  BY <1>1
  DEF RestInv, Returning, MainType, ListenerType, DownType, Other
<1>7. QED
  BY <1>1, <1>2, <1>3, <1>4, <1>5, <1>6, Frame DEF RestInv

\* The panic of main, before handleShutdown is started.
LEMMA PanicInv ==
    ASSUME RestInv, Running, main = "serve",
           NEW why \in {"config", "open"}, Panic(why)
    PROVE  RestInv'
<1>1. /\ main' = why
      /\ UNCHANGED <<exit, todo, listener, serving, calls, svc, grpc, sent,
                     interrupt, interrupted, shutdown, handler, down,
                     received, success, expired, hooks>>
  BY DEF Panic, serverVars, shutdownVars
<1>2. MainType'
  BY <1>1 DEF RestInv, MainType
<1>3. FlagType'
  BY <1>1 DEF RestInv, FlagType, Panic, Shutdown
<1>4. Spawned'
  BY <1>1 DEF RestInv, Spawned
<1>5. Closing'
  BY <1>1, ShutdownCloses DEF Panic
<1>6. Signalled'
  BY <1>1 DEF Signalled
<1>7. Quiet'
  BY <1>1 DEF RestInv, Quiet
<1>8. Returning'
  BY <1>1 DEF RestInv, Returning, MainType, Other
<1>9. QED
  BY <1>1, <1>2, <1>3, <1>4, <1>5, <1>6, <1>7, <1>8, Frame DEF RestInv

\* Only one goroutine is about to close the channel, and it is still open.
LEMMA CloseChannelInv ==
    ASSUME RestInv, Running, NEW g, CloseChannel(g)
    PROVE  RestInv'
<1>1. g \in closing /\ ~shutdown
  BY DEF CloseChannel, RestInv, Closing
<1>2. /\ shutdown' = TRUE /\ closing' = closing \ {g}
      /\ UNCHANGED <<main, exit, todo, listener, serving, calls, svc, grpc, sent,
                     interrupt, interrupted, shuttingDown, handler, down,
                     received, success, expired, hooks>>
  BY <1>1 DEF CloseChannel, mainVars, serverVars, shutdownVars
<1>3. FlagType'
  BY <1>2 DEF RestInv, FlagType
<1>4. Closing'
  BY <1>1, <1>2 DEF RestInv, Closing
<1>5. Begun'
  BY <1>2 DEF RestInv, Begun
<1>6. QED
  BY <1>2, <1>3, <1>4, <1>5, Frame DEF RestInv

LEMMA StartServingInv ==
    ASSUME RestInv, Running, NEW s \in Schemes, StartServing(s)
    PROVE  RestInv'
<1>1. CASE down[s] \in {"none", "called"}
  <2>1. /\ serving[s] = "spawned"
        /\ serving' = [serving EXCEPT ![s] = "serving"]
        /\ UNCHANGED <<main, exit, todo, listener, calls, svc, grpc, sent,
                       interrupt, interrupted, shuttingDown, closing,
                       shutdown, handler, down, received, success, expired,
                       hooks>>
    BY <1>1 DEF StartServing, mainVars, serverVars, signalVars, shutdownVars
  <2>2. ListenerType'
    BY <1>1, <2>1
    DEF RestInv, ListenerType
  <2>3. Spawned'
    BY <1>1, <2>1
    DEF RestInv, Spawned, ListenerType, CallType
  <2>4. Idle'
    BY <1>1, <2>1
    DEF RestInv, Idle, ListenerType, CallType, DownType, Quiet, Returned
  <2>5. Returning'
    BY <1>1, <2>1
    DEF RestInv, Returning, MainType, ListenerType, DownType, Other
  <2>6. QED
    BY <2>1, <2>2, <2>3, <2>4, <2>5, Frame DEF RestInv
<1>2. CASE down[s] \notin {"none", "called"}
  <2>1. /\ serving[s] = "spawned"
        /\ serving' = [serving EXCEPT ![s] = "stopped"]
        /\ listener' = [listener EXCEPT ![s] = "closed"]
        /\ UNCHANGED <<main, exit, todo, calls, svc, grpc, sent, interrupt,
                       interrupted, shuttingDown, closing, shutdown, handler,
                       down, received, success, expired, hooks>>
    BY <1>2 DEF StartServing, mainVars, serverVars, signalVars, shutdownVars
  <2>2. ListenerType'
    BY <1>2, <2>1
    DEF RestInv, ListenerType
  <2>3. Spawned'
    BY <1>2, <2>1
    DEF RestInv, Spawned, ListenerType, CallType
  <2>4. Idle'
    BY <1>2, <2>1
    DEF RestInv, Idle, ListenerType, CallType, DownType, Quiet, Returned
  <2>5. Returning'
    BY <1>2, <2>1
    DEF RestInv, Returning, MainType, ListenerType, DownType, Other
  <2>6. QED
    BY <2>1, <2>2, <2>3, <2>4, <2>5, Frame DEF RestInv
<1>3. QED
  BY <1>1, <1>2 DEF StartServing

LEMMA AcceptInv ==
    ASSUME RestInv, Running, NEW s \in Schemes, Accept(s)
    PROVE  RestInv'
<1>1. /\ serving[s] = "serving"
      /\ calls' = [calls EXCEPT ![s] = @ + 1]
      /\ UNCHANGED <<main, exit, todo, listener, serving, svc, grpc, sent,
                     interrupt, interrupted, shuttingDown, closing, shutdown,
                     handler, down, received, success, expired, hooks>>
  BY DEF Accept, mainVars, serverVars, signalVars, shutdownVars
<1>2. CallType'
  BY <1>1
  DEF RestInv, CallType
<1>3. Spawned'
  BY <1>1
  DEF RestInv, Spawned, ListenerType, CallType
<1>4. Idle'
  BY <1>1
  DEF RestInv, Idle, ListenerType, CallType, DownType, Quiet, Returned
<1>5. QED
  BY <1>1, <1>2, <1>3, <1>4, Frame DEF RestInv

LEMMA CallEndsInv ==
    ASSUME RestInv, Running, NEW s \in Schemes \cup {"grpc"}, CallEnds(s)
    PROVE  RestInv'
<1>1. /\ calls[s] > 0
      /\ calls' = [calls EXCEPT ![s] = @ - 1]
      /\ UNCHANGED <<main, exit, todo, listener, serving, svc, grpc, sent,
                     interrupt, interrupted, shuttingDown, closing, shutdown,
                     handler, down, received, success, expired, hooks>>
  BY DEF CallEnds, mainVars, serverVars, signalVars, shutdownVars
<1>2. CallType'
  BY <1>1
  DEF RestInv, CallType
<1>3. Spawned'
  BY <1>1
  DEF RestInv, Spawned, ListenerType, CallType
<1>4. Idle'
  BY <1>1
  DEF RestInv, Idle, ListenerType, CallType, DownType, Quiet, Returned
<1>5. QED
  BY <1>1, <1>2, <1>3, <1>4, Frame DEF RestInv

LEMMA StopServingInv ==
    ASSUME RestInv, Running, NEW s \in Schemes, StopServing(s)
    PROVE  RestInv'
<1>1. /\ serving[s] = "serving" /\ listener[s] = "closed"
      /\ serving' = [serving EXCEPT ![s] = "stopped"]
      /\ UNCHANGED <<main, exit, todo, listener, calls, svc, grpc, sent,
                     interrupt, interrupted, shuttingDown, closing, shutdown,
                     handler, down, received, success, expired, hooks>>
  BY DEF StopServing, mainVars, serverVars, signalVars, shutdownVars
<1>2. ListenerType'
  BY <1>1
  DEF RestInv, ListenerType
<1>3. Spawned'
  BY <1>1
  DEF RestInv, Spawned, ListenerType, CallType
<1>4. Idle'
  BY <1>1
  DEF RestInv, Idle, ListenerType, CallType, DownType, Quiet, Returned
<1>5. Returning'
  BY <1>1
  DEF RestInv, Returning, MainType, ListenerType, DownType, Other
<1>6. QED
  BY <1>1, <1>2, <1>3, <1>4, <1>5, Frame DEF RestInv

LEMMA CloseListenerInv ==
    ASSUME RestInv, Running, NEW s \in Schemes, CloseListener(s)
    PROVE  RestInv'
<1>1. CASE serving[s] = "serving"
  <2>1. /\ down[s] = "called"
        /\ listener' = [listener EXCEPT ![s] = "closed"]
        /\ down' = [down EXCEPT ![s] = "draining"]
        /\ UNCHANGED <<main, exit, todo, serving, calls, svc, grpc, sent,
                       interrupt, interrupted, shuttingDown, closing,
                       shutdown, handler, received, success, expired, hooks>>
    BY <1>1 DEF CloseListener, mainVars, serverVars, signalVars, shutdownVars
  <2>2. ListenerType'
    BY <1>1, <2>1
    DEF RestInv, ListenerType
  <2>3. DownType'
    BY <1>1, <2>1
    DEF RestInv, DownType, Returned
  <2>4. Spawned'
    BY <1>1, <2>1
    DEF RestInv, Spawned, ListenerType, CallType
  <2>5. Quiet'
    BY <1>1, <2>1
    DEF RestInv, Quiet, DownType, ResultType
  <2>6. Begun'
    BY <1>1, <2>1
    DEF RestInv, Begun, FlagType, DownType, Quiet
  <2>7. Idle'
    BY <1>1, <2>1
    DEF RestInv, Idle, ListenerType, CallType, DownType, Quiet, Returned
  <2>8. Late'
    BY <1>1, <2>1
    DEF RestInv, Late, DownType, ResultType, Quiet, Returned
  <2>9. Successful'
    BY <1>1, <2>1
    DEF RestInv, Successful, DownType, ResultType, Quiet, Late, Returned
  <2>10. QED
    BY <2>1, <2>2, <2>3, <2>4, <2>5, <2>6, <2>7, <2>8, <2>9, Frame DEF RestInv
<1>2. CASE serving[s] # "serving"
  <2>1. /\ down[s] = "called"
        /\ listener' = [listener EXCEPT ![s] = @]
        /\ down' = [down EXCEPT ![s] = "draining"]
        /\ UNCHANGED <<main, exit, todo, serving, calls, svc, grpc, sent,
                       interrupt, interrupted, shuttingDown, closing,
                       shutdown, handler, received, success, expired, hooks>>
    BY <1>2 DEF CloseListener, mainVars, serverVars, signalVars, shutdownVars
  <2>2. ListenerType'
    BY <1>2, <2>1
    DEF RestInv, ListenerType
  <2>3. DownType'
    BY <1>2, <2>1
    DEF RestInv, DownType, Returned
  <2>4. Spawned'
    BY <1>2, <2>1
    DEF RestInv, Spawned, ListenerType, CallType
  <2>5. Quiet'
    BY <1>2, <2>1
    DEF RestInv, Quiet, DownType, ResultType
  <2>6. Begun'
    BY <1>2, <2>1
    DEF RestInv, Begun, FlagType, DownType, Quiet
  <2>7. Idle'
    BY <1>2, <2>1
    DEF RestInv, Idle, ListenerType, CallType, DownType, Quiet, Returned
  <2>8. Late'
    BY <1>2, <2>1
    DEF RestInv, Late, DownType, ResultType, Quiet, Returned
  <2>9. Successful'
    BY <1>2, <2>1
    DEF RestInv, Successful, DownType, ResultType, Quiet, Late, Returned
  <2>10. QED
    BY <2>1, <2>2, <2>3, <2>4, <2>5, <2>6, <2>7, <2>8, <2>9, Frame DEF RestInv
<1>3. QED
  BY <1>1, <1>2 DEF CloseListener

LEMMA DrainedInv ==
    ASSUME RestInv, Running, NEW s \in Schemes, Drained(s)
    PROVE  RestInv'
<1>1. /\ down[s] = "draining" /\ serving[s] # "serving"
      /\ \/ calls[s] = 0 /\ down' = [down EXCEPT ![s] = "ok"]
         \/ calls[s] = 0 /\ down' = [down EXCEPT ![s] = "notclosed"]
         \/ expired /\ down' = [down EXCEPT ![s] = "late"]
      /\ UNCHANGED <<main, exit, todo, listener, serving, calls, svc, grpc,
                     sent, interrupt, interrupted, shuttingDown, closing,
                     shutdown, handler, received, success, expired, hooks>>
  BY DEF Drained, mainVars, serverVars, signalVars, shutdownVars
<1>2. DownType'
  BY <1>1
  DEF RestInv, DownType, Returned
<1>3. Quiet'
  BY <1>1
  DEF RestInv, Quiet, DownType, ResultType
<1>4. Begun'
  BY <1>1
  DEF RestInv, Begun, FlagType, DownType, Quiet
<1>5. Idle'
  BY <1>1
  DEF RestInv, Idle, ListenerType, CallType, DownType, Quiet, Returned
<1>6. Late'
  BY <1>1
  DEF RestInv, Late, DownType, ResultType, Quiet, Returned
<1>7. Successful'
  BY <1>1
  DEF RestInv, Successful, DownType, ResultType, Quiet, Late, Returned
<1>8. QED
  BY <1>1, <1>2, <1>3, <1>4, <1>5, <1>6, <1>7, Frame DEF RestInv

LEMMA InterruptInv ==
    ASSUME RestInv, Running, Interrupt
    PROVE  RestInv'
<1>1. CASE main \in {"flags", "listen"}
  <2>1. Exit("signal")
    BY <1>1 DEF Interrupt
  <2>2. QED
    BY <2>1, ExitInv DEF Other
<1>2. CASE main \notin {"flags", "listen"}
  <2>1. /\ sent' = sent + 1 /\ interrupt' = 1
        /\ UNCHANGED <<main, exit, todo, listener, serving, calls, svc, grpc,
                       interrupted, shuttingDown, closing, shutdown, handler,
                       down, received, success, expired, hooks>>
    BY <1>2 DEF Interrupt, Deliver, mainVars, serverVars, signalVars, shutdownVars
  <2>2. SignalType'
    BY <2>1 DEF RestInv, SignalType
  <2>3. QED
    BY <2>1, <2>2, Frame DEF RestInv
<1>3. QED
  BY <1>1, <1>2

LEMMA HandleInterruptInv ==
    ASSUME RestInv, Running, HandleInterrupt
    PROVE  RestInv'
<1>1. /\ interrupt > 0 /\ interrupt' = interrupt - 1
      /\ interrupted' = TRUE
      /\ UNCHANGED <<main, exit, todo, listener, serving, calls, svc, grpc, sent,
                     shutdown, handler, down, received, success, expired,
                     hooks>>
  BY DEF HandleInterrupt, mainVars, serverVars, shutdownVars
<1>2. SignalType'
  BY <1>1 DEF RestInv, SignalType
<1>3. FlagType'
  BY <1>1 DEF RestInv, FlagType, HandleInterrupt, Shutdown
<1>4. Closing'
  <2>1. CASE interrupted
    BY <1>1, <2>1, Frame DEF RestInv, HandleInterrupt
  <2>2. CASE ~interrupted
    BY <1>1, <2>2, ShutdownCloses DEF HandleInterrupt
  <2>3. QED
    BY <2>1, <2>2
<1>5. Signalled'
  BY <1>1 DEF Signalled
<1>6. QED
  BY <1>1, <1>2, <1>3, <1>4, <1>5, Frame DEF RestInv

LEMMA BeginShutdownInv ==
    ASSUME RestInv, Running, BeginShutdown
    PROVE  RestInv'
<1>1. /\ handler = "wait" /\ shutdown
      /\ handler' = "drain"
      /\ hooks' = hooks \cup {"PreServerShutdown"}
      /\ down' = [s \in Schemes |-> "called"]
      /\ UNCHANGED <<main, exit, todo, listener, serving, calls, svc, grpc,
                     sent, interrupt, interrupted, shuttingDown, closing,
                     shutdown, received, success, expired>>
  BY DEF BeginShutdown, mainVars, serverVars, signalVars, shutdownVars
<1>2. DownType'
  BY <1>1
  DEF RestInv, DownType, Returned
<1>3. Quiet'
  BY <1>1
  DEF RestInv, Quiet, DownType, ResultType
<1>4. Begun'
  BY <1>1
  DEF RestInv, Begun, FlagType, DownType, Quiet
<1>5. Idle'
  BY <1>1
  DEF RestInv, Idle, ListenerType, CallType, DownType, Quiet, Returned
<1>6. Late'
  BY <1>1
  DEF RestInv, Late, DownType, ResultType, Quiet, Returned
<1>7. Successful'
  BY <1>1
  DEF RestInv, Successful, DownType, ResultType, Quiet, Late, Returned
<1>8. Returning'
  BY <1>1
  DEF RestInv, Returning, MainType, ListenerType, DownType, Other
<1>9. QED
  BY <1>1, <1>2, <1>3, <1>4, <1>5, <1>6, <1>7, <1>8, Frame DEF RestInv

LEMMA ExpireInv ==
    ASSUME RestInv, Running, Expire
    PROVE  RestInv'
<1>1. /\ handler = "drain"
      /\ expired' = TRUE
      /\ UNCHANGED <<main, exit, todo, listener, serving, calls, svc, grpc,
                     sent, interrupt, interrupted, shuttingDown, closing,
                     shutdown, handler, down, received, success, hooks>>
  BY DEF Expire, mainVars, serverVars, signalVars, shutdownVars
<1>2. ResultType'
  BY <1>1
  DEF RestInv, ResultType
<1>3. Quiet'
  BY <1>1
  DEF RestInv, Quiet, DownType, ResultType
<1>4. Late'
  BY <1>1
  DEF RestInv, Late, DownType, ResultType, Quiet, Returned
<1>5. QED
  BY <1>1, <1>2, <1>3, <1>4, Frame DEF RestInv

LEMMA CollectInv ==
    ASSUME RestInv, Running, NEW s \in Schemes, Collect(s)
    PROVE  RestInv'
<1>1. /\ handler = "drain" /\ success
      /\ down[s] \in Returned /\ s \notin received
      /\ received' = received \cup {s}
      /\ success' = (down[s] = "ok")
      /\ UNCHANGED <<main, exit, todo, listener, serving, calls, svc, grpc,
                     sent, interrupt, interrupted, shuttingDown, closing,
                     shutdown, handler, down, expired, hooks>>
  BY DEF Collect, mainVars, serverVars, signalVars, shutdownVars
<1>2. DownType'
  BY <1>1
  DEF RestInv, DownType, Returned
<1>3. ResultType'
  BY <1>1
  DEF RestInv, ResultType
<1>4. Quiet'
  BY <1>1
  DEF RestInv, Quiet, DownType, ResultType
<1>5. Late'
  BY <1>1
  DEF RestInv, Late, DownType, ResultType, Quiet, Returned
<1>6. Successful'
  BY <1>1
  DEF RestInv, Successful, DownType, ResultType, Quiet, Late, Returned
<1>7. QED
  BY <1>1, <1>2, <1>3, <1>4, <1>5, <1>6, Frame DEF RestInv

LEMMA EndShutdownInv ==
    ASSUME RestInv, Running, EndShutdown
    PROVE  RestInv'
<1>1. CASE success
  <2>1. /\ handler = "drain" /\ received = Schemes
        /\ handler' = "done"
        /\ hooks' = hooks \cup {"ServerShutdown"}
        /\ UNCHANGED <<main, exit, todo, listener, serving, calls, svc, grpc,
                       sent, interrupt, interrupted, shuttingDown, closing,
                       shutdown, down, received, success, expired>>
    BY <1>1 DEF EndShutdown, mainVars, serverVars, signalVars, shutdownVars
  <2>2. DownType'
    BY <1>1, <2>1
    DEF RestInv, DownType, Returned
  <2>3. Quiet'
    BY <1>1, <2>1
    DEF RestInv, Quiet, DownType, ResultType
  <2>4. Begun'
    BY <1>1, <2>1
    DEF RestInv, Begun, FlagType, DownType, Quiet
  <2>5. Successful'
    BY <1>1, <2>1
    DEF RestInv, Successful, DownType, ResultType, Quiet, Late, Returned
  <2>6. Returning'
    BY <1>1, <2>1
    DEF RestInv, Returning, MainType, ListenerType, DownType, Other
  <2>7. QED
    BY <2>1, <2>2, <2>3, <2>4, <2>5, <2>6, Frame DEF RestInv
<1>2. CASE ~success
  <2>1. /\ handler = "drain"
        /\ handler' = "done"
        /\ UNCHANGED <<main, exit, todo, listener, serving, calls, svc, grpc,
                       sent, interrupt, interrupted, shuttingDown, closing,
                       shutdown, down, received, success, expired, hooks>>
    BY <1>2 DEF EndShutdown, mainVars, serverVars, signalVars, shutdownVars
  <2>2. DownType'
    BY <1>2, <2>1
    DEF RestInv, DownType, Returned
  <2>3. Quiet'
    BY <1>2, <2>1
    DEF RestInv, Quiet, DownType, ResultType
  <2>4. Begun'
    BY <1>2, <2>1
    DEF RestInv, Begun, FlagType, DownType, Quiet
  <2>5. Successful'
    BY <1>2, <2>1
    DEF RestInv, Successful, DownType, ResultType, Quiet, Late, Returned
  <2>6. Returning'
    BY <1>2, <2>1
    DEF RestInv, Returning, MainType, ListenerType, DownType, Other
  <2>7. QED
    BY <2>1, <2>2, <2>3, <2>4, <2>5, <2>6, Frame DEF RestInv
<1>3. QED
  BY <1>1, <1>2 DEF EndShutdown

LEMMA GrpcListenInv ==
    ASSUME RestInv, Running, GrpcListen
    PROVE  RestInv'
<1>1. CASE grpc' = "dial" /\ exit' = exit
  <2>1. /\ grpc' = "dial"
        /\ UNCHANGED <<main, exit, todo, listener, serving, calls, svc, sent,
                       interrupt, interrupted, shuttingDown, closing,
                       shutdown, handler, down, received, success, expired,
                       hooks>>
    BY <1>1 DEF GrpcListen, Exit, mainVars, mainVars, serverVars, signalVars, shutdownVars
  <2>2. MainType'
    BY <1>1, <2>1
    DEF RestInv, MainType
  <2>3. QED
    BY <2>1, <2>2, Frame DEF RestInv
<1>2. CASE Exit("grpc")
  BY <1>2, ExitInv DEF Other
<1>3. QED
  BY <1>1, <1>2 DEF GrpcListen, Exit, mainVars

LEMMA GatewayInv ==
    ASSUME RestInv, Running, Gateway
    PROVE  RestInv'
<1>1. /\ grpc' = "gateway"
      /\ UNCHANGED <<main, exit, todo, listener, serving, calls, svc, sent,
                     interrupt, interrupted, shuttingDown, closing, shutdown,
                     handler, down, received, success, expired, hooks>>
  BY DEF Gateway, mainVars, serverVars, signalVars, shutdownVars
<1>2. MainType'
  BY <1>1
  DEF RestInv, MainType
<1>3. QED
  BY <1>1, <1>2, Frame DEF RestInv

LEMMA GrpcCallInv ==
    ASSUME RestInv, Running, GrpcCall
    PROVE  RestInv'
<1>1. CASE svc = 0
  <2>1. Exit("nil service")
    BY <1>1 DEF GrpcCall
  <2>2. QED
    BY <2>1, ExitInv DEF Other
<1>2. CASE svc # 0
  <2>1. /\ calls' = [calls EXCEPT !["grpc"] = @ + 1]
        /\ UNCHANGED <<main, exit, todo, listener, serving, svc, grpc, sent,
                       interrupt, interrupted, shuttingDown, closing,
                       shutdown, handler, down, received, success, expired,
                       hooks>>
    BY <1>2 DEF GrpcCall, mainVars, serverVars, signalVars, shutdownVars
  <2>2. "grpc" \notin Schemes
    BY RestAssumption DEF Schemes
  <2>3. CallType' /\ \A s \in Schemes : calls'[s] = calls[s]
    BY <2>1, <2>2 DEF RestInv, CallType
  <2>4. Spawned'
    BY <2>1, <2>3 DEF RestInv, Spawned
  <2>5. Idle'
    BY <2>1, <2>3 DEF RestInv, Idle
  <2>6. QED
    BY <2>1, <2>3, <2>4, <2>5, Frame DEF RestInv
<1>3. QED
  BY <1>1, <1>2

LEMMA SpawnInv ==
    ASSUME RestInv, Running, main = "serve", todo # <<>>,
           NEW s \in Schemes, Spawn(s)
    PROVE  RestInv'
<1>1. CASE Exit("certificate")
  BY <1>1, ExitInv DEF Other
<1>2. CASE Panic("config") \/ Panic("open")
  BY <1>2, PanicInv
<1>3. CASE /\ svc' = svc + 1
           /\ serving' = [serving EXCEPT ![s] = "spawned"]
           /\ todo' = Tail(todo)
           /\ UNCHANGED <<main, exit, listener, calls, grpc, signalVars,
                          shutdownVars>>
  <2>1. UNCHANGED <<main, exit, listener, calls, grpc, sent, interrupt,
                    interrupted, shuttingDown, closing, shutdown, handler,
                    down, received, success, expired, hooks>>
    BY <1>3 DEF signalVars, shutdownVars
  <2>2. TodoType'
    BY <1>3 DEF RestInv, TodoType
  <2>3. ListenerType'
    BY <1>3 DEF RestInv, ListenerType
  <2>4. CallType'
    BY <1>3 DEF RestInv, CallType
  <2>5. Spawned'
    BY <1>3 DEF RestInv, Spawned, ListenerType, CallType
  <2>6. Idle'
    BY <1>3, <2>1 DEF RestInv, Idle, ListenerType
  <2>7. Returning'
    BY <1>3, <2>1 DEF RestInv, Returning
  <2>8. QED
    BY <2>1, <2>2, <2>3, <2>4, <2>5, <2>6, <2>7, Frame DEF RestInv
<1>4. QED
  BY <1>1, <1>2, <1>3 DEF Spawn

LEMMA MainInv ==
    ASSUME RestInv, Running, MainStep
    PROVE  RestInv'
<1>1. CASE BadFlags
  BY <1>1, ExitInv DEF BadFlags, Other
<1>2. CASE ServeScheme
  <2>1. Head(todo) \in Schemes
    BY <1>2 DEF RestInv, TodoType, ServeScheme
  <2>2. QED
    BY <1>2, <2>1, SpawnInv DEF ServeScheme
<1>3. CASE End
  <2>1. CASE main \in {"config", "open"} /\ Exit(main)
    BY <2>1, ExitInv DEF Other
  <2>2. CASE main = "return" /\ Exit("returned")
    <3>1. /\ exit' = "returned" /\ main = "return"
          /\ UNCHANGED <<main, todo, listener, serving, calls, svc, grpc, sent,
                         interrupt, interrupted, shuttingDown, closing,
                         shutdown, handler, down, received, success, expired,
                         hooks>>
      BY <2>2 DEF Exit, serverVars, signalVars, shutdownVars
    <3>2. MainType'
      BY <3>1 DEF RestInv, MainType, Ends
    <3>3. Returning'
      BY <3>1 DEF RestInv, Returning
    <3>4. QED
      BY <3>1, <3>2, <3>3, Frame DEF RestInv
  <2>3. QED
    BY <1>3, <2>1, <2>2 DEF End
<1>4. QED
  BY <1>1, <1>2, <1>3, ConfigureAPIInv, ListenInv, NotifyInv,
     StartShutdownHandlerInv, ReturnInv, CloseChannelInv DEF MainStep

LEMMA NextInv ==
    ASSUME RestInv, [RestNext]_restVars
    PROVE  RestInv'
<1>1. CASE RestNext
  <2> USE <1>1
  <2>0. Running
    BY DEF RestNext
  <2>1. CASE MainStep
    BY <2>0, <2>1, MainInv
  <2>2. ASSUME NEW s \in Schemes, ServerStep(s)
        PROVE  RestInv'
    BY <2>0, <2>2, StartServingInv, StopServingInv, CloseListenerInv,
       DrainedInv DEF ServerStep
  <2>3. ASSUME NEW s \in Schemes, Request(s)
        PROVE  RestInv'
    <3>1. CASE AcceptFails(s)
      BY <3>1, ExitInv DEF AcceptFails, Other
    <3>2. QED
      BY <2>0, <2>3, <3>1, AcceptInv, CallEndsInv DEF Request
  <2>4. CASE CallEnds("grpc")
    BY <2>0, <2>4, CallEndsInv
  <2>5. CASE Interrupt \/ InterruptStep
    BY <2>0, <2>5, InterruptInv, HandleInterruptInv, CloseChannelInv
    DEF InterruptStep
  <2>6. CASE ShutdownStep
    BY <2>0, <2>6, BeginShutdownInv, ExpireInv, CollectInv, EndShutdownInv
    DEF ShutdownStep
  <2>7. CASE GrpcListen \/ GrpcCall \/ Gateway
    BY <2>0, <2>7, GrpcListenInv, GrpcCallInv, GatewayInv
  <2>8. CASE GrpcFails
    BY <2>8, ExitInv DEF GrpcFails, Other
  <2>9. QED
    BY <2>1, <2>2, <2>3, <2>4, <2>5, <2>6, <2>7, <2>8 DEF RestNext, RestStep
<1>2. CASE UNCHANGED restVars
  BY <1>2, StutterInv
<1>3. QED
  BY <1>1, <1>2

LEMMA Invariant == RestSpec => []RestInv
<1>1. RestInit => RestInv
  BY InitInv
<1>2. RestInv /\ [RestNext]_restVars => RestInv'
  BY NextInv
<1>3. QED
  BY <1>1, <1>2, PTL DEF RestSpec

-----------------------------------------------------------------------------
(* The properties *)

\* The variables of the server process keep their types; the channel for
\* interrupts never holds more than the one it has room for.
THEOREM RestTypes == RestSpec => []RestTypeOK
<1>1. RestInv => RestTypeOK
  BY Types DEF RestInv
<1>2. QED
  BY <1>1, Invariant, PTL

\* No request over HTTP is handled before a scheme was configured, whatever
\* listeners there are: configureServer runs before the first server is spawned.
THEOREM RequestsFindAService == RestSpec => []ServedOnlyConfigured
<1>1. RestInv => ServedOnlyConfigured
  BY DEF RestInv, Spawned, ServedOnlyConfigured
<1>2. QED
  BY <1>1, Invariant, PTL

\* handleShutdown runs the second hook only when no server has a request left
\* nor takes another one, in whatever order the servers are done.
THEOREM HookRunsAfterDrain == RestSpec => []ShutdownHookAfterDrain
<1>1. RestInv => ShutdownHookAfterDrain
  <2> SUFFICES ASSUME RestInv, "ServerShutdown" \in hooks
               PROVE  \A s \in Schemes : calls[s] = 0 /\ serving[s] # "serving"
    BY DEF ShutdownHookAfterDrain
  <2>1. \A s \in Schemes : down[s] = "ok"
    BY DEF RestInv, Successful
  <2>2. QED
    BY <2>1 DEF RestInv, Idle
<1>2. QED
  BY <1>1, Invariant, PTL

\* The process returns only after an interrupt and the first hook, with all
\* listeners closed, and cuts requests over HTTP off only after the grace
\* period or if a listener could not be closed.
THEOREM ReturnIsOrderly == RestSpec => []ReturnsInOrder
<1>1. RestInv => ReturnsInOrder
  <2> SUFFICES ASSUME RestInv, exit = "returned" PROVE ReturnsInOrder
    BY DEF ReturnsInOrder
  <2>1. handler = "done" /\ \A s \in Schemes : serving[s] = "stopped"
    BY DEF RestInv, Returning
  <2>2. shutdown /\ "PreServerShutdown" \in hooks
    BY <2>1 DEF RestInv, Begun
  <2>3. interrupted
    BY <2>2 DEF RestInv, Closing, Signalled, Returning
  <2>4. \A s \in Schemes : listener[s] = "closed"
    BY <2>1 DEF RestInv, Spawned
  <2>5. CASE success
    <3>1. "ServerShutdown" \in hooks /\ \A s \in Schemes : down[s] = "ok"
      BY <2>1, <2>5 DEF RestInv, Successful
    <3>2. \A s \in Schemes : calls[s] = 0
      BY <3>1 DEF RestInv, Idle
    <3>3. QED
      BY <2>2, <2>3, <2>4, <3>1, <3>2 DEF ReturnsInOrder
  <2>6. CASE ~success
    <3>1. PICK s \in received : down[s] \in {"notclosed", "late"}
      BY <2>6 DEF RestInv, Successful
    <3>2. s \in Schemes
      BY DEF RestInv, DownType
    <3>3. expired \/ down[s] = "notclosed"
      BY <3>1, <3>2 DEF RestInv, Late
    <3>4. QED
      BY <2>2, <2>3, <2>4, <3>2, <3>3 DEF ReturnsInOrder
  <2>7. QED
    BY <2>5, <2>6
<1>2. QED
  BY <1>1, Invariant, PTL

\* The channel that starts the shutdown is not closed twice, however many
\* interrupts come, when main returns and when it panics while one is handled:
\* the compare-and-swap lets one goroutine reach the close, and it finds the
\* channel open.
THEOREM ChannelClosedOnce == RestSpec => []ClosedOnce
<1>1. RestInv => ClosedOnce
  BY DEF RestInv, Returning, Other, ClosedOnce
<1>2. QED
  BY <1>1, Invariant, PTL
=============================================================================
