----------------------------- MODULE HttpServer ----------------------------
(***************************************************************************)
(* The life of the process: Run, the generated Server with its goroutines, *)
(* signals, and the requests in flight while it stops.  The main goroutine *)
(* opens the listeners and starts one goroutine per listener, one that     *)
(* takes signals and one that waits for the shutdown channel; the last     *)
(* starts one more per listener to stop it.  What happens inside a request *)
(* is the subject of SignatureService.                                     *)
(***************************************************************************)
EXTENDS Integers, FiniteSets

CONSTANTS
  EnabledListeners,        \* the field of Server; empty as Run leaves it
  GracefulTimeout,         \* the field of Server, in ticks; 0 as Run leaves it
  GracefulTimeoutDefault,  \* the default its flag documents, in ticks
  Clients                  \* every client sends each listener one request

schemeHTTP  == "http"
schemeHTTPS == "https"
schemeUnix  == "unix"
defaultSchemes == {schemeHTTP}

hasScheme(scheme) ==
  scheme \in IF EnabledListeners = {} THEN defaultSchemes ELSE EnabledListeners

Servers  == {s \in {schemeUnix, schemeHTTP, schemeHTTPS} : hasScheme(s)}
Requests == Servers \X Clients

\* The listeners that Listen opens and Serve starts before listener s.
Earlier(s) ==
  Servers \cap (CASE s = schemeUnix  -> {}
                  [] s = schemeHTTP  -> {schemeUnix}
                  [] s = schemeHTTPS -> {schemeUnix, schemeHTTP})

ASSUME ListenersAssumption ==
  EnabledListeners \subseteq {schemeHTTP, schemeHTTPS, schemeUnix}
ASSUME TimeoutAssumption ==
  /\ GracefulTimeoutDefault \in Nat
  /\ GracefulTimeout \in 0..GracefulTimeoutDefault

VARIABLES
  main,          \* where the main goroutine stands in Run
  wg,            \* the WaitGroup of Serve
  listener,      \* each listening socket
  serve,         \* the goroutine that serves a listener
  notified,      \* signal.Notify was called
  interrupt,     \* signals in the channel of capacity one
  handler,       \* the goroutine of handleInterrupt
  interrupted,
  shuttingDown,
  closes,        \* how often the channel shutdown was closed
  shut,          \* the goroutine of handleShutdown
  hooks,         \* the hooks that ran
  stopper,       \* the goroutine that shuts a listener's server down
  stopped,       \* whether that server's Shutdown returned nil
  elapsed,       \* ticks since handleShutdown made its context
  conn,          \* the connection of each request
  exit           \* how the process ended

signalVars  == <<notified, interrupt, handler, interrupted>>
channelVars == <<shuttingDown, closes>>
stopVars    == <<shut, hooks, stopper, stopped, elapsed>>
netVars     == <<listener, serve, conn>>
vars == <<main, wg, signalVars, channelVars, stopVars, netVars, exit>>

TypeOK ==
  /\ main \in {"listen", "start", "wait", "nil", "error",
               "returnedNil", "returnedError"}
  /\ wg \in 0..Cardinality(Servers) + 1
  /\ listener \in [Servers -> {"none", "open", "closed"}]
  /\ serve \in [Servers -> {"none", "started", "serving", "returned"}]
  /\ notified \in BOOLEAN
  /\ interrupt \in 0..1
  /\ handler \in {"none", "receiving", "received", "stopping"}
  /\ interrupted \in BOOLEAN
  /\ shuttingDown \in 0..1
  /\ closes \in Nat
  /\ shut \in {"none", "waiting", "hook", "collecting", "done"}
  /\ hooks \subseteq {"PreServerShutdown", "ServerShutdown"}
  /\ stopper \in [Servers -> {"none", "closing", "draining", "sending", "done"}]
  /\ stopped \in [Servers -> BOOLEAN]
  /\ elapsed \in 0..GracefulTimeoutDefault
  /\ conn \in [Requests -> {"none", "queued", "active", "answered", "refused"}]
  /\ exit \in {"running", "ok", "error", "killed"}

Init ==
  /\ main = "listen" /\ wg = 0
  /\ listener = [s \in Servers |-> "none"]
  /\ serve = [s \in Servers |-> "none"]
  /\ notified = FALSE /\ interrupt = 0
  /\ handler = "none" /\ interrupted = FALSE
  /\ shuttingDown = 0 /\ closes = 0
  /\ shut = "none" /\ hooks = {} /\ elapsed = 0
  /\ stopper = [s \in Servers |-> "none"]
  /\ stopped = [s \in Servers |-> FALSE]
  /\ conn = [r \in Requests |-> "none"]
  /\ exit = "running"

----------------------------------------------------------------------------
(***************************************************************************)
(* Shutdown: the compare-and-swap lets one caller close the channel.       *)
(***************************************************************************)
\* Mutant: the channel is closed without the compare-and-swap.
ShutdownWithoutSwap == shuttingDown' = 1 /\ closes' = closes + 1

Shutdown ==
  IF shuttingDown = 0
  THEN shuttingDown' = 1 /\ closes' = closes + 1
  ELSE UNCHANGED channelVars

(***************************************************************************)
(* The main goroutine.                                                     *)
(***************************************************************************)
\* It is the turn of listener s to leave "none".
Turn(s, state) == state[s] = "none" /\ \A t \in Earlier(s) : state[t] # "none"

\* Listen opens the listeners one after the other; from then on the kernel
\* queues connections.
Listen(s) ==
  /\ main = "listen" /\ Turn(s, listener)
  /\ listener' = [listener EXCEPT ![s] = "open"]
  /\ UNCHANGED <<main, wg, signalVars, channelVars, stopVars, serve, conn, exit>>

\* The address is taken: Serve returns the error.
ListenFails(s) ==
  /\ main = "listen" /\ Turn(s, listener)
  /\ main' = "error"
  /\ UNCHANGED <<wg, signalVars, channelVars, stopVars, netVars, exit>>

\* With every listener open, Serve asks for signals and starts the goroutine
\* that takes them.
NotifySignals ==
  /\ main = "listen" /\ \A s \in Servers : listener[s] # "none"
  /\ main' = "start"
  /\ notified' = TRUE
  /\ handler' = "receiving"
  /\ UNCHANGED <<wg, interrupt, interrupted, channelVars, stopVars,
                 netVars, exit>>

\* wg.Add(1) and the goroutine of the next listener.
StartServing(s) ==
  /\ main = "start" /\ Turn(s, serve)
  /\ serve' = [serve EXCEPT ![s] = "started"]
  /\ wg' = wg + 1
  /\ UNCHANGED <<main, signalVars, channelVars, stopVars, listener, conn, exit>>

\* A certificate that cannot be loaded makes Serve return an error, with the
\* goroutines of the other listeners already running.
LoadCertificateFails(s) ==
  /\ main = "start" /\ Turn(s, serve)
  /\ s = schemeHTTPS
  /\ main' = "error"
  /\ UNCHANGED <<wg, signalVars, channelVars, stopVars, netVars, exit>>

\* No certificate at all ends the process on the spot (Fatalf).
NoCertificate(s) ==
  /\ main = "start" /\ Turn(s, serve)
  /\ s = schemeHTTPS
  /\ exit' = "error"
  /\ UNCHANGED <<main, wg, signalVars, channelVars, stopVars, netVars>>

\* Mutant: the goroutine of handleShutdown is not counted.
StartHandleShutdownUncounted ==
  /\ main = "start" /\ \A s \in Servers : serve[s] # "none"
  /\ main' = "wait"
  /\ shut' = "waiting"
  /\ UNCHANGED <<wg, signalVars, channelVars, hooks, stopper, stopped,
                 elapsed, netVars, exit>>

\* With every listener started, the goroutine that waits for the shutdown.
StartHandleShutdown ==
  /\ main = "start" /\ \A s \in Servers : serve[s] # "none"
  /\ main' = "wait"
  /\ shut' = "waiting"
  /\ wg' = wg + 1
  /\ UNCHANGED <<signalVars, channelVars, hooks, stopper, stopped,
                 elapsed, netVars, exit>>

\* Mutant: Serve does not wait for its goroutines.
ServeReturnsAtOnce ==
  /\ main = "wait"
  /\ main' = "nil"
  /\ UNCHANGED <<wg, signalVars, channelVars, stopVars, netVars, exit>>

\* wg.Wait returns, and Serve returns nil.
ServeReturnsNil ==
  /\ main = "wait" /\ wg = 0
  /\ main' = "nil"
  /\ UNCHANGED <<wg, signalVars, channelVars, stopVars, netVars, exit>>

\* Run's deferred function calls Shutdown whatever Serve returned.
RunReturns ==
  /\ main \in {"nil", "error"}
  /\ main' = IF main = "nil" THEN "returnedNil" ELSE "returnedError"
  /\ Shutdown
  /\ UNCHANGED <<wg, signalVars, stopVars, netVars, exit>>

\* The process ends, and with it every goroutine and connection.
MainReturns ==
  /\ main \in {"returnedNil", "returnedError"}
  /\ exit' = IF main = "returnedNil" THEN "ok" ELSE "error"
  /\ UNCHANGED <<main, wg, signalVars, channelVars, stopVars, netVars>>

----------------------------------------------------------------------------
(***************************************************************************)
(* Signals and the goroutine of handleInterrupt.                           *)
(***************************************************************************)
\* Before signal.Notify a signal kills the process.  Afterwards it goes to the
\* channel; one that finds the channel full is dropped, which changes nothing.
Signal ==
  /\ IF notified
     THEN interrupt = 0 /\ interrupt' = 1 /\ UNCHANGED exit
     ELSE exit' = "killed" /\ UNCHANGED interrupt
  /\ UNCHANGED <<main, wg, notified, handler, interrupted, channelVars,
                 stopVars, netVars>>

ReceiveSignal ==
  /\ handler = "receiving" /\ interrupt = 1
  /\ interrupt' = 0
  /\ handler' = "received"
  /\ UNCHANGED <<main, wg, notified, interrupted, channelVars, stopVars,
                 netVars, exit>>

\* Only the first signal goes on to Shutdown.
CheckInterrupted ==
  /\ handler = "received"
  /\ handler' = IF interrupted THEN "receiving" ELSE "stopping"
  /\ interrupted' = TRUE
  /\ UNCHANGED <<main, wg, notified, interrupt, channelVars, stopVars,
                 netVars, exit>>

InterruptShutdown ==
  /\ handler = "stopping"
  /\ handler' = "receiving"
  /\ Shutdown
  /\ UNCHANGED <<main, wg, notified, interrupt, interrupted, stopVars,
                 netVars, exit>>

----------------------------------------------------------------------------
(***************************************************************************)
(* The goroutine of handleShutdown.                                        *)
(***************************************************************************)
\* The channel is closed: the context with the graceful timeout starts.
ShutdownBegins ==
  /\ shut = "waiting" /\ closes > 0
  /\ shut' = "hook"
  /\ UNCHANGED <<main, wg, signalVars, channelVars, hooks, stopper,
                 stopped, elapsed, netVars, exit>>

\* The first hook, then one goroutine per listener.
PreServerShutdown ==
  /\ shut = "hook"
  /\ shut' = "collecting"
  /\ hooks' = hooks \cup {"PreServerShutdown"}
  /\ stopper' = [s \in Servers |-> "closing"]
  /\ UNCHANGED <<main, wg, signalVars, channelVars, stopped, elapsed,
                 netVars, exit>>

\* Mutant: the results are received but not looked at.
ResultsIgnored == TRUE

\* The results received so far are all true.
AllSucceeded == \A s \in Servers : stopper[s] = "done" => stopped[s]

\* shutdownChan has no buffer: sender and receiver meet.  After a failure the
\* loop no longer receives, and the other senders are left blocked.
ReceiveResult(s) ==
  /\ shut = "collecting" /\ AllSucceeded
  /\ stopper[s] = "sending"
  /\ stopper' = [stopper EXCEPT ![s] = "done"]
  /\ UNCHANGED <<main, wg, signalVars, channelVars, shut, hooks, stopped,
                 elapsed, netVars, exit>>

\* Mutant: the results of the per-listener goroutines are not awaited.
ServerShutdownAtOnce ==
  /\ shut = "collecting"
  /\ hooks' = hooks \cup (IF AllSucceeded THEN {"ServerShutdown"} ELSE {})
  /\ shut' = "done"
  /\ wg' = wg - 1
  /\ UNCHANGED <<main, signalVars, channelVars, stopper, stopped, elapsed,
                 netVars, exit>>

\* The second hook if all went well, then the deferred wg.Done.
ServerShutdown ==
  /\ shut = "collecting"
  /\ ~AllSucceeded \/ \A s \in Servers : stopper[s] = "done"
  /\ hooks' = hooks \cup (IF AllSucceeded THEN {"ServerShutdown"} ELSE {})
  /\ shut' = "done"
  /\ wg' = wg - 1
  /\ UNCHANGED <<main, signalVars, channelVars, stopper, stopped, elapsed,
                 netVars, exit>>

\* Time passes.  It is only counted once the context exists, and up to the
\* documented default: nothing depends on a later time.
Tick ==
  /\ shut \in {"hook", "collecting", "done"}
  /\ elapsed < GracefulTimeoutDefault
  /\ elapsed' = elapsed + 1
  /\ UNCHANGED <<main, wg, signalVars, channelVars, shut, hooks, stopper,
                 stopped, netVars, exit>>

Expired == elapsed >= GracefulTimeout

----------------------------------------------------------------------------
(***************************************************************************)
(* net/http: Serve and Shutdown of one listener's http.Server, as the      *)
(* goroutines started above call them.                                     *)
(***************************************************************************)
InShutdown(s) == stopper[s] \in {"draining", "sending", "done"}
InFlight(s)   == \E c \in Clients : conn[<<s, c>>] = "active"

\* Closing a listening socket resets the connections nobody accepted.
Close(s) ==
  /\ listener' = [listener EXCEPT ![s] = "closed"]
  /\ conn' = [r \in Requests |->
                IF r[1] = s /\ conn[r] = "queued" THEN "refused" ELSE conn[r]]

\* http.Server.Serve: it returns at once when Shutdown came first.
ServeBegins(s) ==
  /\ serve[s] = "started" /\ ~InShutdown(s)
  /\ serve' = [serve EXCEPT ![s] = "serving"]
  /\ UNCHANGED <<main, wg, signalVars, channelVars, stopVars, listener,
                 conn, exit>>

\* Serve returns ErrServerClosed, and the goroutine calls wg.Done.
ServeReturns(s) ==
  /\ \/ serve[s] = "started" /\ InShutdown(s)
     \/ serve[s] = "serving" /\ listener[s] = "closed"
  /\ serve' = [serve EXCEPT ![s] = "returned"]
  /\ Close(s)
  /\ wg' = wg - 1
  /\ UNCHANGED <<main, signalVars, channelVars, stopVars, exit>>

\* Accept fails for any other reason: Fatalf ends the process.
ServeFails(s) ==
  /\ serve[s] = "serving" /\ listener[s] = "open"
  /\ exit' = "error"
  /\ UNCHANGED <<main, wg, signalVars, channelVars, stopVars, netVars>>

\* http.Server.Shutdown closes the listener that Serve registered, if it did,
\* and keeps the error of closing it for its result.
CloseListener(s) ==
  /\ stopper[s] = "closing"
  /\ stopper' = [stopper EXCEPT ![s] = "draining"]
  /\ IF serve[s] = "serving"
     THEN Close(s) /\ \E ok \in BOOLEAN : stopped' = [stopped EXCEPT ![s] = ok]
     ELSE /\ stopped' = [stopped EXCEPT ![s] = TRUE]
          /\ UNCHANGED <<listener, conn>>
  /\ UNCHANGED <<main, wg, signalVars, channelVars, shut, hooks, elapsed,
                 serve, exit>>

\* Mutant: Shutdown is given a context without a deadline.
DrainWithoutDeadline(s) ==
  /\ stopper[s] = "draining" /\ serve[s] # "serving"
  /\ ~InFlight(s)
  /\ stopper' = [stopper EXCEPT ![s] = "sending"]
  /\ UNCHANGED <<main, wg, signalVars, channelVars, shut, hooks, stopped,
                 elapsed, netVars, exit>>

\* Once Serve has returned and no request is in flight, Shutdown is done; with
\* requests in flight it waits until the context expires.
Drain(s) ==
  /\ stopper[s] = "draining" /\ serve[s] # "serving"
  /\ InFlight(s) => Expired
  /\ stopper' = [stopper EXCEPT ![s] = "sending"]
  /\ stopped' = [stopped EXCEPT ![s] = @ /\ ~InFlight(s)]
  /\ UNCHANGED <<main, wg, signalVars, channelVars, shut, hooks, elapsed,
                 netVars, exit>>

----------------------------------------------------------------------------
(***************************************************************************)
(* Connections.  KeepAlive, a flag too, is left 0, so the server closes a  *)
(* connection after its response: one connection is one request.           *)
(***************************************************************************)
\* A request r of listener r[1] connects.
Connect(r) ==
  /\ conn[r] = "none" /\ listener[r[1]] = "open"
  /\ conn' = [conn EXCEPT ![r] = "queued"]
  /\ UNCHANGED <<main, wg, signalVars, channelVars, stopVars, listener,
                 serve, exit>>

AcceptConn(r) ==
  /\ conn[r] = "queued" /\ listener[r[1]] = "open" /\ serve[r[1]] = "serving"
  /\ conn' = [conn EXCEPT ![r] = "active"]
  /\ UNCHANGED <<main, wg, signalVars, channelVars, stopVars, listener,
                 serve, exit>>

\* The handler returned and its response is written.
Answer(r) ==
  /\ conn[r] = "active"
  /\ conn' = [conn EXCEPT ![r] = "answered"]
  /\ UNCHANGED <<main, wg, signalVars, channelVars, stopVars, listener,
                 serve, exit>>

----------------------------------------------------------------------------
MainStep ==
  \/ NotifySignals \/ StartHandleShutdown
  \/ ServeReturnsNil \/ RunReturns \/ MainReturns
  \/ \E s \in Servers : Listen(s) \/ StartServing(s)
HandlerStep == ReceiveSignal \/ CheckInterrupted \/ InterruptShutdown
ShutStep ==
  \/ ShutdownBegins \/ PreServerShutdown \/ ServerShutdown
  \/ \E s \in Servers : ReceiveResult(s)
Failure ==
  \E s \in Servers :
    ListenFails(s) \/ LoadCertificateFails(s) \/ NoCertificate(s) \/ ServeFails(s)

Running ==
  \/ MainStep \/ HandlerStep \/ ShutStep \/ Failure \/ Signal \/ Tick
  \/ \E s \in Servers :
       ServeBegins(s) \/ ServeReturns(s) \/ CloseListener(s) \/ Drain(s)
  \/ \E r \in Requests : Connect(r) \/ AcceptConn(r) \/ Answer(r)

Next ==
  \/ exit = "running" /\ Running
  \/ exit # "running" /\ UNCHANGED vars

Spec == Init /\ [][Next]_vars

\* A goroutine that can run does, and time passes.  Nothing is assumed of
\* clients or handlers: a request in flight need never end.
FairSpec ==
  /\ Spec
  /\ WF_vars(exit = "running" /\ MainStep)
  /\ WF_vars(exit = "running" /\ HandlerStep)
  /\ WF_vars(exit = "running" /\ ShutStep)
  /\ WF_vars(exit = "running" /\ Tick)
  /\ \A s \in Servers :
       /\ WF_vars(exit = "running" /\ (ServeBegins(s) \/ ServeReturns(s)))
       /\ WF_vars(exit = "running" /\ (CloseListener(s) \/ Drain(s)))

----------------------------------------------------------------------------
\* The shutdown channel is closed at most once, although the signal handler and
\* Run's deferred function may both call Shutdown (a second close panics).
ClosedOnce == closes <= 1

\* The process reports success only after a signal, with every listener's
\* goroutine finished: wg covers the goroutines that must end first.
StopsOnlyWhenAsked ==
  exit = "ok" => interrupted /\ \A s \in Servers : serve[s] = "returned"

\* ServerShutdown, "called when the HTTP(S) server is shut down and done", runs
\* after the last response: from then on nothing is in flight.
HookAfterDrain ==
  "ServerShutdown" \in hooks => \A s \in Servers : ~InFlight(s)

\* A stop on request cuts a request off only after the documented grace period,
\* however many signals came and at whatever moment of the start they came.
GracePeriodHonoured ==
  exit = "ok" /\ (\E s \in Servers : InFlight(s))
    => elapsed >= GracefulTimeoutDefault

\* Whatever timeout the server is given, a stop on request cuts a request of one
\* listener off only when that time is over, or when another listener has failed to
\* stop: handleShutdown then waits for no further result.
TimeoutHonoured ==
  exit = "ok" =>
    \A t \in Servers : InFlight(t) =>
      \/ elapsed >= GracefulTimeout
      \/ \E s \in Servers \ {t} : stopper[s] = "done" /\ ~stopped[s]

\* A signal in the channel ends the process, even if a request never ends and
\* a goroutine is left blocked on its result.
SignalStopsProcess == interrupt = 1 ~> exit # "running"

=============================================================================
