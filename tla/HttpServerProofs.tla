-------------------------- MODULE HttpServerProofs -------------------------
(***************************************************************************)
(* Theorems about HttpServer, for every set of listeners and clients and   *)
(* every graceful timeout.                                                 *)
(***************************************************************************)
EXTENDS HttpServer, FiniteSetTheorems, TLAPS

----------------------------------------------------------------------------
(***************************************************************************)
(* What wg counts: the goroutines of the listeners that have not returned, *)
(* and that of handleShutdown.                                             *)
(***************************************************************************)
Counted == {s \in Servers : serve[s] \in {"started", "serving"}}
ShutCounted == shut \in {"waiting", "hook", "collecting"}
WgCounts == wg = Cardinality(Counted) + (IF ShutCounted THEN 1 ELSE 0)

\* How far the main goroutine is bounds how far the others are.
Phases ==
  /\ main = "listen" => \A s \in Servers : serve[s] = "none"
  /\ main \in {"listen", "start"} => shut = "none"
  /\ main \in {"wait", "nil", "returnedNil"} =>
       shut # "none" /\ \A s \in Servers : serve[s] # "none"
  /\ main \in {"nil", "returnedNil"} => wg = 0 /\ interrupted
  /\ exit = "ok" => main = "returnedNil"

\* The channel is closed on behalf of a signal, or when Run returns.
ClosedForReason ==
  /\ shuttingDown = closes
  /\ handler = "stopping" => interrupted
  /\ closes > 0 => interrupted \/ main \in {"returnedNil", "returnedError"}
  /\ shut \in {"hook", "collecting", "done"} => closes > 0

\* The types of all variables but wg.
TypesOK ==
  /\ main \in {"listen", "start", "wait", "nil", "error",
               "returnedNil", "returnedError"}
  /\ listener \in [Servers -> {"none", "open", "closed"}]
  /\ serve \in [Servers -> {"none", "started", "serving", "returned"}]
  /\ notified \in BOOLEAN
  /\ interrupt \in 0..1
  /\ handler \in {"none", "receiving", "received", "stopping"}
  /\ interrupted \in BOOLEAN
  /\ shuttingDown \in 0..1
  /\ closes \in Nat
  /\ shut \in {"none", "waiting", "hook", "collecting", "done"}
  /\ hooks \subseteq {"PreServerShutdown", "ServerShutdown"}
  /\ stopper \in [Servers -> {"none", "closing", "draining", "sending", "done"}]
  /\ stopped \in [Servers -> BOOLEAN]
  /\ elapsed \in 0..GracefulTimeoutDefault
  /\ conn \in [Requests -> {"none", "queued", "active", "answered", "refused"}]
  /\ exit \in {"running", "ok", "error", "killed"}

ServerInv == TypeOK /\ WgCounts /\ Phases /\ ClosedForReason

\* A listener has at most the three schemes to choose from.
LEMMA ServersFinite == IsFiniteSet(Servers)
<1>1. IsFiniteSet({schemeUnix, schemeHTTP, schemeHTTPS})
  <2>1. IsFiniteSet({schemeUnix})
    BY FS_Singleton
  <2>2. IsFiniteSet({schemeUnix} \cup {schemeHTTP})
    BY <2>1, FS_AddElement
  <2>3. IsFiniteSet({schemeUnix} \cup {schemeHTTP} \cup {schemeHTTPS})
    BY <2>2, FS_AddElement
  <2>4. {schemeUnix, schemeHTTP, schemeHTTPS}
          = {schemeUnix} \cup {schemeHTTP} \cup {schemeHTTPS}
    OBVIOUS
  <2> QED BY <2>3, <2>4
<1>2. Servers \subseteq {schemeUnix, schemeHTTP, schemeHTTPS}
  BY DEF Servers
<1> QED BY <1>1, <1>2, FS_Subset

\* Counting a set of listeners with one added or removed.
LEMMA CountOneMore ==
  ASSUME NEW S \in SUBSET Servers, NEW s \in Servers, s \notin S
  PROVE  Cardinality(S \cup {s}) = Cardinality(S) + 1
BY ServersFinite, FS_Subset, FS_AddElement

LEMMA CountOneLess ==
  ASSUME NEW S \in SUBSET Servers, NEW s \in S
  PROVE  Cardinality(S \ {s}) = Cardinality(S) - 1
BY ServersFinite, FS_Subset, FS_RemoveElement

LEMMA CountBounded ==
  ASSUME NEW S \in SUBSET Servers
  PROVE  /\ Cardinality(S) \in Nat
         /\ Cardinality(S) <= Cardinality(Servers)
         /\ Cardinality(Servers) \in Nat
         /\ Cardinality(S) = 0 <=> S = {}
BY ServersFinite, FS_Subset, FS_CardinalityType, FS_EmptySet

LEMMA InitServerInv == Init => ServerInv
<1> SUFFICES ASSUME Init PROVE ServerInv
  OBVIOUS
<1>1. Counted = {}
  BY DEF Init, Counted
<1>2. wg = 0 /\ Cardinality(Counted) = 0
  BY <1>1, FS_EmptySet DEF Init
<1>3. Cardinality(Servers) \in Nat
  BY CountBounded
<1>4. TypeOK
  <2>1. elapsed \in 0..GracefulTimeoutDefault /\ closes \in Nat /\ shuttingDown \in 0..1
    BY TimeoutAssumption DEF Init
  <2>2. interrupt \in 0..1 /\ wg \in 0..Cardinality(Servers) + 1
    BY <1>3 DEF Init
  <2> QED
    BY <2>1, <2>2 DEF Init, TypeOK
<1>5. WgCounts
  BY <1>2 DEF Init, WgCounts, ShutCounted
<1> QED
  BY <1>4, <1>5 DEF Init, ServerInv, Phases, ClosedForReason

\* Every action keeps the types of the variables other than wg.
LEMMA TypesKept ==
  ASSUME TypeOK, exit = "running", Running
  PROVE  TypesOK'
<1>1. ASSUME NotifySignals PROVE TypesOK'
  BY <1>1
  DEF TypeOK, TypesOK, signalVars, channelVars, stopVars, netVars,
      NotifySignals
<1>2. ASSUME StartHandleShutdown PROVE TypesOK'
  BY <1>2
  DEF TypeOK, TypesOK, signalVars, channelVars, stopVars, netVars,
      StartHandleShutdown
<1>3. ASSUME ServeReturnsNil PROVE TypesOK'
  BY <1>3
  DEF TypeOK, TypesOK, signalVars, channelVars, stopVars, netVars,
      ServeReturnsNil
<1>4. ASSUME RunReturns PROVE TypesOK'
  BY <1>4
  DEF TypeOK, TypesOK, signalVars, channelVars, stopVars, netVars, RunReturns,
      Shutdown
<1>5. ASSUME MainReturns PROVE TypesOK'
  BY <1>5
  DEF TypeOK, TypesOK, signalVars, channelVars, stopVars, netVars, MainReturns
<1>6. ASSUME Signal PROVE TypesOK'
  BY <1>6
  DEF TypeOK, TypesOK, signalVars, channelVars, stopVars, netVars, Signal
<1>7. ASSUME ReceiveSignal PROVE TypesOK'
  BY <1>7
  DEF TypeOK, TypesOK, signalVars, channelVars, stopVars, netVars,
      ReceiveSignal
<1>8. ASSUME CheckInterrupted PROVE TypesOK'
  BY <1>8
  DEF TypeOK, TypesOK, signalVars, channelVars, stopVars, netVars,
      CheckInterrupted
<1>9. ASSUME InterruptShutdown PROVE TypesOK'
  BY <1>9
  DEF TypeOK, TypesOK, signalVars, channelVars, stopVars, netVars,
      InterruptShutdown, Shutdown
<1>10. ASSUME ShutdownBegins PROVE TypesOK'
  BY <1>10
  DEF TypeOK, TypesOK, signalVars, channelVars, stopVars, netVars,
      ShutdownBegins
<1>11. ASSUME PreServerShutdown PROVE TypesOK'
  BY <1>11
  DEF TypeOK, TypesOK, signalVars, channelVars, stopVars, netVars,
      PreServerShutdown
<1>12. ASSUME ServerShutdown PROVE TypesOK'
  BY <1>12
  DEF TypeOK, TypesOK, signalVars, channelVars, stopVars, netVars,
      ServerShutdown, AllSucceeded
<1>13. ASSUME Tick PROVE TypesOK'
  BY <1>13, TimeoutAssumption
  DEF TypeOK, TypesOK, signalVars, channelVars, stopVars, netVars, Tick
<1>14. ASSUME NEW s \in Servers, Listen(s) PROVE TypesOK'
  BY <1>14
  DEF TypeOK, TypesOK, signalVars, channelVars, stopVars, netVars, Listen,
      Turn
<1>15. ASSUME NEW s \in Servers, ListenFails(s) PROVE TypesOK'
  BY <1>15
  DEF TypeOK, TypesOK, signalVars, channelVars, stopVars, netVars,
      ListenFails, Turn
<1>16. ASSUME NEW s \in Servers, StartServing(s) PROVE TypesOK'
  BY <1>16
  DEF TypeOK, TypesOK, signalVars, channelVars, stopVars, netVars,
      StartServing, Turn
<1>17. ASSUME NEW s \in Servers, LoadCertificateFails(s) PROVE TypesOK'
  BY <1>17
  DEF TypeOK, TypesOK, signalVars, channelVars, stopVars, netVars,
      LoadCertificateFails, Turn
<1>18. ASSUME NEW s \in Servers, NoCertificate(s) PROVE TypesOK'
  BY <1>18
  DEF TypeOK, TypesOK, signalVars, channelVars, stopVars, netVars,
      NoCertificate, Turn
<1>19. ASSUME NEW s \in Servers, ServeBegins(s) PROVE TypesOK'
  BY <1>19
  DEF TypeOK, TypesOK, signalVars, channelVars, stopVars, netVars,
      ServeBegins, InShutdown
<1>20. ASSUME NEW s \in Servers, ServeReturns(s) PROVE TypesOK'
  BY <1>20
  DEF TypeOK, TypesOK, signalVars, channelVars, stopVars, netVars,
      ServeReturns, Close
<1>21. ASSUME NEW s \in Servers, ServeFails(s) PROVE TypesOK'
  BY <1>21
  DEF TypeOK, TypesOK, signalVars, channelVars, stopVars, netVars, ServeFails
<1>22. ASSUME NEW s \in Servers, ReceiveResult(s) PROVE TypesOK'
  BY <1>22
  DEF TypeOK, TypesOK, signalVars, channelVars, stopVars, netVars,
      ReceiveResult, AllSucceeded
<1>23. ASSUME NEW s \in Servers, CloseListener(s) PROVE TypesOK'
  <2>1. stopped' \in [Servers -> BOOLEAN]
    BY <1>23 DEF TypeOK, CloseListener
  <2>2. /\ listener' \in [Servers -> {"none", "open", "closed"}]
        /\ conn' \in [Requests ->
                       {"none", "queued", "active", "answered", "refused"}]
    BY <1>23 DEF TypeOK, CloseListener, Close
  <2>3. stopper' \in [Servers -> {"none", "closing", "draining", "sending", "done"}]
    BY <1>23 DEF TypeOK, CloseListener
  <2> QED
    BY <1>23, <2>1, <2>2, <2>3
    DEF TypeOK, TypesOK, signalVars, channelVars, CloseListener
<1>24. ASSUME NEW s \in Servers, Drain(s) PROVE TypesOK'
  BY <1>24
  DEF TypeOK, TypesOK, signalVars, channelVars, stopVars, netVars, Drain,
      InFlight
<1>25. ASSUME NEW r \in Requests, Connect(r) PROVE TypesOK'
  BY <1>25
  DEF TypeOK, TypesOK, signalVars, channelVars, stopVars, netVars, Connect
<1>26. ASSUME NEW r \in Requests, AcceptConn(r) PROVE TypesOK'
  BY <1>26
  DEF TypeOK, TypesOK, signalVars, channelVars, stopVars, netVars, AcceptConn
<1>27. ASSUME NEW r \in Requests, Answer(r) PROVE TypesOK'
  BY <1>27
  DEF TypeOK, TypesOK, signalVars, channelVars, stopVars, netVars, Answer
<1> QED
  BY <1>1, <1>2, <1>3, <1>4, <1>5, <1>6, <1>7, <1>8, <1>9, <1>10, <1>11, <1>12,
     <1>13, <1>14, <1>15, <1>16, <1>17, <1>18, <1>19, <1>20, <1>21, <1>22,
     <1>23, <1>24, <1>25, <1>26, <1>27
  DEF Running, MainStep, HandlerStep, ShutStep, Failure

\* The variables the rest of the invariant speaks of.
coreVars == <<main, wg, serve, shut, exit, channelVars, handler, interrupted>>

Core == WgCounts /\ Phases /\ ClosedForReason

LEMMA CoreFrame == ASSUME Core, UNCHANGED coreVars PROVE Core'
BY DEF Core, coreVars, channelVars, WgCounts, Counted, ShutCounted, Phases,
       ClosedForReason

LEMMA WgFrame == ASSUME WgCounts, UNCHANGED <<wg, serve, shut>> PROVE WgCounts'
BY DEF WgCounts, Counted, ShutCounted

LEMMA CoreKept ==
  ASSUME TypeOK, Core, exit = "running", Running
  PROVE  Core'
<1> USE DEF Core
<1>1. ASSUME Tick PROVE Core'
  BY <1>1, CoreFrame
  DEF coreVars, signalVars, channelVars, stopVars, netVars, Tick
<1>2. ASSUME NEW s \in Servers, Listen(s) PROVE Core'
  BY <1>2, CoreFrame
  DEF coreVars, signalVars, channelVars, stopVars, netVars, Listen
<1>3. ASSUME NEW s \in Servers, ReceiveResult(s) PROVE Core'
  BY <1>3, CoreFrame
  DEF coreVars, signalVars, channelVars, stopVars, netVars, ReceiveResult
<1>4. ASSUME NEW s \in Servers, CloseListener(s) PROVE Core'
  BY <1>4, CoreFrame
  DEF coreVars, signalVars, channelVars, stopVars, netVars, CloseListener
<1>5. ASSUME NEW s \in Servers, Drain(s) PROVE Core'
  BY <1>5, CoreFrame
  DEF coreVars, signalVars, channelVars, stopVars, netVars, Drain
<1>6. ASSUME NEW r \in Requests, Connect(r) PROVE Core'
  BY <1>6, CoreFrame
  DEF coreVars, signalVars, channelVars, stopVars, netVars, Connect
<1>7. ASSUME NEW r \in Requests, AcceptConn(r) PROVE Core'
  BY <1>7, CoreFrame
  DEF coreVars, signalVars, channelVars, stopVars, netVars, AcceptConn
<1>8. ASSUME NEW r \in Requests, Answer(r) PROVE Core'
  BY <1>8, CoreFrame
  DEF coreVars, signalVars, channelVars, stopVars, netVars, Answer
<1>9. ASSUME NotifySignals PROVE Core'
  <2>1. WgCounts'
    BY <1>9, WgFrame
    DEF signalVars, channelVars, stopVars, netVars, NotifySignals
  <2>2. Phases'
    BY <1>9, CountBounded
    DEF TypeOK, Phases, ClosedForReason, signalVars, channelVars, stopVars,
        netVars, NotifySignals
  <2>3. ClosedForReason'
    BY <1>9
    DEF TypeOK, Phases, ClosedForReason, signalVars, channelVars, stopVars,
        netVars, NotifySignals
  <2> QED BY <2>1, <2>2, <2>3
<1>10. ASSUME ServeReturnsNil PROVE Core'
  <2>1. WgCounts'
    BY <1>10, WgFrame
    DEF signalVars, channelVars, stopVars, netVars, ServeReturnsNil
  <2>2. Phases'
    <3>1. Cardinality(Counted) \in Nat
      BY CountBounded DEF Counted
    <3>2. shut = "done"
      BY <1>10, <3>1 DEF TypeOK, WgCounts, ShutCounted, Phases, ServeReturnsNil
    <3>3. interrupted
      BY <1>10, <3>2 DEF TypeOK, ClosedForReason, ServeReturnsNil
    <3> QED
      BY <1>10, <3>3
      DEF TypeOK, Phases, signalVars, channelVars, stopVars, netVars,
          ServeReturnsNil
  <2>3. ClosedForReason'
    BY <1>10
    DEF TypeOK, Phases, ClosedForReason, signalVars, channelVars, stopVars,
        netVars, ServeReturnsNil
  <2> QED BY <2>1, <2>2, <2>3
<1>11. ASSUME RunReturns PROVE Core'
  <2>1. WgCounts'
    BY <1>11, WgFrame
    DEF signalVars, channelVars, stopVars, netVars, RunReturns, Shutdown
  <2>2. Phases'
    BY <1>11, CountBounded
    DEF TypeOK, Phases, ClosedForReason, signalVars, channelVars, stopVars,
        netVars, RunReturns, Shutdown
  <2>3. ClosedForReason'
    BY <1>11
    DEF TypeOK, Phases, ClosedForReason, signalVars, channelVars, stopVars,
        netVars, RunReturns, Shutdown
  <2> QED BY <2>1, <2>2, <2>3
<1>12. ASSUME MainReturns PROVE Core'
  <2>1. WgCounts'
    BY <1>12, WgFrame
    DEF signalVars, channelVars, stopVars, netVars, MainReturns
  <2>2. Phases'
    BY <1>12, CountBounded
    DEF TypeOK, Phases, ClosedForReason, signalVars, channelVars, stopVars,
        netVars, MainReturns
  <2>3. ClosedForReason'
    BY <1>12
    DEF TypeOK, Phases, ClosedForReason, signalVars, channelVars, stopVars,
        netVars, MainReturns
  <2> QED BY <2>1, <2>2, <2>3
<1>13. ASSUME Signal PROVE Core'
  <2>1. WgCounts'
    BY <1>13, WgFrame DEF signalVars, channelVars, stopVars, netVars, Signal
  <2>2. Phases'
    BY <1>13, CountBounded
    DEF TypeOK, Phases, ClosedForReason, signalVars, channelVars, stopVars,
        netVars, Signal
  <2>3. ClosedForReason'
    BY <1>13
    DEF TypeOK, Phases, ClosedForReason, signalVars, channelVars, stopVars,
        netVars, Signal
  <2> QED BY <2>1, <2>2, <2>3
<1>14. ASSUME ReceiveSignal PROVE Core'
  <2>1. WgCounts'
    BY <1>14, WgFrame
    DEF signalVars, channelVars, stopVars, netVars, ReceiveSignal
  <2>2. Phases'
    BY <1>14, CountBounded
    DEF TypeOK, Phases, ClosedForReason, signalVars, channelVars, stopVars,
        netVars, ReceiveSignal
  <2>3. ClosedForReason'
    BY <1>14
    DEF TypeOK, Phases, ClosedForReason, signalVars, channelVars, stopVars,
        netVars, ReceiveSignal
  <2> QED BY <2>1, <2>2, <2>3
<1>15. ASSUME CheckInterrupted PROVE Core'
  <2>1. WgCounts'
    BY <1>15, WgFrame
    DEF signalVars, channelVars, stopVars, netVars, CheckInterrupted
  <2>2. Phases'
    BY <1>15, CountBounded
    DEF TypeOK, Phases, ClosedForReason, signalVars, channelVars, stopVars,
        netVars, CheckInterrupted
  <2>3. ClosedForReason'
    BY <1>15
    DEF TypeOK, Phases, ClosedForReason, signalVars, channelVars, stopVars,
        netVars, CheckInterrupted
  <2> QED BY <2>1, <2>2, <2>3
<1>16. ASSUME InterruptShutdown PROVE Core'
  <2>1. WgCounts'
    BY <1>16, WgFrame
    DEF signalVars, channelVars, stopVars, netVars, InterruptShutdown,
        Shutdown
  <2>2. Phases'
    BY <1>16, CountBounded
    DEF TypeOK, Phases, ClosedForReason, signalVars, channelVars, stopVars,
        netVars, InterruptShutdown, Shutdown
  <2>3. ClosedForReason'
    BY <1>16
    DEF TypeOK, Phases, ClosedForReason, signalVars, channelVars, stopVars,
        netVars, InterruptShutdown, Shutdown
  <2> QED BY <2>1, <2>2, <2>3
<1>17. ASSUME ShutdownBegins PROVE Core'
  <2>1. WgCounts'
    BY <1>17 DEF WgCounts, Counted, ShutCounted, netVars, ShutdownBegins
  <2>2. Phases'
    BY <1>17, CountBounded
    DEF TypeOK, Phases, ClosedForReason, signalVars, channelVars, stopVars,
        netVars, ShutdownBegins
  <2>3. ClosedForReason'
    BY <1>17
    DEF TypeOK, Phases, ClosedForReason, signalVars, channelVars, stopVars,
        netVars, ShutdownBegins
  <2> QED BY <2>1, <2>2, <2>3
<1>18. ASSUME PreServerShutdown PROVE Core'
  <2>1. WgCounts'
    BY <1>18 DEF WgCounts, Counted, ShutCounted, netVars, PreServerShutdown
  <2>2. Phases'
    BY <1>18, CountBounded
    DEF TypeOK, Phases, ClosedForReason, signalVars, channelVars, stopVars,
        netVars, PreServerShutdown
  <2>3. ClosedForReason'
    BY <1>18
    DEF TypeOK, Phases, ClosedForReason, signalVars, channelVars, stopVars,
        netVars, PreServerShutdown
  <2> QED BY <2>1, <2>2, <2>3
<1>19. ASSUME NEW s \in Servers, ListenFails(s) PROVE Core'
  <2>1. WgCounts'
    BY <1>19, WgFrame
    DEF signalVars, channelVars, stopVars, netVars, ListenFails, Turn
  <2>2. Phases'
    BY <1>19, CountBounded
    DEF TypeOK, Phases, ClosedForReason, signalVars, channelVars, stopVars,
        netVars, ListenFails, Turn
  <2>3. ClosedForReason'
    BY <1>19
    DEF TypeOK, Phases, ClosedForReason, signalVars, channelVars, stopVars,
        netVars, ListenFails, Turn
  <2> QED BY <2>1, <2>2, <2>3
<1>20. ASSUME NEW s \in Servers, LoadCertificateFails(s) PROVE Core'
  <2>1. WgCounts'
    BY <1>20, WgFrame
    DEF signalVars, channelVars, stopVars, netVars, LoadCertificateFails,
        Turn
  <2>2. Phases'
    BY <1>20, CountBounded
    DEF TypeOK, Phases, ClosedForReason, signalVars, channelVars, stopVars,
        netVars, LoadCertificateFails, Turn
  <2>3. ClosedForReason'
    BY <1>20
    DEF TypeOK, Phases, ClosedForReason, signalVars, channelVars, stopVars,
        netVars, LoadCertificateFails, Turn
  <2> QED BY <2>1, <2>2, <2>3
<1>21. ASSUME NEW s \in Servers, NoCertificate(s) PROVE Core'
  <2>1. WgCounts'
    BY <1>21, WgFrame
    DEF signalVars, channelVars, stopVars, netVars, NoCertificate, Turn
  <2>2. Phases'
    BY <1>21, CountBounded
    DEF TypeOK, Phases, ClosedForReason, signalVars, channelVars, stopVars,
        netVars, NoCertificate, Turn
  <2>3. ClosedForReason'
    BY <1>21
    DEF TypeOK, Phases, ClosedForReason, signalVars, channelVars, stopVars,
        netVars, NoCertificate, Turn
  <2> QED BY <2>1, <2>2, <2>3
<1>22. ASSUME NEW s \in Servers, ServeFails(s) PROVE Core'
  <2>1. WgCounts'
    BY <1>22, WgFrame DEF signalVars, channelVars, stopVars, netVars, ServeFails
  <2>2. Phases'
    BY <1>22, CountBounded
    DEF TypeOK, Phases, ClosedForReason, signalVars, channelVars, stopVars,
        netVars, ServeFails
  <2>3. ClosedForReason'
    BY <1>22
    DEF TypeOK, Phases, ClosedForReason, signalVars, channelVars, stopVars,
        netVars, ServeFails
  <2> QED BY <2>1, <2>2, <2>3
<1>23. ASSUME NEW s \in Servers, ServeBegins(s) PROVE Core'
  <2>1. Counted' = Counted
    BY <1>23 DEF TypeOK, Counted, ServeBegins
  <2>2. WgCounts'
    BY <1>23, <2>1 DEF WgCounts, ShutCounted, stopVars, ServeBegins
  <2>3. Phases' /\ ClosedForReason'
    BY <1>23
    DEF TypeOK, Phases, ClosedForReason, signalVars, channelVars, stopVars,
        netVars, ServeBegins
  <2> QED BY <2>2, <2>3
<1>24. ASSUME NEW s \in Servers, StartServing(s) PROVE Core'
  <2>1. s \notin Counted /\ Counted' = Counted \cup {s}
    BY <1>24 DEF TypeOK, Counted, StartServing, Turn
  <2>2. Cardinality(Counted') = Cardinality(Counted) + 1
    BY <2>1, CountOneMore DEF Counted
  <2>3. WgCounts'
    BY <1>24, <2>2, CountBounded
    DEF WgCounts, Counted, ShutCounted, stopVars, StartServing
  <2>4. Phases' /\ ClosedForReason'
    BY <1>24
    DEF TypeOK, Phases, ClosedForReason, signalVars, channelVars, stopVars,
        netVars, StartServing
  <2> QED BY <2>3, <2>4
<1>25. ASSUME NEW s \in Servers, ServeReturns(s) PROVE Core'
  <2>1. s \in Counted /\ Counted' = Counted \ {s}
    BY <1>25 DEF TypeOK, Counted, ServeReturns
  <2>2. Cardinality(Counted') = Cardinality(Counted) - 1
    BY <2>1, CountOneLess DEF Counted
  <2>3. wg > 0
    BY <2>1, CountBounded DEF WgCounts, Counted, ShutCounted
  <2>4. WgCounts'
    BY <1>25, <2>2, CountBounded
    DEF WgCounts, Counted, ShutCounted, stopVars, ServeReturns
  <2>5. Phases' /\ ClosedForReason'
    BY <1>25, <2>3
    DEF TypeOK, Phases, ClosedForReason, signalVars, channelVars, stopVars,
        netVars, ServeReturns
  <2> QED BY <2>4, <2>5
<1>26. ASSUME StartHandleShutdown PROVE Core'
  <2>1. Counted' = Counted /\ Cardinality(Counted) \in Nat
    BY <1>26, CountBounded DEF Counted, StartHandleShutdown, netVars
  <2>2. WgCounts'
    BY <1>26, <2>1
    DEF TypeOK, WgCounts, ShutCounted, Phases, StartHandleShutdown
  <2>3. Phases' /\ ClosedForReason'
    BY <1>26, <2>1
    DEF TypeOK, WgCounts, ShutCounted, Phases, ClosedForReason, signalVars,
        channelVars, stopVars, netVars, StartHandleShutdown
  <2> QED BY <2>2, <2>3
<1>27. ASSUME ServerShutdown PROVE Core'
  <2>1. Counted' = Counted /\ Cardinality(Counted) \in Nat
    BY <1>27, CountBounded DEF Counted, ServerShutdown, netVars
  <2>2. WgCounts'
    BY <1>27, <2>1 DEF TypeOK, WgCounts, ShutCounted, Phases, ServerShutdown
  <2>3. Phases' /\ ClosedForReason'
    BY <1>27, <2>1
    DEF TypeOK, WgCounts, ShutCounted, Phases, ClosedForReason, signalVars,
        channelVars, stopVars, netVars, ServerShutdown
  <2> QED BY <2>2, <2>3
<1> QED
  BY <1>1, <1>2, <1>3, <1>4, <1>5, <1>6, <1>7, <1>8, <1>9, <1>10, <1>11, <1>12,
     <1>13, <1>14, <1>15, <1>16, <1>17, <1>18, <1>19, <1>20, <1>21, <1>22,
     <1>23, <1>24, <1>25, <1>26, <1>27
  DEF Running, MainStep, HandlerStep, ShutStep, Failure

LEMMA ServerInvStep == ServerInv /\ [Next]_vars => ServerInv'
<1> SUFFICES ASSUME ServerInv, [Next]_vars PROVE ServerInv'
  OBVIOUS
<1>1. CASE exit = "running" /\ Running
  <2>1. TypesOK'
    BY <1>1, TypesKept DEF ServerInv
  <2>2. Core'
    BY <1>1, CoreKept DEF ServerInv, Core
  <2>3. wg' \in 0..Cardinality(Servers) + 1
    BY <2>2, CountBounded DEF Core, WgCounts, Counted
  <2> QED
    BY <2>1, <2>2, <2>3 DEF ServerInv, TypeOK, TypesOK, Core
<1>2. CASE UNCHANGED vars
  BY <1>2 DEF ServerInv, TypeOK, WgCounts, Counted, ShutCounted, Phases,
    ClosedForReason, vars, signalVars, channelVars, stopVars, netVars
<1> QED
  BY <1>1, <1>2 DEF Next

\* The invariant holds of every behaviour.
THEOREM ServerInvariant == Spec => []ServerInv
BY InitServerInv, ServerInvStep, PTL DEF Spec

----------------------------------------------------------------------------
\* TypeOK of every behaviour: among others, wg never goes below zero.
THEOREM ServerTypeCorrect == Spec => []TypeOK
<1>1. ServerInv => TypeOK
  BY DEF ServerInv
<1> QED
  BY <1>1, ServerInvariant, PTL

\* ClosedOnce of every behaviour: however Shutdown is called by the signal
\* handler and by Run's deferred function, the channel is closed only once.
THEOREM ShutdownClosesOnce == Spec => []ClosedOnce
<1>1. ServerInv => ClosedOnce
  BY DEF ServerInv, TypeOK, ClosedForReason, ClosedOnce
<1> QED
  BY <1>1, ServerInvariant, PTL

\* StopsOnlyWhenAsked of every behaviour: success is reported after a signal,
\* when every goroutine that serves a listener has returned.
THEOREM StopNeedsSignal == Spec => []StopsOnlyWhenAsked
<1>1. ServerInv => StopsOnlyWhenAsked
  <2> SUFFICES ASSUME ServerInv, exit = "ok"
               PROVE  interrupted /\ \A s \in Servers : serve[s] = "returned"
    BY DEF StopsOnlyWhenAsked
  <2>1. /\ main = "returnedNil" /\ wg = 0 /\ interrupted
        /\ \A s \in Servers : serve[s] # "none"
    BY DEF ServerInv, Phases
  <2>2. Cardinality(Counted) = 0
    BY <2>1, CountBounded DEF ServerInv, WgCounts, Counted
  <2>3. Counted = {}
    BY <2>2, CountBounded DEF Counted
  <2> QED
    BY <2>1, <2>3 DEF ServerInv, TypeOK, Counted
<1> QED
  BY <1>1, ServerInvariant, PTL

----------------------------------------------------------------------------
(***************************************************************************)
(* What the goroutines of handleShutdown leave behind.                     *)
(***************************************************************************)
\* A result is only sent after Serve returned, so no request can be added to
\* those in flight, and requests are only left behind at the deadline.
DrainedRight(s) ==
  stopper[s] \in {"sending", "done"} =>
    /\ serve[s] # "serving"
    /\ stopped[s] => ~InFlight(s)
    /\ InFlight(s) => elapsed >= GracefulTimeout

ResultsRight ==
  /\ shut \in {"none", "waiting", "hook"} => \A s \in Servers : stopper[s] = "none"
  /\ "ServerShutdown" \in hooks =>
       \A s \in Servers : stopper[s] = "done" /\ stopped[s]
  /\ shut = "done" => ~AllSucceeded \/ \A s \in Servers : stopper[s] = "done"

DrainInv == ResultsRight /\ \A s \in Servers : DrainedRight(s)

LEMMA InitDrainInv == Init => DrainInv
BY DEF Init, DrainInv, ResultsRight, DrainedRight

drainVars == <<shut, hooks, stopper, stopped, elapsed, serve, conn>>

LEMMA DrainFrame == ASSUME DrainInv, UNCHANGED drainVars PROVE DrainInv'
BY DEF DrainInv, drainVars, ResultsRight, AllSucceeded, DrainedRight, InFlight

\* Steps that neither touch a result nor put a request in flight.
LEMMA DrainedKept ==
  ASSUME TypeOK, NEW s \in Servers, DrainedRight(s),
         UNCHANGED <<stopper, stopped>>, elapsed' \in Nat, elapsed' >= elapsed,
         serve'[s] = "serving" => serve[s] = "serving" \/ ~InShutdown(s),
         InFlight(s)' => InFlight(s)
  PROVE  DrainedRight(s)'
BY TimeoutAssumption DEF TypeOK, DrainedRight, InShutdown

LEMMA DrainKept ==
  ASSUME ServerInv, DrainInv, Running PROVE DrainInv'
<1> USE DEF ServerInv
<1>1. ASSUME NotifySignals PROVE DrainInv'
  BY <1>1, DrainFrame DEF drainVars, stopVars, netVars, NotifySignals
<1>2. ASSUME ServeReturnsNil PROVE DrainInv'
  BY <1>2, DrainFrame DEF drainVars, stopVars, netVars, ServeReturnsNil
<1>3. ASSUME RunReturns PROVE DrainInv'
  BY <1>3, DrainFrame DEF drainVars, stopVars, netVars, RunReturns
<1>4. ASSUME MainReturns PROVE DrainInv'
  BY <1>4, DrainFrame DEF drainVars, stopVars, netVars, MainReturns
<1>5. ASSUME Signal PROVE DrainInv'
  BY <1>5, DrainFrame DEF drainVars, stopVars, netVars, Signal
<1>6. ASSUME ReceiveSignal PROVE DrainInv'
  BY <1>6, DrainFrame DEF drainVars, stopVars, netVars, ReceiveSignal
<1>7. ASSUME CheckInterrupted PROVE DrainInv'
  BY <1>7, DrainFrame DEF drainVars, stopVars, netVars, CheckInterrupted
<1>8. ASSUME InterruptShutdown PROVE DrainInv'
  BY <1>8, DrainFrame DEF drainVars, stopVars, netVars, InterruptShutdown
<1>9. ASSUME NEW s \in Servers, Listen(s) PROVE DrainInv'
  BY <1>9, DrainFrame DEF drainVars, stopVars, netVars, Listen
<1>10. ASSUME NEW s \in Servers, ListenFails(s) PROVE DrainInv'
  BY <1>10, DrainFrame DEF drainVars, stopVars, netVars, ListenFails
<1>11. ASSUME NEW s \in Servers, LoadCertificateFails(s) PROVE DrainInv'
  BY <1>11, DrainFrame DEF drainVars, stopVars, netVars, LoadCertificateFails
<1>12. ASSUME NEW s \in Servers, NoCertificate(s) PROVE DrainInv'
  BY <1>12, DrainFrame DEF drainVars, stopVars, netVars, NoCertificate
<1>13. ASSUME NEW s \in Servers, ServeFails(s) PROVE DrainInv'
  BY <1>13, DrainFrame DEF drainVars, stopVars, netVars, ServeFails
<1>14. ASSUME NEW t \in Servers, StartServing(t) PROVE DrainInv'
  <2>1. ResultsRight'
    BY <1>14 DEF DrainInv, ResultsRight, AllSucceeded, stopVars, StartServing
  <2>2. ASSUME NEW s \in Servers PROVE DrainedRight(s)'
    <3>1. /\ UNCHANGED <<stopper, stopped>> /\ elapsed' \in Nat /\ elapsed' >= elapsed
          /\ serve'[s] = "serving" => serve[s] = "serving" \/ ~InShutdown(s)
      BY <1>14, TimeoutAssumption DEF TypeOK, stopVars, netVars, StartServing
    <3>2. InFlight(s)' => InFlight(s)
      BY <1>14 DEF TypeOK, InFlight, Requests, netVars, StartServing
    <3> QED
      BY <2>2, <3>1, <3>2, DrainedKept DEF DrainInv
  <2> QED BY <2>1, <2>2 DEF DrainInv
<1>15. ASSUME StartHandleShutdown PROVE DrainInv'
  <2>1. ResultsRight'
    BY <1>15 DEF DrainInv, ResultsRight, AllSucceeded, Phases, StartHandleShutdown
  <2>2. ASSUME NEW s \in Servers PROVE DrainedRight(s)'
    <3>1. /\ UNCHANGED <<stopper, stopped>> /\ elapsed' \in Nat /\ elapsed' >= elapsed
          /\ serve'[s] = "serving" => serve[s] = "serving" \/ ~InShutdown(s)
      BY <1>15, TimeoutAssumption
      DEF TypeOK, stopVars, netVars, StartHandleShutdown
    <3>2. InFlight(s)' => InFlight(s)
      BY <1>15 DEF TypeOK, InFlight, Requests, netVars, StartHandleShutdown
    <3> QED
      BY <2>2, <3>1, <3>2, DrainedKept DEF DrainInv
  <2> QED BY <2>1, <2>2 DEF DrainInv
<1>16. ASSUME ShutdownBegins PROVE DrainInv'
  <2>1. ResultsRight'
    BY <1>16 DEF DrainInv, ResultsRight, AllSucceeded, stopVars, ShutdownBegins
  <2>2. ASSUME NEW s \in Servers PROVE DrainedRight(s)'
    <3>1. /\ UNCHANGED <<stopper, stopped>> /\ elapsed' \in Nat /\ elapsed' >= elapsed
          /\ serve'[s] = "serving" => serve[s] = "serving" \/ ~InShutdown(s)
      BY <1>16, TimeoutAssumption DEF TypeOK, stopVars, netVars, ShutdownBegins
    <3>2. InFlight(s)' => InFlight(s)
      BY <1>16 DEF TypeOK, InFlight, Requests, netVars, ShutdownBegins
    <3> QED
      BY <2>2, <3>1, <3>2, DrainedKept DEF DrainInv
  <2> QED BY <2>1, <2>2 DEF DrainInv
<1>17. ASSUME Tick PROVE DrainInv'
  <2>1. ResultsRight'
    BY <1>17 DEF DrainInv, ResultsRight, AllSucceeded, stopVars, Tick
  <2>2. ASSUME NEW s \in Servers PROVE DrainedRight(s)'
    <3>1. /\ UNCHANGED <<stopper, stopped>> /\ elapsed' \in Nat /\ elapsed' >= elapsed
          /\ serve'[s] = "serving" => serve[s] = "serving" \/ ~InShutdown(s)
      BY <1>17, TimeoutAssumption DEF TypeOK, stopVars, netVars, Tick
    <3>2. InFlight(s)' => InFlight(s)
      BY <1>17 DEF TypeOK, InFlight, Requests, netVars, Tick
    <3> QED
      BY <2>2, <3>1, <3>2, DrainedKept DEF DrainInv
  <2> QED BY <2>1, <2>2 DEF DrainInv
<1>18. ASSUME NEW t \in Servers, ServeBegins(t) PROVE DrainInv'
  <2>1. ResultsRight'
    BY <1>18 DEF DrainInv, ResultsRight, AllSucceeded, stopVars, ServeBegins
  <2>2. ASSUME NEW s \in Servers PROVE DrainedRight(s)'
    <3>1. /\ UNCHANGED <<stopper, stopped>> /\ elapsed' \in Nat /\ elapsed' >= elapsed
          /\ serve'[s] = "serving" => serve[s] = "serving" \/ ~InShutdown(s)
      BY <1>18, TimeoutAssumption DEF TypeOK, stopVars, netVars, ServeBegins
    <3>2. InFlight(s)' => InFlight(s)
      BY <1>18 DEF TypeOK, InFlight, Requests, netVars, ServeBegins
    <3> QED
      BY <2>2, <3>1, <3>2, DrainedKept DEF DrainInv
  <2> QED BY <2>1, <2>2 DEF DrainInv
<1>19. ASSUME NEW t \in Servers, ServeReturns(t) PROVE DrainInv'
  <2>1. ResultsRight'
    BY <1>19 DEF DrainInv, ResultsRight, AllSucceeded, stopVars, ServeReturns
  <2>2. ASSUME NEW s \in Servers PROVE DrainedRight(s)'
    <3>1. /\ UNCHANGED <<stopper, stopped>> /\ elapsed' \in Nat /\ elapsed' >= elapsed
          /\ serve'[s] = "serving" => serve[s] = "serving" \/ ~InShutdown(s)
      BY <1>19, TimeoutAssumption DEF TypeOK, stopVars, netVars, ServeReturns
    <3>2. InFlight(s)' => InFlight(s)
      BY <1>19 DEF TypeOK, InFlight, Requests, netVars, ServeReturns, Close
    <3> QED
      BY <2>2, <3>1, <3>2, DrainedKept DEF DrainInv
  <2> QED BY <2>1, <2>2 DEF DrainInv
<1>20. ASSUME NEW r \in Requests, Connect(r) PROVE DrainInv'
  <2>1. ResultsRight'
    BY <1>20 DEF DrainInv, ResultsRight, AllSucceeded, stopVars, Connect
  <2>2. ASSUME NEW s \in Servers PROVE DrainedRight(s)'
    <3>1. /\ UNCHANGED <<stopper, stopped>> /\ elapsed' \in Nat /\ elapsed' >= elapsed
          /\ serve'[s] = "serving" => serve[s] = "serving" \/ ~InShutdown(s)
      BY <1>20, TimeoutAssumption DEF TypeOK, stopVars, netVars, Connect
    <3>2. InFlight(s)' => InFlight(s)
      BY <1>20 DEF TypeOK, InFlight, Requests, netVars, Connect
    <3> QED
      BY <2>2, <3>1, <3>2, DrainedKept DEF DrainInv
  <2> QED BY <2>1, <2>2 DEF DrainInv
<1>21. ASSUME NEW r \in Requests, Answer(r) PROVE DrainInv'
  <2>1. ResultsRight'
    BY <1>21 DEF DrainInv, ResultsRight, AllSucceeded, stopVars, Answer
  <2>2. ASSUME NEW s \in Servers PROVE DrainedRight(s)'
    <3>1. /\ UNCHANGED <<stopper, stopped>> /\ elapsed' \in Nat /\ elapsed' >= elapsed
          /\ serve'[s] = "serving" => serve[s] = "serving" \/ ~InShutdown(s)
      BY <1>21, TimeoutAssumption DEF TypeOK, stopVars, netVars, Answer
    <3>2. InFlight(s)' => InFlight(s)
      BY <1>21 DEF TypeOK, InFlight, Requests, netVars, Answer
    <3> QED
      BY <2>2, <3>1, <3>2, DrainedKept DEF DrainInv
  <2> QED BY <2>1, <2>2 DEF DrainInv
<1>22. ASSUME ServerShutdown PROVE DrainInv'
  <2>1. ResultsRight'
    BY <1>22 DEF TypeOK, DrainInv, ResultsRight, AllSucceeded, ServerShutdown
  <2>2. ASSUME NEW s \in Servers PROVE DrainedRight(s)'
    <3>1. /\ UNCHANGED <<stopper, stopped>> /\ elapsed' \in Nat /\ elapsed' >= elapsed
          /\ serve'[s] = "serving" => serve[s] = "serving" \/ ~InShutdown(s)
      BY <1>22, TimeoutAssumption DEF TypeOK, stopVars, netVars, ServerShutdown
    <3>2. InFlight(s)' => InFlight(s)
      BY <1>22 DEF TypeOK, InFlight, Requests, netVars, ServerShutdown
    <3> QED
      BY <2>2, <3>1, <3>2, DrainedKept DEF DrainInv
  <2> QED BY <2>1, <2>2 DEF DrainInv
<1>23. ASSUME PreServerShutdown PROVE DrainInv'
  <2>1. ResultsRight'
    BY <1>23 DEF TypeOK, DrainInv, ResultsRight, PreServerShutdown
  <2>2. ASSUME NEW s \in Servers PROVE DrainedRight(s)'
    BY <1>23, <2>2 DEF DrainedRight, PreServerShutdown
  <2> QED BY <2>1, <2>2 DEF DrainInv
<1>24. ASSUME NEW t \in Servers, ReceiveResult(t) PROVE DrainInv'
  <2>1. ResultsRight'
    BY <1>24 DEF TypeOK, DrainInv, ResultsRight, ReceiveResult
  <2>2. ASSUME NEW s \in Servers PROVE DrainedRight(s)'
    <3>1. InFlight(s)' <=> InFlight(s)
      BY <1>24 DEF InFlight, netVars, ReceiveResult
    <3> QED
      BY <1>24, <2>2, <3>1
      DEF TypeOK, DrainInv, DrainedRight, netVars, ReceiveResult
  <2> QED BY <2>1, <2>2 DEF DrainInv
<1>25. ASSUME NEW t \in Servers, CloseListener(t) PROVE DrainInv'
  <2>1. /\ stopper' = [stopper EXCEPT ![t] = "draining"] /\ stopper[t] = "closing"
        /\ \A s \in Servers \ {t} : stopped'[s] = stopped[s]
        /\ UNCHANGED <<shut, hooks, elapsed, serve>>
    BY <1>25 DEF TypeOK, CloseListener
  <2>2. ResultsRight'
    BY <2>1 DEF TypeOK, DrainInv, ResultsRight, AllSucceeded
  <2>3. ASSUME NEW s \in Servers PROVE DrainedRight(s)'
    <3>1. \A r \in Requests : conn'[r] = "active" => conn[r] = "active"
      BY <1>25 DEF CloseListener, Close
    <3>2. InFlight(s)' => InFlight(s)
      BY <3>1 DEF InFlight, Requests
    <3> QED
      BY <2>1, <2>3, <3>2 DEF TypeOK, DrainInv, DrainedRight
  <2> QED BY <2>2, <2>3 DEF DrainInv
<1>26. ASSUME NEW t \in Servers, Drain(t) PROVE DrainInv'
  <2>1. ResultsRight'
    BY <1>26 DEF TypeOK, DrainInv, ResultsRight, AllSucceeded, Drain
  <2>2. ASSUME NEW s \in Servers PROVE DrainedRight(s)'
    <3>1. InFlight(s)' <=> InFlight(s)
      BY <1>26 DEF InFlight, netVars, Drain
    <3>2. CASE s = t
      BY <1>26, <3>1, <3>2 DEF TypeOK, DrainedRight, Expired, netVars, Drain
    <3>3. CASE s # t
      BY <1>26, <2>2, <3>1, <3>3
      DEF TypeOK, DrainInv, DrainedRight, netVars, Drain
    <3> QED BY <3>2, <3>3
  <2> QED BY <2>1, <2>2 DEF DrainInv
<1>27. ASSUME NEW r \in Requests, AcceptConn(r) PROVE DrainInv'
  <2>1. ResultsRight'
    BY <1>27 DEF DrainInv, ResultsRight, AllSucceeded, stopVars, AcceptConn
  <2>2. ASSUME NEW s \in Servers PROVE DrainedRight(s)'
    <3>1. CASE s = r[1]
      BY <1>27, <2>2, <3>1 DEF DrainInv, DrainedRight, stopVars, AcceptConn
    <3>2. CASE s # r[1]
      <4>1. InFlight(s)' => InFlight(s)
        BY <1>27, <3>2, SMTT(30) DEF TypeOK, InFlight, Requests, AcceptConn
      <4> QED
        BY <1>27, <2>2, <4>1 DEF DrainInv, DrainedRight, stopVars, AcceptConn
    <3> QED BY <3>1, <3>2
  <2> QED BY <2>1, <2>2 DEF DrainInv
<1> QED
  BY <1>1, <1>2, <1>3, <1>4, <1>5, <1>6, <1>7, <1>8, <1>9, <1>10, <1>11, <1>12,
     <1>13, <1>14, <1>15, <1>16, <1>17, <1>18, <1>19, <1>20, <1>21, <1>22,
     <1>23, <1>24, <1>25, <1>26, <1>27
  DEF Running, MainStep, HandlerStep, ShutStep, Failure

THEOREM DrainInvariant == Spec => []DrainInv
<1>1. ServerInv /\ DrainInv /\ [Next]_vars => DrainInv'
  BY DrainKept, DrainFrame DEF Next, vars, stopVars, netVars, drainVars
<1> QED
  BY <1>1, InitDrainInv, ServerInvariant, PTL DEF Spec

----------------------------------------------------------------------------
\* HookAfterDrain of every behaviour, for any number of listeners: once the
\* ServerShutdown hook ran, no request is in flight and none will be.
THEOREM HookRunsAfterDrain == Spec => []HookAfterDrain
<1>1. DrainInv => HookAfterDrain
  BY DEF DrainInv, ResultsRight, DrainedRight, HookAfterDrain
<1> QED
  BY <1>1, DrainInvariant, PTL

\* TimeoutHonoured of every behaviour, for any listeners and any timeout: the
\* argument is that handleShutdown cannot finish before every listener's result
\* or a bad one, and that a result is bad for a reason.
THEOREM TimeoutIsHonoured == Spec => []TimeoutHonoured
<1>1. ServerInv /\ DrainInv => TimeoutHonoured
  <2> SUFFICES ASSUME ServerInv, DrainInv, exit = "ok",
                      NEW t \in Servers, InFlight(t), ~(elapsed >= GracefulTimeout)
               PROVE  \E s \in Servers \ {t} : stopper[s] = "done" /\ ~stopped[s]
    BY DEF TimeoutHonoured
  <2>1. main = "returnedNil" /\ wg = 0 /\ shut # "none"
    BY DEF ServerInv, Phases
  <2>2. Cardinality(Counted) \in Nat
    BY CountBounded DEF Counted
  <2>3. shut = "done"
    BY <2>1, <2>2 DEF ServerInv, TypeOK, WgCounts, ShutCounted
  <2>4. stopper[t] # "done"
    BY DEF DrainInv, DrainedRight
  <2>5. ~AllSucceeded
    BY <2>3, <2>4 DEF DrainInv, ResultsRight
  <2> QED
    BY <2>4, <2>5 DEF AllSucceeded
<1> QED
  BY <1>1, ServerInvariant, DrainInvariant, PTL
=============================================================================
