------------------------------ MODULE ApiSetup ------------------------------
(***************************************************************************)
(* How Run puts the API together.  The order matters: ConfigureAPI copies  *)
(* what it finds into the handler that serves requests, and overwrites     *)
(* some of what was set before it.                                         *)
(***************************************************************************)
EXTENDS ApiDocument, SequencesExt

CONSTANT Wired     \* the operations whose handler Run assigns

\* The assignments of Run: GetDeviceSignatureHandler is not among them.
RunWiring == OperationIDs \ {"GetDeviceSignature"}

Unset == "unset"
NoMiddleware == <<Unset>>

\* A handler is known by who gave it, a codec by the package it is from.
NewSignatureServiceAPI ==
  [handlers  |-> [id \in OperationIDs |-> "notImplemented"],
   consumer  |-> "runtime",
   producer  |-> "runtime",
   swaggerUI |-> FALSE,
   apiMiddleware    |-> NoMiddleware,
   globalMiddleware |-> NoMiddleware,
   hooks     |-> "none",
   cache     |-> << >>,
   consumers |-> << >>,
   producers |-> << >>,
   chain     |-> << >>]

AssignHandlers(api) ==
  [api EXCEPT !.handlers =
     [id \in OperationIDs |-> IF id \in Wired THEN "service" ELSE @[id]]]

\* Use wraps from the last middleware to the first, so the first is outermost.
UseInOrder(middlewares, handler) ==
  FoldLeft(LAMBDA h, m : <<m>> \o h, handler, middlewares)
Use(middlewares, handler) ==
  FoldRight(LAMBDA m, h : <<m>> \o h, middlewares, handler)

InstallMiddlewares(api) ==
  [api EXCEPT !.apiMiddleware = <<"log_http", "Recovery">>,
              !.globalMiddleware = <<"SetResponseHeader", "requestid">>]

\* The maps the router is given for the media types of a route.
ConsumersFor(api, mediaTypes) ==
  [mt \in mediaTypes \cap {"application/json"} |-> api.consumer]
ProducersFor(api, mediaTypes) ==
  [mt \in mediaTypes \cap {"application/json"} |-> api.producer]

\* initHandlerCache: the handlers of that moment, under methods and paths that
\* the generator has written out a second time.
CacheKeys ==
  [CreateSignatureDevice |-> <<"POST", <<"devices">>>>,
   GetDeviceSignature    |->
     <<"GET", <<"devices", "{deviceId}", "signatures", "{signatureId}">>>>,
   GetSignatureDevice    |-> <<"GET", <<"devices", "{deviceId}">>>>,
   ListDeviceSignatures  |-> <<"GET", <<"devices", "{deviceId}", "signatures">>>>,
   ListSignatureDevices  |-> <<"GET", <<"devices">>>>,
   SignTransaction       |-> <<"POST", <<"devices", "{deviceId}", "signatures">>>>]
InitHandlerCache(api) ==
  [api EXCEPT !.cache =
     [key \in {CacheKeys[id] : id \in DOMAIN CacheKeys} |->
        api.handlers[CHOOSE id \in DOMAIN CacheKeys : CacheKeys[id] = key]]]

\* Init: the cache is filled once only.
InitAPI(api) == IF api.cache = << >> THEN InitHandlerCache(api) ELSE api

\* go-openapi's router takes the codecs of every route at this moment.
BuildRouter(api) ==
  [api EXCEPT !.consumers = ConsumersFor(api, {"application/json"}),
              !.producers = ProducersFor(api, {"application/json"})]

\* Serve: the document and its UI outside the router, the API's middleware
\* inside it, around the executor of the operation.
Serve(api) ==
  LET ready == BuildRouter(InitAPI(api))
      ui    == IF ready.swaggerUI THEN <<"spec", "swaggerUI">> ELSE <<"spec", "redoc">>
  IN  [ready EXCEPT !.chain =
         ui \o <<"router">> \o Use(ready.apiMiddleware, <<"executor">>)]

ConfigureAPI(api) ==
  LET filled  == [api EXCEPT !.swaggerUI = TRUE,
                             !.consumer = "runtime",
                             !.producer = "runtime",
                             !.hooks = "none"]
      serving == Serve(filled)
  IN  [serving EXCEPT !.chain = Use(serving.globalMiddleware, serving.chain)]

\* What Run sets after ConfigureAPI: codecs and shutdown hooks.
CommonSettings(api) ==
  [api EXCEPT !.consumer = "jsoniter", !.producer = "jsoniter", !.hooks = "run"]

\* Mutated form of RunSetup: the handlers are assigned after ConfigureAPI.
RunSetupLate ==
  CommonSettings(AssignHandlers(ConfigureAPI(InstallMiddlewares(NewSignatureServiceAPI))))
RunSetup ==
  CommonSettings(ConfigureAPI(InstallMiddlewares(AssignHandlers(NewSignatureServiceAPI))))

\* HandlerFor: the handler in the cache, by the method and the path template.
HandlerFor(api, method, path) == api.cache[<<method, path>>]
=============================================================================
