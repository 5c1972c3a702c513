--------------------------- MODULE RequestPipeline ---------------------------
(***************************************************************************)
(* One HTTP request through what Run has put together: the middleware in   *)
(* the order of the chain, the router, binding and validation, the         *)
(* handler, its responder, and back.  Three response writers lie over each *)
(* other: net/http's, the one that sets the server's name, and the one     *)
(* that keeps what the log will report.  The handler's own work is         *)
(* SignatureService; here it returns one of the operation's responders or  *)
(* panics.                                                                 *)
(***************************************************************************)
EXTENDS ApiSetup, ApiModels, UrlBuilders

CONSTANTS Requests,       \* the requests a client may send
          Sizes,          \* the numbers of bytes an encoded payload may take
          maxLoggedBody   \* the bytes of an error's body that the log keeps

ASSUME PipelineAssumption ==
  /\ Sizes \subseteq Nat \ {0}
  /\ maxLoggedBody \in Nat
  /\ \A r \in Requests : r.body.kind \in {"none", "blank", "malformed", "object"}

VARIABLES request,   \* the request
          left,      \* the part of the chain that is not entered yet
          entered,   \* the frames on the stack, the innermost last
          stage,     \* where the innermost frame stands
          route,     \* the operation the router found
          bound,     \* the parameters the handler was given
          answer,    \* the status and payload being written
          w,         \* the header map and the three writers over it
          journal    \* what the log says of this request

vars == <<request, left, entered, stage, route, bound, answer, w, journal>>

None == "none"
NoRoute == [id |-> None]
NoAnswer == [status |-> 0, payload |-> None, size |-> 0, by |-> None]
NoBuilder == Builder(None, << >>, Empty, Empty)
NoParams == [given |-> FALSE, body |-> << >>, ids |-> << >>]

\* The API that serves, after all of Run's set-up.
Api == RunSetup
-----------------------------------------------------------------------------
(* The response writers *)

NewWriter ==
  [header |-> << >>, serverWritten |-> FALSE,
   log  |-> [wroteHeader |-> FALSE, status |-> 0, size |-> 0, body |-> << >>],
   wire |-> [status |-> 0, headers |-> << >>, body |-> << >>, broken |-> FALSE]]

SetHeader(wr, name, value) ==
  [wr EXCEPT !.header = [n \in DOMAIN @ \cup {name} |-> IF n = name THEN value ELSE @[n]]]

\* net/http: the first WriteHeader sends the status and the headers of that
\* moment, the others do nothing.
NetWriteHeader(wr, code) ==
  IF wr.wire.status # 0 THEN wr
  ELSE [wr EXCEPT !.wire.status = code, !.wire.headers = wr.header]

\* Mutated form of ServerWriteHeader: the header is set after the call.
ServerWriteHeaderLate(wr, code) ==
  [SetHeader(NetWriteHeader(wr, code), "X-Server", "service") EXCEPT !.serverWritten = TRUE]

\* writerHeader.WriteHeader.
ServerWriteHeader(wr, code) ==
  NetWriteHeader(
    IF wr.serverWritten THEN wr
    ELSE [SetHeader(wr, "X-Server", "service") EXCEPT !.serverWritten = TRUE],
    code)

\* The writer of the frames below log_http.
OuterWriteHeader(frames, wr, code) ==
  IF \E i \in DOMAIN frames : frames[i] = "SetResponseHeader"
  THEN ServerWriteHeader(wr, code) ELSE NetWriteHeader(wr, code)

\* Mutated form of LogWriteHeader: without the guard.
LogWriteHeaderAgain(frames, wr, code) ==
  OuterWriteHeader(frames,
    [wr EXCEPT !.log.wroteHeader = TRUE, !.log.status = code], code)

\* loggingResponseWriter.WriteHeader.
LogWriteHeader(frames, wr, code) ==
  IF wr.log.wroteHeader THEN wr
  ELSE OuterWriteHeader(frames,
         [wr EXCEPT !.log.wroteHeader = TRUE, !.log.status = code], code)

Logged(frames) == \E i \in DOMAIN frames : frames[i] = "log_http"

WriteHeader(frames, wr, code) ==
  IF Logged(frames) THEN LogWriteHeader(frames, wr, code)
                    ELSE OuterWriteHeader(frames, wr, code)

\* net/http accepts n bytes; a write that is cut short breaks the connection.
NetWrite(wr, bytes, n) ==
  [wr EXCEPT !.wire.body = @ \o SubSeq(bytes, 1, n),
             !.wire.broken = @ \/ n < Len(bytes)]

Smaller(a, b) == IF a < b THEN a ELSE b

\* Mutated form of LogWrite: the whole text of an error is kept.
LogWriteUncapped(frames, wr, bytes, n) ==
  LET ready == LogWriteHeader(frames, wr, 200)
      kept  == IF ready.log.status >= 400 THEN bytes ELSE << >>
  IN  NetWrite([ready EXCEPT !.log.body = @ \o kept, !.log.size = @ + n], bytes, n)

\* loggingResponseWriter.Write: what it keeps is kept before the write, what it
\* counts is counted after it.
LogWrite(frames, wr, bytes, n) ==
  LET ready == LogWriteHeader(frames, wr, 200)
      room  == maxLoggedBody - Len(ready.log.body)
      kept  == IF ready.log.status >= 400
               THEN SubSeq(bytes, 1, Smaller(room, Len(bytes))) ELSE << >>
  IN  NetWrite([ready EXCEPT !.log.body = @ \o kept, !.log.size = @ + n], bytes, n)

\* The bytes of a payload, each known by the writer of the payload.
Bytes(by, size) == [i \in 1..size |-> by]

\* A write through the writers of those frames, however many bytes go out.
Accepted(wr, size) == IF wr.wire.broken THEN {0} ELSE 0..size
Write(frames, wr, bytes, n) ==
  IF Logged(frames) THEN LogWrite(frames, wr, bytes, n) ELSE NetWrite(wr, bytes, n)
-----------------------------------------------------------------------------
(* The responders of the operations: the status each one writes and the    *)
(* type of its payload                                                     *)

Responder(status, payload) == [status |-> status, payload |-> payload]
Errors(statuses) == {Responder(status, "string") : status \in statuses}

ListSignatureDevicesResponders ==
  {Responder(200, "SignatureDeviceListResponse")} \cup Errors({500})
CreateSignatureDeviceRespondersOK ==   \* mutated form of the next
  {Responder(200, "SignatureDeviceResponse")} \cup Errors({400, 409, 500})
CreateSignatureDeviceResponders ==
  {Responder(201, "SignatureDeviceResponse")} \cup Errors({400, 409, 500})
GetSignatureDeviceResponders ==
  {Responder(200, "SignatureDevice")} \cup Errors({404, 500})
ListDeviceSignaturesResponders ==
  {Responder(200, "SignatureListResponse")} \cup Errors({404, 500})
SignTransactionResponders ==
  {Responder(201, "SignatureResponse")} \cup Errors({400, 404, 500})
GetDeviceSignatureResponders ==
  {Responder(200, "Signature")} \cup Errors({404, 500})

Responders(id) ==
  CASE id = "ListSignatureDevices"  -> ListSignatureDevicesResponders
    [] id = "CreateSignatureDevice" -> CreateSignatureDeviceResponders
    [] id = "GetSignatureDevice"    -> GetSignatureDeviceResponders
    [] id = "ListDeviceSignatures"  -> ListDeviceSignaturesResponders
    [] id = "SignTransaction"       -> SignTransactionResponders
    [] id = "GetDeviceSignature"    -> GetDeviceSignatureResponders

\* What the repository holds, as far as a schema can tell: a device has the
\* label of a valid request, a chain that may be empty, a last signature that
\* is never empty.
StoredDevices ==
  [ID : UUIDPattern, Algorithm : AlgorithmEnum, Label : {"", "text"},
   SignatureCounter : Integers64, LastSignature : {"text"}, PublicKeyPem : {"text"}]
StoredSignatures ==
  [ID : UUIDPattern, DeviceID : UUIDPattern, Counter : Integers64,
   Signature : {"text"}, SignedData : {"text"}]

newSignatureDeviceModel(dev) ==
  [id |-> dev.ID, algorithm |-> dev.Algorithm, label |-> dev.Label,
   signature_counter |-> dev.SignatureCounter,
   last_signature |-> dev.LastSignature, public_key_pem |-> dev.PublicKeyPem]
newSignatureModel(sig) ==
  [id |-> sig.ID, device_id |-> sig.DeviceID, counter |-> sig.Counter,
   signature |-> sig.Signature, signed_data |-> sig.SignedData]

DeviceModels == {newSignatureDeviceModel(dev) : dev \in StoredDevices}
SignatureModels == {newSignatureModel(sig) : sig \in StoredSignatures}

\* The payloads the service gives a responder for that request.
Payloads(kind, params) ==
  CASE kind = "string" -> {"text"}
    [] kind = "SignatureDevice" -> DeviceModels
    [] kind = "Signature" -> SignatureModels
    [] kind = "SignatureDeviceResponse" ->
         {[id |-> params.body.id, public_key_pem |-> "text"]}
    [] kind = "SignatureResponse" -> {[signature |-> "text", signed_data |-> "text"]}
    [] kind = "SignatureDeviceListResponse" ->
         {<< >>} \cup {<<item>> : item \in DeviceModels}
    [] kind = "SignatureListResponse" ->
         {<< >>} \cup {<<item>> : item \in SignatureModels}
-----------------------------------------------------------------------------
(* Binding: the errors of a request, in the order BindRequest meets them   *)

\* A body that is empty or blank is a missing one; what the consumer cannot
\* read is a parse error; what Validate refuses is unprocessable.  The codes
\* of go-openapi that are no HTTP statuses become 422.
BodyErrors(name, body, zero) ==
  IF body.kind \in {"none", "blank"} THEN <<422>>
  ELSE IF body.kind = "malformed" \/ ~CanDecode(body.object, zero) THEN <<400>>
  ELSE IF ~ValidateRequest(name, Decode(body.object, zero)) THEN <<422>>
  ELSE << >>

IDErrors(value) == IF MatchesPattern(value) /\ IsUUID(value) THEN << >> ELSE <<422>>
IDOf(op, name, r) == ParameterValue(op, name, Clean(r.path))
DeviceIDErrors(op, r) == IDErrors(IDOf(op, "{deviceId}", r))
SignatureIDErrors(op, r) == IDErrors(IDOf(op, "{signatureId}", r))

ListSignatureDevicesErrors(op, r) == << >>
CreateSignatureDeviceErrors(op, r) ==
  BodyErrors("CreateSignatureDeviceRequest", r.body, CreateSignatureDeviceRequest)
GetSignatureDeviceErrors(op, r) == DeviceIDErrors(op, r)
ListDeviceSignaturesErrors(op, r) == DeviceIDErrors(op, r)
SignTransactionErrors(op, r) ==
  BodyErrors("SignTransactionRequest", r.body, SignTransactionRequest)
    \o DeviceIDErrors(op, r)
GetDeviceSignatureErrors(op, r) ==
  DeviceIDErrors(op, r) \o SignatureIDErrors(op, r)

BindRequestErrors(op, r) ==
  CASE op.id = "ListSignatureDevices"  -> ListSignatureDevicesErrors(op, r)
    [] op.id = "CreateSignatureDevice" -> CreateSignatureDeviceErrors(op, r)
    [] op.id = "GetSignatureDevice"    -> GetSignatureDeviceErrors(op, r)
    [] op.id = "ListDeviceSignatures"  -> ListDeviceSignaturesErrors(op, r)
    [] op.id = "SignTransaction"       -> SignTransactionErrors(op, r)
    [] op.id = "GetDeviceSignature"    -> GetDeviceSignatureErrors(op, r)

\* Context.BindValidRequest: the media type of a body first, whatever the
\* operation, then the consumer the router has for it.  A client that asks for
\* another media type than the one produced is given the one its body has, and
\* refused when it sent none.
BindErrors(op, r) ==
  IF r.body.kind # "none" /\ r.contentType # "application/json" THEN <<415>>
  ELSE IF r.body.kind # "none" /\ r.contentType \notin DOMAIN Api.consumers THEN <<500>>
  ELSE IF r.body.kind = "none" /\ r.accept # "application/json" THEN <<406>>
  ELSE BindRequestErrors(op, r)

\* What the handler is given once BindRequest has found no error.
Params(op, r) ==
  [given |-> TRUE,
   body |-> CASE op.body = "none" -> << >>
              [] op.body = "CreateSignatureDeviceRequest" ->
                   Decode(r.body.object, CreateSignatureDeviceRequest)
              [] op.body = "SignTransactionRequest" ->
                   Decode(r.body.object, SignTransactionRequest),
   ids |-> [name \in ParametersOf(op) |-> IDOf(op, name, r)]]
-----------------------------------------------------------------------------
(* The actions *)

Init ==
  /\ request \in Requests
  /\ left = Api.chain
  /\ entered = << >>
  /\ stage = "enter"
  /\ route = NoRoute
  /\ bound = NoParams
  /\ answer = NoAnswer
  /\ w = NewWriter
  /\ journal = [started |-> FALSE, finished |-> FALSE,
                status |-> 0, size |-> 0, body |-> << >>]

\* The next handler of the chain is entered.
At(name) == stage = "enter" /\ left # << >> /\ Head(left) = name
Push(name) == left' = Tail(left) /\ entered' = Append(entered, name)

\* An answer of those contents is to be written.
Writing(status, payload, size, by) ==
  /\ answer' = [status |-> status, payload |-> payload, size |-> size, by |-> by]
  /\ stage' = "header"

SetResponseHeader ==
  /\ At("SetResponseHeader")
  /\ Push("SetResponseHeader")
  /\ UNCHANGED <<request, stage, route, bound, answer, w, journal>>

RequestID(r) == IF r.requestID = "" THEN "generated" ELSE r.requestID

RequestIDHandler ==
  /\ At("requestid")
  /\ Push("requestid")
  /\ w' = SetHeader(w, "X-Request-ID", RequestID(request))
  /\ UNCHANGED <<request, stage, route, bound, answer, journal>>

\* The document and its UI answer their own path and hand on the others.
Static(name, path) ==
  /\ At(name)
  /\ Push(name)
  /\ IF Clean(request.path) = path
     THEN \E size \in Sizes : Writing(200, "text", size, "static")
     ELSE UNCHANGED <<stage, answer>>
  /\ UNCHANGED <<request, route, bound, w, journal>>

SpecDocument == Static("spec", <<"swagger.json">>)
SwaggerUI == Static("swaggerUI", <<"docs">>)

Router ==
  /\ At("router")
  /\ Push("router")
  /\ LET found == Routes(request.method, Clean(request.path))
         known == \E op \in Document : PathMatches(op.path, Clean(request.path))
     IN  IF found # {}
         THEN \E op \in found : route' = op /\ UNCHANGED <<stage, answer>>
         ELSE /\ \E size \in Sizes :
                   Writing(IF known THEN 405 ELSE 404, "text", size, "error")
              /\ UNCHANGED route
  /\ UNCHANGED <<request, bound, w, journal>>

LogHTTP ==
  /\ At("log_http")
  /\ Push("log_http")
  /\ journal' = [journal EXCEPT !.started = TRUE]
  /\ UNCHANGED <<request, stage, route, bound, answer, w>>

Recovery ==
  /\ At("Recovery")
  /\ Push("Recovery")
  /\ UNCHANGED <<request, stage, route, bound, answer, w, journal>>

\* ServeHTTP of the operation, until its handler is called.
Bind ==
  /\ At("executor")
  /\ Push("executor")
  /\ LET errors == BindErrors(route, request)
     IN  IF errors = << >>
         THEN /\ bound' = Params(route, request)
              /\ stage' = "handle"
              /\ UNCHANGED answer
         ELSE /\ \E size \in Sizes : Writing(Head(errors), "text", size, "error")
              /\ UNCHANGED bound
  /\ UNCHANGED <<request, route, w, journal>>

\* The handler returns a responder, or panics.
Handle ==
  /\ stage = "handle"
  /\ IF HandlerFor(Api, route.method, route.path) = "service"
     THEN \E responder \in Responders(route.id), size \in Sizes :
            \E payload \in Payloads(responder.payload, bound) :
              Writing(responder.status, payload, size, "service")
     ELSE \E size \in Sizes : Writing(501, "text", size, "notImplemented")
  /\ UNCHANGED <<request, left, entered, route, bound, w, journal>>

HandlerPanics ==
  /\ stage = "handle"
  /\ HandlerFor(Api, route.method, route.path) = "service"
  /\ stage' = "panicking"
  /\ UNCHANGED <<request, left, entered, route, bound, answer, w, journal>>

\* Mutated form of WriteStatus: Recovery writes its text without a status.
WriteStatusButRecovery ==
  /\ stage = "header"
  /\ w' = IF answer.by = "Recovery" THEN w
          ELSE WriteHeader(entered, SetHeader(w, "Content-Type", "set"), answer.status)
  /\ stage' = "body"
  /\ UNCHANGED <<request, left, entered, route, bound, answer, journal>>

\* Every answer but Recovery's has its media type set before its status.
WriteStatus ==
  /\ stage = "header"
  /\ w' = WriteHeader(entered,
            IF answer.by = "Recovery" THEN w ELSE SetHeader(w, "Content-Type", "set"),
            answer.status)
  /\ stage' = "body"
  /\ UNCHANGED <<request, left, entered, route, bound, answer, journal>>

\* A responder panics when its payload does not go out; the others pay no
\* heed to a failed write.
WriteBody ==
  /\ stage = "body"
  /\ \E n \in Accepted(w, answer.size) :
       /\ w' = Write(entered, w, Bytes(answer.by, answer.size), n)
       /\ stage' = IF n < answer.size /\ answer.by = "service"
                   THEN "panicking" ELSE "return"
  /\ UNCHANGED <<request, left, entered, route, bound, answer, journal>>

\* A panic drops the frames up to Recovery's, which answers 500; with no such
\* frame net/http ends the connection.
Unwind ==
  /\ stage = "panicking"
  /\ LET kept == SelectLastInSeq(entered, LAMBDA m : m = "Recovery")
     IN  /\ entered' = SubSeq(entered, 1, kept)
         /\ IF kept > 0
            THEN /\ \E size \in Sizes : Writing(500, "text", size, "Recovery")
                 /\ UNCHANGED w
            ELSE /\ stage' = "closed"
                 /\ w' = [w EXCEPT !.wire.broken = TRUE]
                 /\ UNCHANGED answer
  /\ UNCHANGED <<request, left, route, bound, journal>>

\* What log_http reports once the handlers inside it have returned.
Finish(wr, j) ==
  [j EXCEPT !.finished = TRUE,
            !.status = IF wr.log.status = 0 THEN 200 ELSE wr.log.status,
            !.size = wr.log.size,
            !.body = wr.log.body]

\* A frame returns to the one that called it.
Return ==
  /\ stage = "return"
  /\ entered' = Front(entered)
  /\ journal' = IF Last(entered) = "log_http" THEN Finish(w, journal) ELSE journal
  /\ stage' = IF Len(entered) = 1 THEN "closed" ELSE "return"
  /\ UNCHANGED <<request, left, route, bound, answer, w>>

\* Nothing is left to do.
Served == stage = "closed" /\ UNCHANGED vars

Next ==
  \/ SetResponseHeader \/ RequestIDHandler \/ SpecDocument \/ SwaggerUI \/ Router
  \/ LogHTTP \/ Recovery \/ Bind \/ Handle \/ HandlerPanics
  \/ WriteStatus \/ WriteBody \/ Unwind \/ Return \/ Served

Spec == Init /\ [][Next]_vars
-----------------------------------------------------------------------------
(* Properties *)

closed == stage = "closed"
Routed == route.id # None

\* What the document allows: a body that conforms to its schema, identifiers of
\* the pattern.
AcceptableBody(op, body) ==
  \/ op.body = "none"
  \/ body.kind = "object" /\ Conforms(body.object, RequestSchema(op.body))
AcceptableIDs(op, r) == \A name \in ParametersOf(op) : IDOf(op, name, r) \in UUIDPattern
Acceptable(op, r) == AcceptableBody(op, r.body) /\ AcceptableIDs(op, r)

\* An object without what the document forbids and the service lets pass: a
\* name the schema has not (additionalProperties: false) and an empty string
\* where the schema requires no value (minLength: 1 of the label).
Trimmed(object, schema) ==
  LET names == {name \in DOMAIN object \cap DOMAIN schema.properties :
                  object[name] # "" \/ name \in schema.required}
  IN  [name \in names |-> object[name]]

\* A body that conforms once it is trimmed; a request the document refuses for
\* nothing but what is trimmed.
TakenBody(op, body) ==
  \/ op.body = "none"
  \/ /\ body.kind = "object"
     /\ LET schema == RequestSchema(op.body)
        IN  Conforms(Trimmed(body.object, schema), schema)
Overlooked(op, r) ==
  TakenBody(op, r.body) /\ AcceptableIDs(op, r) /\ ~AcceptableBody(op, r.body)

Negotiated(r) ==
  IF r.body.kind = "none" THEN r.accept = "application/json"
                          ELSE r.contentType = "application/json"

\* A request that goes by a builder is what a caller makes of it: the method of
\* the operation, the path of the URL that was built, a body the operation takes.
MadeFrom(b, r) ==
  /\ b.op \in OperationIDs
  /\ IsPath(b.basePath) /\ IsPath(b.deviceId) /\ IsPath(b.signatureId)
  /\ r.method = OperationOf(b.op).method
  /\ BuildOf(b).ok /\ r.path = BuildOf(b).path
  /\ Negotiated(r) /\ AcceptableBody(OperationOf(b.op), r.body)

ASSUME BuiltAssumption ==
  \A r \in Requests : r.built # NoBuilder => MadeFrom(r.built, r)

\* The variables stay in their types, and the frames and what is left of the
\* chain are parts of the chain that ConfigureAPI has built.
TypeOK ==
  /\ request \in Requests
  /\ stage \in {"enter", "handle", "header", "body", "panicking", "return", "closed"}
  /\ IsPrefix(entered, Api.chain)
  /\ IsSuffix(left, Api.chain)
  /\ route.id \in OperationIDs \cup {None}
  /\ bound.given \in BOOLEAN
  /\ answer.status \in Nat /\ answer.size \in Sizes \cup {0}
  /\ answer.by \in {None, "static", "error", "service", "notImplemented", "Recovery"}
  /\ w.serverWritten \in BOOLEAN /\ w.wire.broken \in BOOLEAN
  /\ w.wire.status \in Nat /\ w.log.status \in Nat /\ w.log.size \in Nat
  /\ Len(w.log.body) <= maxLoggedBody

\* The line log_http writes at the end tells what the client was sent: the
\* status of the wire, the number of bytes net/http took, and of an error the
\* beginning of the text, although a panic may have written twice through
\* three writers.  The text of a broken answer is what was meant to be sent.
LogReportsAnswer ==
  journal.finished =>
    /\ journal.status = w.wire.status
    /\ journal.size = Len(w.wire.body)
    /\ ~w.wire.broken =>
         journal.body = IF journal.status >= 400
                        THEN SubSeq(w.wire.body, 1,
                                    Smaller(maxLoggedBody, Len(w.wire.body)))
                        ELSE << >>

\* A request that reaches an operation leaves both lines in the log, even when
\* its handler or its responder panics; the others leave none.
RoutedIsLogged ==
  closed => (journal.started <=> Routed) /\ (journal.started <=> journal.finished)

\* Every request is answered, and every answer, of the router, of the document
\* and of Recovery too, carries the server's name and the request's identifier.
AnswersCarryHeaders ==
  closed =>
    /\ w.wire.status # 0
    /\ "X-Server" \in DOMAIN w.wire.headers
    /\ "X-Request-ID" \in DOMAIN w.wire.headers
    /\ request.requestID # "" => w.wire.headers["X-Request-ID"] = request.requestID

\* A client that gets a whole answer gets one message only, under the status
\* that was meant for it: a failure is a 500 or a broken connection.
WholeAnswerIsOneMessage ==
  closed /\ ~w.wire.broken =>
    /\ w.wire.status = answer.status
    /\ w.wire.body = Bytes(answer.by, answer.size)

\* The code generated for the parameters and the models, and the checks of
\* go-openapi before it, against the document: a handler is given every request
\* the document allows and, of the others, exactly those whose body has a name
\* too many or an empty optional value, which nothing in the service refuses.
HandledIffAllowedOrOverlooked ==
  LET allowed == Acceptable(route, request) \/ Overlooked(route, request)
  IN  /\ bound.given => Negotiated(request) /\ allowed
      /\ closed /\ Routed /\ Negotiated(request) /\ allowed => bound.given

\* A request that was bound is answered by the service exactly when Run has
\* assigned a handler for its operation.
ServedByService ==
  closed /\ bound.given => (answer.by = "notImplemented" <=> route.id \notin Wired)

\* What a handler answers is in the document: the status is one of the
\* operation's and the payload conforms to the schema of that status.
HandlerAnswersConform ==
  answer.by = "service" =>
    /\ answer.status \in DOMAIN route.responses
    /\ AnswerConforms(answer.payload, route.responses[answer.status])

\* README.md, items 7, 8, 9 and 17 of the manual checks: input the document
\* does not allow is answered with 400.
InvalidInputIs400 ==
  closed /\ Routed /\ Negotiated(request) /\ ~Acceptable(route, request)
    => w.wire.status = 400

\* A client that sends what the generated Validate refuses is told so, but one
\* that validates what it receives refuses answers the document allows, and
\* exactly those in which a required value is the zero value of its type.
RefusedOnlyForZeros ==
  answer.by = "service" =>
    LET kind  == route.responses[answer.status]
        zero(item) == \E name \in DOMAIN item : item[name] \in {ZeroString, ZeroInt64}
    IN  ValidateAnswer(answer.payload, kind) <=>
          CASE kind = "string" -> TRUE
            [] kind \in {"SignatureDeviceListResponse", "SignatureListResponse"} ->
                 \A i \in DOMAIN answer.payload : ~zero(answer.payload[i])
            [] OTHER -> ~zero(answer.payload)

\* A request whose URL a builder has made from identifiers the document allows
\* reaches the builder's own operation, and its handler is given the same
\* identifiers: paths, router and binding are written by different hands.
BuiltUrlRoutesBack ==
  LET b == request.built
  IN  /\ closed /\ b # NoBuilder
      /\ Join(b.basePath, << >>) = << >>
      /\ \A name \in DOMAIN Values(b) : Allowed(Values(b)[name])
      => /\ route = OperationOf(b.op)
         /\ bound.given
         /\ bound.ids = [name \in DOMAIN Values(b) |-> Values(b)[name][1]]
=============================================================================
