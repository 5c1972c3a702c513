-------------------------- MODULE MCRequestPipeline --------------------------
(***************************************************************************)
(* Values of the constants of RequestPipeline for TLC: the requests.       *)
(***************************************************************************)
EXTENDS RequestPipeline

Json == "application/json"
Body(kind) == [kind |-> kind, object |-> << >>]
Object(object) == [kind |-> "object", object |-> object]

\* The objects with some of these names and values.
Objects(values) ==
  UNION {[names -> Strings \cup Integers64] : names \in SUBSET DOMAIN values}
ObjectsWith(values) ==
  {object \in Objects(values) : \A name \in DOMAIN object : object[name] \in values[name]}

CreateObjects ==
  ObjectsWith([id |-> {"", "uuid4", "uuid7", "text"},
               algorithm |-> {"", "ECC", "RSA", "text"},
               label |-> {"", "text", "1"}])
    \cup {[id |-> "uuid4", algorithm |-> "ECC", other |-> "text"]}
SignObjects ==
  ObjectsWith([data |-> {"", "text", "1"}])
    \cup {[data |-> "text", other |-> "1"]}

NoObject == {Body("none"), Body("blank"), Body("malformed")}

Ids == {"uuid4", "uuid7", "text"}
DevicePaths == {<<"devices", id>> : id \in Ids}
SignaturesPaths == {<<"devices", id, "signatures">> : id \in Ids}
SignaturePaths == {<<"devices", id, "signatures", sig>> : id \in Ids, sig \in Ids}
\* What is no path of the document, and what path.Clean makes one of.
OtherPaths ==
  {<<"swagger.json">>, <<"docs">>, <<"text">>, <<"docs", "">>, <<"devices", "">>,
   <<"devices", "uuid4", "..">>, <<"devices", "", "uuid4">>, <<"..", "swagger.json">>}

Request(methods, paths, accepts, types, bodies) ==
  [method : methods, path : paths, requestID : {"", "client"}, accept : accepts,
   contentType : types, body : bodies,
   built : {NoBuilder}]

\* Builders filled with identifiers of one segment and of several, the empty
\* one, and those path.Join or a second replacement reads in its own way.
IDStrings ==
  {Empty, <<"uuid4">>, <<"uuid5">>, <<"..">>, <<"text", "..">>, <<"{signatureId}">>}
Builders ==
  {Builder(id, base, dev, sig) :
     id \in OperationIDs, base \in {<< >>, <<"v1">>, <<"v1", "..">>},
     dev \in IDStrings, sig \in IDStrings}
BodyFor(op) ==
  CASE op.body = "none" -> Body("none")
    [] op.body = "CreateSignatureDeviceRequest" ->
         Object([id |-> "uuid4", algorithm |-> "RSA"])
    [] op.body = "SignTransactionRequest" -> Object([data |-> "text"])
BuiltRequest(b) ==
  [method |-> OperationOf(b.op).method, path |-> BuildFullOf(b, "http", "host").path,
   requestID |-> "", accept |-> Json, contentType |-> Json,
   body |-> BodyFor(OperationOf(b.op)), built |-> b]
\* What is left empty is what the operation does not have, or makes an error.
Needed(b) ==
  /\ "{deviceId}" \notin ParametersOf(OperationOf(b.op)) => b.deviceId = Empty
  /\ "{signatureId}" \notin ParametersOf(OperationOf(b.op)) => b.signatureId = Empty
BuiltRequests ==
  {BuiltRequest(b) : b \in {c \in Builders : Needed(c) /\ BuildFullOf(c, "http", "host").ok}}

\* Every operation with the bodies it takes, well and badly negotiated, and
\* what no operation serves.
AllRequests ==
  Request({"POST"}, {<<"devices">>}, {Json}, {Json},
          NoObject \cup {Object(o) : o \in CreateObjects})
  \cup Request({"POST"}, SignaturesPaths, {Json}, {Json},
               NoObject \cup {Object(o) : o \in SignObjects})
  \cup Request({"GET"}, {<<"devices">>} \cup DevicePaths \cup SignaturesPaths
                 \cup SignaturePaths \cup OtherPaths, {Json}, {Json}, {Body("none")})
  \cup Request({"GET", "POST"}, {<<"devices">>}, {Json, "text/plain"},
               {Json, "text/plain"}, NoObject \cup {Object([id |-> "uuid4", algorithm |-> "ECC"])})
  \cup Request({"DELETE"}, {<<"devices">>} \cup DevicePaths, {Json}, {Json},
               {Body("none")})
  \cup BuiltRequests

\* What the finding needs: one device, valid but for a field.
FewRequests ==
  Request({"POST"}, {<<"devices">>}, {Json}, {Json},
          {Object([id |-> "uuid4", algorithm |-> "ECC", label |-> "text"]),
           Object([id |-> "uuid4", algorithm |-> "text"])})
  \cup Request({"GET"}, DevicePaths, {Json}, {Json}, {Body("none")})
=============================================================================
