---------------------------- MODULE ApiDocument ----------------------------
(***************************************************************************)
(* The OpenAPI document that Run loads (SwaggerJSON): the operations with  *)
(* their methods, paths and answers, and the schemas of what is sent and   *)
(* answered.  A string is known by what the document can tell of it, an    *)
(* integer by whether it is zero; a JSON object is a function from the     *)
(* names it holds to such values.                                          *)
(***************************************************************************)
EXTENDS Naturals, Sequences

\* "uuid4" and "uuid5" stand for the UUIDs of versions 1 to 5, which the
\* pattern of the document allows, "uuid7" for the later ones, "text" for any
\* other string.
Strings == {"", "text", "ECC", "RSA", "uuid4", "uuid5", "uuid7"}
Integers64 == {"0", "1"}
UUIDPattern == {"uuid4", "uuid5"}
UUIDs == UUIDPattern \cup {"uuid7"}

\* A parameter is a segment of a path template.
PathParameters == {"{deviceId}", "{signatureId}"}

Operation(id, method, path, body, responses) ==
  [id |-> id, method |-> method, path |-> path, body |-> body,
   responses |-> responses]

\* The answers of an operation: a model under its status, errors under theirs.
Answers(status, model, errors) ==
  [s \in {status} \cup errors |-> IF s = status THEN model ELSE "string"]

DevicesPath ==
  {Operation("ListSignatureDevices", "GET", <<"devices">>, "none",
     Answers(200, "SignatureDeviceListResponse", {500})),
   Operation("CreateSignatureDevice", "POST", <<"devices">>,
     "CreateSignatureDeviceRequest",
     Answers(201, "SignatureDeviceResponse", {400, 409, 500}))}

DevicePath ==
  {Operation("GetSignatureDevice", "GET", <<"devices", "{deviceId}">>, "none",
     Answers(200, "SignatureDevice", {404, 500}))}

SignaturesPath ==
  {Operation("ListDeviceSignatures", "GET",
     <<"devices", "{deviceId}", "signatures">>, "none",
     Answers(200, "SignatureListResponse", {404, 500})),
   Operation("SignTransaction", "POST",
     <<"devices", "{deviceId}", "signatures">>, "SignTransactionRequest",
     Answers(201, "SignatureResponse", {400, 404, 500}))}

SignaturePath ==
  {Operation("GetDeviceSignature", "GET",
     <<"devices", "{deviceId}", "signatures", "{signatureId}">>, "none",
     Answers(200, "Signature", {404, 500}))}

Document == DevicesPath \cup DevicePath \cup SignaturesPath \cup SignaturePath
OperationIDs == {op.id : op \in Document}
OperationOf(id) == CHOOSE op \in Document : op.id = id
-----------------------------------------------------------------------------
\* A schema: the names an object must hold, and what each name it may hold
\* stands for.  No schema allows additional properties.
Schema(required, properties) == [required |-> required, properties |-> properties]

CreateSignatureDeviceRequestSchema ==
  Schema({"id", "algorithm"},
         [algorithm |-> {"ECC", "RSA"},
          id        |-> UUIDs \cap UUIDPattern,
          label     |-> Strings \ {""}])

SignTransactionRequestSchema == Schema({"data"}, [data |-> Strings \ {""}])

SignatureSchema ==
  Schema({"id", "device_id", "counter", "signature", "signed_data"},
         [counter |-> Integers64, device_id |-> UUIDs, id |-> UUIDs,
          signature |-> Strings, signed_data |-> Strings])

SignatureDeviceSchema ==
  Schema({"id", "algorithm", "label", "signature_counter", "last_signature",
          "public_key_pem"},
         [algorithm |-> {"ECC", "RSA"}, id |-> UUIDs, label |-> Strings,
          last_signature |-> Strings, public_key_pem |-> Strings,
          signature_counter |-> Integers64])

SignatureDeviceResponseSchema ==
  Schema({"id", "public_key_pem"}, [id |-> UUIDs, public_key_pem |-> Strings])

SignatureResponseSchema ==
  Schema({"signature", "signed_data"}, [signature |-> Strings, signed_data |-> Strings])

\* The two list responses: the schema of an item.
SignatureDeviceListItems == SignatureDeviceSchema
SignatureListItems == SignatureSchema

\* An object conforms to a schema.
Conforms(object, schema) ==
  /\ schema.required \subseteq DOMAIN object
  /\ DOMAIN object \subseteq DOMAIN schema.properties
  /\ \A name \in DOMAIN object : object[name] \in schema.properties[name]

RequestSchema(name) ==
  CASE name = "CreateSignatureDeviceRequest" -> CreateSignatureDeviceRequestSchema
    [] name = "SignTransactionRequest"       -> SignTransactionRequestSchema

\* A body, as a sequence of objects where the schema is a list, conforms to the
\* schema of that name; an error is any string.
AnswerConforms(body, name) ==
  CASE name = "string" -> body \in Strings
    [] name = "Signature" -> Conforms(body, SignatureSchema)
    [] name = "SignatureDevice" -> Conforms(body, SignatureDeviceSchema)
    [] name = "SignatureDeviceResponse" -> Conforms(body, SignatureDeviceResponseSchema)
    [] name = "SignatureResponse" -> Conforms(body, SignatureResponseSchema)
    [] name = "SignatureDeviceListResponse" ->
         \A i \in DOMAIN body : Conforms(body[i], SignatureDeviceListItems)
    [] name = "SignatureListResponse" ->
         \A i \in DOMAIN body : Conforms(body[i], SignatureListItems)
-----------------------------------------------------------------------------
\* The generated router: the operations whose path template a path matches.
\* The path is a clean one; a parameter stands for any one segment of it.
PathMatches(template, path) ==
  /\ Len(template) = Len(path)
  /\ \A i \in DOMAIN template : template[i] \in PathParameters \/ template[i] = path[i]

Routes(method, path) ==
  {op \in Document : op.method = method /\ PathMatches(op.path, path)}

\* The value the route gives a parameter.
ParameterValue(op, name, path) ==
  path[CHOOSE i \in DOMAIN op.path : op.path[i] = name]
ParametersOf(op) == {op.path[i] : i \in DOMAIN op.path} \cap PathParameters
=============================================================================
