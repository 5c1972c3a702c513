----------------------------- MODULE ApiModels ------------------------------
(***************************************************************************)
(* The generated models: how a JSON object becomes a Go struct, what each  *)
(* model's Validate accepts, and what a struct becomes when it is sent.    *)
(* Validation errors are collected, so Validate succeeds when every field  *)
(* does.                                                                   *)
(***************************************************************************)
EXTENDS ApiDocument

\* The zero values of Go's string and int64.
ZeroString == ""
ZeroInt64 == "0"

\* go-openapi/validate: Required compares with the zero value of the type.
Required(value) == value \notin {ZeroString, ZeroInt64}
RequiredString(value) == value # ZeroString
MinLengthOne(value) == value # ""
MatchesPattern(value) == value \in UUIDPattern
IsUUID(value) == value \in UUIDs

AlgorithmEnum == {"ECC", "RSA"}

\* The two request structs before anything is decoded into them.
CreateSignatureDeviceRequest ==
  [algorithm |-> ZeroString, id |-> ZeroString, label |-> ZeroString]
SignTransactionRequest == [data |-> ZeroString]

\* Decoding: every field is a string, what the object does not hold keeps its
\* zero value, what the struct does not hold is ignored.  (encoding/json also
\* takes a name in another case; names are written here as in the document.)
CanDecode(object, struct) ==
  \A name \in DOMAIN object \cap DOMAIN struct : object[name] \in Strings
Decode(object, struct) ==
  [name \in DOMAIN struct |-> IF name \in DOMAIN object THEN object[name] ELSE struct[name]]

ValidateAlgorithm(value) == RequiredString(value) /\ value \in AlgorithmEnum

\* Mutated form of the next: the format without the pattern.
ValidateNewIDByFormat(value) == Required(value) /\ IsUUID(value)

ValidateNewID(value) == Required(value) /\ MatchesPattern(value) /\ IsUUID(value)
\* An absent label and an empty one are the same zero value.
ValidateNewLabel(value) == value # ZeroString => MinLengthOne(value)

ValidateCreateSignatureDeviceRequest(m) ==
  /\ ValidateAlgorithm(m.algorithm)
  /\ ValidateNewID(m.id)
  /\ ValidateNewLabel(m.label)

ValidateSignTransactionRequest(m) == RequiredString(m.data) /\ MinLengthOne(m.data)

ValidateID(value) == Required(value) /\ IsUUID(value)

\* Mutated form of the next: a counter of zero is no missing one.
ValidateSignatureDeviceNoCounter(m) ==
  /\ ValidateAlgorithm(m.algorithm)
  /\ ValidateID(m.id)
  /\ RequiredString(m.label)
  /\ RequiredString(m.last_signature)
  /\ RequiredString(m.public_key_pem)

ValidateSignatureDevice(m) ==
  /\ ValidateAlgorithm(m.algorithm)
  /\ ValidateID(m.id)
  /\ RequiredString(m.label)
  /\ RequiredString(m.last_signature)
  /\ RequiredString(m.public_key_pem)
  /\ Required(m.signature_counter)

ValidateSignature(m) ==
  /\ Required(m.counter)
  /\ ValidateID(m.device_id)
  /\ ValidateID(m.id)
  /\ RequiredString(m.signature)
  /\ RequiredString(m.signed_data)

ValidateSignatureDeviceResponse(m) ==
  ValidateID(m.id) /\ RequiredString(m.public_key_pem)

ValidateSignatureResponse(m) ==
  RequiredString(m.signature) /\ RequiredString(m.signed_data)

\* The lists are made with make, so that items is never nil.
ValidateSignatureDeviceListResponse(items) ==
  \A i \in DOMAIN items : ValidateSignatureDevice(items[i])
ValidateSignatureListResponse(items) ==
  \A i \in DOMAIN items : ValidateSignature(items[i])

ValidateRequest(name, m) ==
  CASE name = "CreateSignatureDeviceRequest" -> ValidateCreateSignatureDeviceRequest(m)
    [] name = "SignTransactionRequest"       -> ValidateSignTransactionRequest(m)

ValidateAnswer(body, name) ==
  CASE name = "string" -> TRUE
    [] name = "Signature" -> ValidateSignature(body)
    [] name = "SignatureDevice" -> ValidateSignatureDevice(body)
    [] name = "SignatureDeviceResponse" -> ValidateSignatureDeviceResponse(body)
    [] name = "SignatureResponse" -> ValidateSignatureResponse(body)
    [] name = "SignatureDeviceListResponse" -> ValidateSignatureDeviceListResponse(body)
    [] name = "SignatureListResponse" -> ValidateSignatureListResponse(body)
=============================================================================
