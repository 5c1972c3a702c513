---------------------------- MODULE UrlBuilders ----------------------------
(***************************************************************************)
(* The URL builders generated beside the operations: a caller fills a      *)
(* builder in and asks it for the URL of the operation.  A path is a       *)
(* sequence of segments; an identifier is any string, so it may hold       *)
(* several segments or the text of a placeholder.                          *)
(***************************************************************************)
EXTENDS ApiDocument, SequencesExt

IsPath(path) == path \in Seq(Range(path))
Empty == <<"">>     \* the empty string, which is one segment
NoUrl == [ok |-> FALSE, scheme |-> "", host |-> "", path |-> << >>]

\* A builder as its fields and SetBasePath leave it; an empty base path counts
\* as "/".
Builder(op, basePath, deviceId, signatureId) ==
  [op |-> op, basePath |-> basePath, deviceId |-> deviceId, signatureId |-> signatureId]

Url(path) == [ok |-> TRUE, scheme |-> "", host |-> "", path |-> path]

\* path.Join: the segments that say nothing are dropped and ".." goes up.
Join(base, path) ==
  FoldLeft(LAMBDA done, segment :
             CASE segment \in {"", "."} -> done
               [] segment = ".."        -> IF done = << >> THEN << >> ELSE Front(done)
               [] OTHER                 -> Append(done, segment),
           << >>, base \o path)

\* path.Clean, which go-openapi applies to the path of a request.
Clean(path) == Join(<< >>, path)

\* strings.ReplaceAll on whole segments.
ReplaceSegments(path, name, id) ==
  FlattenSeq([i \in DOMAIN path |-> IF path[i] = name THEN id ELSE <<path[i]>>])

\* The path of a template with the identifiers of a builder, in the order of
\* the calls: the second also sees what the first has put in.
WithDeviceID(b, path) == ReplaceSegments(path, "{deviceId}", b.deviceId)
WithSignatureID(b, path) == ReplaceSegments(path, "{signatureId}", b.signatureId)

\* Build, by operation: an identifier that is empty is refused.
ListSignatureDevicesURL(b) == Url(Join(b.basePath, <<"devices">>))

CreateSignatureDeviceURL(b) == Url(Join(b.basePath, <<"devices">>))

GetSignatureDeviceURL(b) ==
  IF b.deviceId = Empty THEN NoUrl
  ELSE Url(Join(b.basePath, WithDeviceID(b, <<"devices", "{deviceId}">>)))

ListDeviceSignaturesURL(b) ==
  IF b.deviceId = Empty THEN NoUrl
  ELSE Url(Join(b.basePath, WithDeviceID(b, <<"devices", "{deviceId}", "signatures">>)))

SignTransactionURL(b) ==
  IF b.deviceId = Empty THEN NoUrl
  ELSE Url(Join(b.basePath, WithDeviceID(b, <<"devices", "{deviceId}", "signatures">>)))

\* Mutated form of the next: the identifiers change places.
GetDeviceSignatureURLSwapped(b) ==
  IF Empty \in {b.deviceId, b.signatureId} THEN NoUrl
  ELSE Url(Join(b.basePath, WithSignatureID(b, WithDeviceID(b,
         <<"devices", "{signatureId}", "signatures", "{deviceId}">>))))
GetDeviceSignatureURL(b) ==
  IF Empty \in {b.deviceId, b.signatureId} THEN NoUrl
  ELSE Url(Join(b.basePath, WithSignatureID(b, WithDeviceID(b,
         <<"devices", "{deviceId}", "signatures", "{signatureId}">>))))

BuildOf(b) ==
  CASE b.op = "ListSignatureDevices"  -> ListSignatureDevicesURL(b)
    [] b.op = "CreateSignatureDevice" -> CreateSignatureDeviceURL(b)
    [] b.op = "GetSignatureDevice"    -> GetSignatureDeviceURL(b)
    [] b.op = "ListDeviceSignatures"  -> ListDeviceSignaturesURL(b)
    [] b.op = "SignTransaction"       -> SignTransactionURL(b)
    [] b.op = "GetDeviceSignature"    -> GetDeviceSignatureURL(b)

\* BuildFull: the URL of Build with a scheme and a host, both required.
BuildFullOf(b, scheme, host) ==
  IF "" \in {scheme, host} \/ ~BuildOf(b).ok THEN NoUrl
  ELSE [BuildOf(b) EXCEPT !.scheme = scheme, !.host = host]
-----------------------------------------------------------------------------
\* The identifiers the document allows are one segment each.
Allowed(id) == Len(id) = 1 /\ id[1] \in UUIDPattern

\* The values a builder holds for the parameters of its operation.
Values(b) ==
  LET names == ParametersOf(OperationOf(b.op))
  IN  [name \in names |-> IF name = "{deviceId}" THEN b.deviceId ELSE b.signatureId]
=============================================================================
