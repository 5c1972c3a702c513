------------------------ MODULE RequestPipelineProofs ------------------------
(*****************************************************************************)
(* What one request meets in the chain that Run has built: the chain as a    *)
(* value, where a request can stand in it, who answers it, what the three    *)
(* writers hold and what the log says of it; then what the document and the  *)
(* generated code make of the same input and the same answer.                *)
(*****************************************************************************)
EXTENDS RequestPipeline, WellFoundedInduction, TLAPS

(* The chain that Run has built                                              *)

\* Two middlewares wrap a handler, the first one outermost.
LEMMA UseTwo ==
  ASSUME NEW T, NEW m \in Seq(T), Len(m) = 2, NEW h
  PROVE  Use(m, h) = <<m[1]>> \o (<<m[2]>> \o h)
<1> DEFINE F(iter) == [s \in SUBSET DOMAIN m |->
                         IF s = {} THEN h
                         ELSE LET x == Min(s) IN <<m[x]>> \o iter[s \ {x}]]
           iter == CHOOSE g : g = F(g)
           one == <<m[1]>> \o h
           two == <<m[2]>> \o h
           both == <<m[1]>> \o (<<m[2]>> \o h)
           g == [s \in SUBSET DOMAIN m |->
                   IF s = {} THEN h
                   ELSE IF s = {1} THEN one ELSE IF s = {2} THEN two ELSE both]
<1>1. Use(m, h) = iter[DOMAIN m]
  BY DEF Use, FoldRight, MapThenFoldSet
<1>2. DOMAIN m = {1, 2}
  OBVIOUS
<1>3. Min({1}) = 1 /\ Min({2}) = 2 /\ Min({1, 2}) = 1
  BY DEF Min
<1>4. g = F(g)
  <2>1. ASSUME NEW s \in SUBSET DOMAIN m PROVE g[s] = F(g)[s]
    <3>0. s \in {{}, {1}, {2}, {1, 2}}
      BY <1>2
    <3>1. CASE s = {}
      BY <3>1
    <3>2. CASE s = {1}
      <4>1. g[s \ {1}] = h
        BY <3>2
      <4> QED
        BY <1>3, <3>2, <4>1
    <3>3. CASE s = {2}
      <4>1. g[s \ {2}] = h
        BY <3>3
      <4> QED
        BY <1>3, <3>3, <4>1
    <3>4. CASE s = {1, 2}
      <4>1. s \ {1} = {2} /\ {2} \in SUBSET DOMAIN m
        BY <1>2, <3>4
      <4>2. g[{2}] = two
        BY <4>1
      <4>3. s # {} /\ s # {1} /\ s # {2}
        BY <3>4, SMTT(30)
      <4>4. g[s] = both
        BY <4>3
      <4> QED
        BY <1>3, <3>4, <4>1, <4>2, <4>4
    <3> QED
      BY <3>0, <3>1, <3>2, <3>3, <3>4
  <2> QED
    BY <2>1
<1>5. iter = F(iter)
  BY <1>4
<1> HIDE DEF iter
<1>6. {1, 2} \ {1} = {2} /\ {2} \ {2} = {} /\ {2} \in SUBSET DOMAIN m
  BY <1>2
<1>7. iter[{}] = h
  BY <1>5
<1>8. iter[{2}] = two
  BY <1>3, <1>5, <1>6, <1>7
<1>9. iter[{1, 2}] = both
  <2>1. {1, 2} \in SUBSET DOMAIN m /\ {1, 2} # {}
    BY <1>2
  <2>2. iter[{1, 2}] = <<m[1]>> \o iter[{1, 2} \ {1}]
    BY <1>3, <1>5, <2>1
  <2> QED
    BY <1>6, <1>8, <2>2
<1> QED
  BY <1>1, <1>2, <1>9

\* The operations of the document, one by one.
IsOperation(op, id, method, path, body, responses) ==
  /\ op.id = id /\ op.method = method /\ op.path = path
  /\ op.body = body /\ op.responses = responses
IsListSignatureDevices(op) ==
  IsOperation(op, "ListSignatureDevices", "GET", <<"devices">>, "none",
    Answers(200, "SignatureDeviceListResponse", {500}))
IsCreateSignatureDevice(op) ==
  IsOperation(op, "CreateSignatureDevice", "POST", <<"devices">>, "CreateSignatureDeviceRequest",
    Answers(201, "SignatureDeviceResponse", {400, 409, 500}))
IsGetSignatureDevice(op) ==
  IsOperation(op, "GetSignatureDevice", "GET", <<"devices", "{deviceId}">>, "none",
    Answers(200, "SignatureDevice", {404, 500}))
IsListDeviceSignatures(op) ==
  IsOperation(op, "ListDeviceSignatures", "GET", <<"devices", "{deviceId}", "signatures">>, "none",
    Answers(200, "SignatureListResponse", {404, 500}))
IsSignTransaction(op) ==
  IsOperation(op, "SignTransaction", "POST", <<"devices", "{deviceId}", "signatures">>,
    "SignTransactionRequest",
    Answers(201, "SignatureResponse", {400, 404, 500}))
IsGetDeviceSignature(op) ==
  IsOperation(op, "GetDeviceSignature", "GET",
    <<"devices", "{deviceId}", "signatures", "{signatureId}">>, "none",
    Answers(200, "Signature", {404, 500}))

LEMMA DocumentOperations ==
  ASSUME NEW op \in Document
  PROVE  \/ IsListSignatureDevices(op)
         \/ IsCreateSignatureDevice(op)
         \/ IsGetSignatureDevice(op)
         \/ IsListDeviceSignatures(op)
         \/ IsSignTransaction(op)
         \/ IsGetDeviceSignature(op)
<1>1. op \in DevicesPath \/ op \in DevicePath \/ op \in SignaturesPath \/ op \in SignaturePath
  BY DEF Document
<1>2. CASE op \in DevicesPath
  <2>1. \/ op = Operation("ListSignatureDevices", "GET", <<"devices">>, "none",
               Answers(200, "SignatureDeviceListResponse", {500}))
        \/ op = Operation("CreateSignatureDevice", "POST", <<"devices">>, "CreateSignatureDeviceRequest",
               Answers(201, "SignatureDeviceResponse", {400, 409, 500}))
    BY <1>2 DEF DevicesPath
  <2>2. CASE op = Operation("ListSignatureDevices", "GET", <<"devices">>, "none",
               Answers(200, "SignatureDeviceListResponse", {500}))
    <3>1. IsListSignatureDevices(op)
      BY <2>2 DEF IsListSignatureDevices, IsOperation, Operation
    <3> QED
      BY <3>1
  <2>3. CASE op = Operation("CreateSignatureDevice", "POST", <<"devices">>, "CreateSignatureDeviceRequest",
               Answers(201, "SignatureDeviceResponse", {400, 409, 500}))
    <3>1. IsCreateSignatureDevice(op)
      BY <2>3 DEF IsCreateSignatureDevice, IsOperation, Operation
    <3> QED
      BY <3>1
  <2> QED
    BY <2>1, <2>2, <2>3, ZenonT(60)
<1>3. CASE op \in DevicePath
  <2>1. op = Operation("GetSignatureDevice", "GET", <<"devices", "{deviceId}">>, "none",
               Answers(200, "SignatureDevice", {404, 500}))
    BY <1>3, ZenonT(60) DEF DevicePath
  <2>2. CASE op = Operation("GetSignatureDevice", "GET", <<"devices", "{deviceId}">>, "none",
               Answers(200, "SignatureDevice", {404, 500}))
    <3>1. IsGetSignatureDevice(op)
      BY <2>2 DEF IsGetSignatureDevice, IsOperation, Operation
    <3> QED
      BY <3>1
  <2> QED
    BY <2>1, <2>2, Zenon
<1>4. CASE op \in SignaturesPath
  <2>1. \/ op = Operation("ListDeviceSignatures", "GET", <<"devices", "{deviceId}", "signatures">>, "none",
               Answers(200, "SignatureListResponse", {404, 500}))
        \/ op = Operation("SignTransaction", "POST", <<"devices", "{deviceId}", "signatures">>,
               "SignTransactionRequest",
               Answers(201, "SignatureResponse", {400, 404, 500}))
    BY <1>4, ZenonT(60) DEF SignaturesPath
  <2>2. CASE op = Operation("ListDeviceSignatures", "GET", <<"devices", "{deviceId}", "signatures">>, "none",
               Answers(200, "SignatureListResponse", {404, 500}))
    <3>1. IsListDeviceSignatures(op)
      BY <2>2 DEF IsListDeviceSignatures, IsOperation, Operation
    <3> QED
      BY <3>1
  <2>3. CASE op = Operation("SignTransaction", "POST", <<"devices", "{deviceId}", "signatures">>,
               "SignTransactionRequest",
               Answers(201, "SignatureResponse", {400, 404, 500}))
    <3>1. IsSignTransaction(op)
      BY <2>3 DEF IsSignTransaction, IsOperation, Operation
    <3> QED
      BY <3>1
  <2> QED
    BY <2>1, <2>2, <2>3, ZenonT(60)
<1>5. CASE op \in SignaturePath
  <2>1. op = Operation("GetDeviceSignature", "GET",
               <<"devices", "{deviceId}", "signatures", "{signatureId}">>, "none",
               Answers(200, "Signature", {404, 500}))
    BY <1>5, ZenonT(60) DEF SignaturePath
  <2>2. CASE op = Operation("GetDeviceSignature", "GET",
               <<"devices", "{deviceId}", "signatures", "{signatureId}">>, "none",
               Answers(200, "Signature", {404, 500}))
    <3>1. IsGetDeviceSignature(op)
      BY <2>2 DEF IsGetDeviceSignature, IsOperation, Operation
    <3> QED
      BY <3>1
  <2> QED
    BY <2>1, <2>2, Zenon
<1> QED
  BY <1>1, <1>2, <1>3, <1>4, <1>5

LEMMA DocumentIDs ==
  ASSUME NEW op \in Document
  PROVE  op.id \in {"ListSignatureDevices", "CreateSignatureDevice", "GetSignatureDevice",
                    "ListDeviceSignatures", "SignTransaction", "GetDeviceSignature"}
<1>1. IsListSignatureDevices(op) => op.id = "ListSignatureDevices"
  BY DEF IsListSignatureDevices, IsOperation
<1>2. IsCreateSignatureDevice(op) => op.id = "CreateSignatureDevice"
  BY DEF IsCreateSignatureDevice, IsOperation
<1>3. IsGetSignatureDevice(op) => op.id = "GetSignatureDevice"
  BY DEF IsGetSignatureDevice, IsOperation
<1>4. IsListDeviceSignatures(op) => op.id = "ListDeviceSignatures"
  BY DEF IsListDeviceSignatures, IsOperation
<1>5. IsSignTransaction(op) => op.id = "SignTransaction"
  BY DEF IsSignTransaction, IsOperation
<1>6. IsGetDeviceSignature(op) => op.id = "GetDeviceSignature"
  BY DEF IsGetDeviceSignature, IsOperation
<1> QED
  BY <1>1, <1>2, <1>3, <1>4, <1>5, <1>6, DocumentOperations

Frames == {"SetResponseHeader", "requestid", "spec", "swaggerUI", "router",
           "log_http", "Recovery", "executor"}

LEMMA Prepended ==
  ASSUME NEW T, NEW x \in T, NEW s \in Seq(T)
  PROVE  /\ <<x>> \o s \in Seq(T)
         /\ Len(<<x>> \o s) = Len(s) + 1
         /\ (<<x>> \o s)[1] = x
         /\ \A i \in 1..Len(s) : (<<x>> \o s)[i + 1] = s[i]
OBVIOUS

LEMMA Concatenated ==
  ASSUME NEW T, NEW s \in Seq(T), NEW t \in Seq(T)
  PROVE  /\ s \o t \in Seq(T)
         /\ Len(s \o t) = Len(s) + Len(t)
         /\ \A i \in 1..Len(s) : (s \o t)[i] = s[i]
         /\ \A i \in 1..Len(t) : (s \o t)[i + Len(s)] = t[i]
OBVIOUS

LEMMA UsedTwo ==
  ASSUME NEW m \in Seq(Frames), Len(m) = 2, NEW s \in Seq(Frames)
  PROVE  /\ Use(m, s) \in Seq(Frames)
         /\ Len(Use(m, s)) = Len(s) + 2
         /\ Use(m, s)[1] = m[1] /\ Use(m, s)[2] = m[2]
         /\ \A i \in 1..Len(s) : Use(m, s)[i + 2] = s[i]
<1>0. m[1] \in Frames /\ m[2] \in Frames
  <2>1. \A i \in 1..Len(m) : m[i] \in Frames
    OBVIOUS
  <2>2. 1 \in 1..Len(m) /\ 2 \in 1..Len(m)
    OBVIOUS
  <2> QED
    BY <2>1, <2>2
<1>1. PICK t : t = <<m[2]>> \o s
  OBVIOUS
<1>2. /\ t \in Seq(Frames) /\ Len(t) = Len(s) + 1 /\ t[1] = m[2]
      /\ \A i \in 1..Len(s) : t[i + 1] = s[i]
  BY <1>0, <1>1, Prepended
<1>3. PICK u : u = <<m[1]>> \o t
  OBVIOUS
<1>4. Use(m, s) = u
  BY <1>1, <1>3, UseTwo
<1>5. /\ u \in Seq(Frames) /\ Len(u) = Len(t) + 1 /\ u[1] = m[1]
      /\ \A i \in 1..Len(t) : u[i + 1] = t[i]
  BY <1>0, <1>2, <1>3, Prepended
<1>6. \A i \in 1..Len(s) : u[i + 2] = s[i]
  BY <1>2, <1>5, SMTT(30)
<1>7. u[2] = m[2]
  <2>1. 1 \in 1..Len(t)
    BY <1>2
  <2>2. u[1 + 1] = t[1]
    BY <1>5, <2>1
  <2> QED
    BY <1>2, <2>2
<1>8. Len(u) = Len(s) + 2
  BY <1>2, <1>5
<1> QED
  BY <1>4, <1>5, <1>6, <1>7, <1>8

LEMMA Pair ==
  ASSUME NEW T, NEW x \in T, NEW y \in T
  PROVE  /\ <<x, y>> \in Seq(T) /\ Len(<<x, y>>) = 2
         /\ <<x, y>>[1] = x /\ <<x, y>>[2] = y
OBVIOUS

\* The chain, frame by frame.
LEMMA ApiChain ==
  /\ Api.chain \in Seq(Frames) /\ Len(Api.chain) = 8
  /\ Api.chain[1] = "SetResponseHeader" /\ Api.chain[2] = "requestid"
  /\ Api.chain[3] = "spec" /\ Api.chain[4] = "swaggerUI" /\ Api.chain[5] = "router"
  /\ Api.chain[6] = "log_http" /\ Api.chain[7] = "Recovery" /\ Api.chain[8] = "executor"
<1> DEFINE api0 == InstallMiddlewares(AssignHandlers(NewSignatureServiceAPI))
           api1 == [api0 EXCEPT !.swaggerUI = TRUE, !.consumer = "runtime",
                                !.producer = "runtime", !.hooks = "none"]
           ready == BuildRouter(InitAPI(api1))
           serving == Serve(api1)
<1>1. /\ DOMAIN api1 = DOMAIN NewSignatureServiceAPI
      /\ api1.apiMiddleware = <<"log_http", "Recovery">>
      /\ api1.globalMiddleware = <<"SetResponseHeader", "requestid">>
      /\ api1.swaggerUI = TRUE
      /\ api1.cache = << >>
  BY DEF InstallMiddlewares, AssignHandlers, NewSignatureServiceAPI
<1>2. /\ ready.apiMiddleware = <<"log_http", "Recovery">>
      /\ ready.globalMiddleware = <<"SetResponseHeader", "requestid">>
      /\ ready.swaggerUI = TRUE
      /\ "chain" \in DOMAIN ready
  BY <1>1 DEF BuildRouter, InitAPI, InitHandlerCache, NewSignatureServiceAPI
<1>3. /\ serving.chain = <<"spec", "swaggerUI">> \o <<"router">>
                           \o Use(ready.apiMiddleware, <<"executor">>)
      /\ serving.globalMiddleware = ready.globalMiddleware
      /\ "chain" \in DOMAIN serving
  BY <1>2 DEF Serve
<1>4. Api.chain = Use(ready.globalMiddleware, serving.chain)
  BY <1>3 DEF Api, RunSetup, CommonSettings, ConfigureAPI
<1> HIDE DEF ready, serving
<1>5. PICK inner : inner = Use(ready.apiMiddleware, <<"executor">>)
  OBVIOUS
<1>6. /\ inner \in Seq(Frames) /\ Len(inner) = 3
      /\ inner[1] = "log_http" /\ inner[2] = "Recovery" /\ inner[3] = "executor"
  <2>1. /\ <<"executor">> \in Seq(Frames) /\ Len(<<"executor">>) = 1
        /\ <<"executor">>[1] = "executor"
    BY DEF Frames
  <2>2. PICK e : e = <<"executor">>
    OBVIOUS
  <2>3. PICK m : m = ready.apiMiddleware
    OBVIOUS
  <2>4. m \in Seq(Frames) /\ Len(m) = 2 /\ m[1] = "log_http" /\ m[2] = "Recovery"
    BY <1>2, <2>3, Pair DEF Frames
  <2>5. e \in Seq(Frames) /\ Len(e) = 1 /\ e[1] = "executor"
    BY <2>1, <2>2
  <2>6. inner = Use(m, e)
    BY <1>5, <2>2, <2>3
  <2>7. /\ inner \in Seq(Frames) /\ Len(inner) = Len(e) + 2
        /\ inner[1] = m[1] /\ inner[2] = m[2] /\ \A i \in 1..Len(e) : inner[i + 2] = e[i]
    BY <2>4, <2>5, <2>6, UsedTwo
  <2>8. inner[1 + 2] = e[1]
    BY <2>5, <2>7
  <2> QED
    BY <2>4, <2>5, <2>7, <2>8
<1>7. PICK outer : outer = <<"spec", "swaggerUI">> \o <<"router">>
  OBVIOUS
<1>8. /\ outer \in Seq(Frames) /\ Len(outer) = 3
      /\ outer[1] = "spec" /\ outer[2] = "swaggerUI" /\ outer[3] = "router"
  BY <1>7 DEF Frames
<1>9. PICK all : all = serving.chain
  OBVIOUS
<1>10. all = outer \o inner
  BY <1>3, <1>5, <1>7, <1>9
<1>11. /\ all \in Seq(Frames) /\ Len(all) = 6
       /\ all[1] = "spec" /\ all[2] = "swaggerUI" /\ all[3] = "router"
       /\ all[4] = "log_http" /\ all[5] = "Recovery" /\ all[6] = "executor"
  <2>1. /\ all \in Seq(Frames) /\ Len(all) = 6
        /\ \A i \in 1..3 : all[i] = outer[i]
        /\ \A i \in 1..3 : all[i + 3] = inner[i]
    <3>1. /\ outer \o inner \in Seq(Frames)
          /\ Len(outer \o inner) = Len(outer) + Len(inner)
          /\ \A i \in 1..Len(outer) : (outer \o inner)[i] = outer[i]
          /\ \A i \in 1..Len(inner) : (outer \o inner)[i + Len(outer)] = inner[i]
      <4>1. outer \in Seq(Frames) /\ inner \in Seq(Frames)
        BY <1>6, <1>8
      <4> QED
        BY <4>1, Concatenated
    <3> QED
      BY <1>6, <1>8, <1>10, <3>1
  <2>2. all[1 + 3] = inner[1] /\ all[2 + 3] = inner[2] /\ all[3 + 3] = inner[3]
    BY <2>1
  <2> QED
    BY <1>6, <1>8, <2>1, <2>2
<1>12. PICK m : m = ready.globalMiddleware
  OBVIOUS
<1>13. m \in Seq(Frames) /\ Len(m) = 2 /\ m[1] = "SetResponseHeader" /\ m[2] = "requestid"
  BY <1>2, <1>12, Pair DEF Frames
<1>14. Api.chain = Use(m, all)
  BY <1>4, <1>9, <1>12
<1>15. PICK c : c = Api.chain
  OBVIOUS
<1>16. /\ c \in Seq(Frames) /\ Len(c) = 8
       /\ c[1] = "SetResponseHeader" /\ c[2] = "requestid"
       /\ \A i \in 1..6 : c[i + 2] = all[i]
  <2>1. /\ c \in Seq(Frames) /\ Len(c) = Len(all) + 2
        /\ c[1] = m[1] /\ c[2] = m[2] /\ \A i \in 1..Len(all) : c[i + 2] = all[i]
    <3>1. c = Use(m, all)
      BY <1>14, <1>15
    <3>2. m \in Seq(Frames) /\ Len(m) = 2 /\ all \in Seq(Frames)
      BY <1>11, <1>13
    <3>3. /\ Use(m, all) \in Seq(Frames) /\ Len(Use(m, all)) = Len(all) + 2
          /\ Use(m, all)[1] = m[1] /\ Use(m, all)[2] = m[2]
          /\ \A i \in 1..Len(all) : Use(m, all)[i + 2] = all[i]
      BY <3>2, UsedTwo
    <3> QED
      BY <3>1, <3>3
  <2> QED
    BY <1>11, <1>13, <2>1
<1>17. /\ c[1 + 2] = all[1] /\ c[2 + 2] = all[2] /\ c[3 + 2] = all[3]
       /\ c[4 + 2] = all[4] /\ c[5 + 2] = all[5] /\ c[6 + 2] = all[6]
  BY <1>16
<1> QED
  BY <1>11, <1>15, <1>16, <1>17

LEMMA ApiCodecs == DOMAIN Api.consumers = {"application/json"}
BY DEF Api, RunSetup, CommonSettings, ConfigureAPI, Serve, BuildRouter, ConsumersFor, InitAPI,
   InitHandlerCache, InstallMiddlewares, AssignHandlers, NewSignatureServiceAPI

\* The key of every operation in the cache, by its method and the length of
\* its path.
LEMMA CacheKeyShapes ==
  /\ DOMAIN CacheKeys =
       {"CreateSignatureDevice", "GetDeviceSignature", "GetSignatureDevice",
        "ListDeviceSignatures", "ListSignatureDevices", "SignTransaction"}
  /\ CacheKeys["CreateSignatureDevice"][1] = "POST" /\ Len(CacheKeys["CreateSignatureDevice"][2]) = 1
  /\ CacheKeys["GetDeviceSignature"][1] = "GET" /\ Len(CacheKeys["GetDeviceSignature"][2]) = 4
  /\ CacheKeys["GetSignatureDevice"][1] = "GET" /\ Len(CacheKeys["GetSignatureDevice"][2]) = 2
  /\ CacheKeys["ListDeviceSignatures"][1] = "GET" /\ Len(CacheKeys["ListDeviceSignatures"][2]) = 3
  /\ CacheKeys["ListSignatureDevices"][1] = "GET" /\ Len(CacheKeys["ListSignatureDevices"][2]) = 1
  /\ CacheKeys["SignTransaction"][1] = "POST" /\ Len(CacheKeys["SignTransaction"][2]) = 3
BY DEF CacheKeys

LEMMA CacheKeysDiffer ==
  ASSUME NEW a \in DOMAIN CacheKeys, NEW b \in DOMAIN CacheKeys, CacheKeys[a] = CacheKeys[b]
  PROVE  a = b
<1>1. CacheKeys[a][1] = CacheKeys[b][1] /\ Len(CacheKeys[a][2]) = Len(CacheKeys[b][2])
  OBVIOUS
<1> QED
  BY <1>1, CacheKeyShapes

\* The generator has written methods and paths twice, and twice the same.
LEMMA CacheKeysAgree ==
  ASSUME NEW op \in Document
  PROVE  op.id \in DOMAIN CacheKeys /\ CacheKeys[op.id] = <<op.method, op.path>>
<1>1. CASE IsListSignatureDevices(op)
  <2>1. PICK path : path = <<"devices">>
    OBVIOUS
  <2>2. op.id = "ListSignatureDevices" /\ op.method = "GET" /\ op.path = path
    BY <1>1, <2>1 DEF IsListSignatureDevices, IsOperation
  <2>3. CacheKeys["ListSignatureDevices"] = <<"GET", path>>
    BY <2>1 DEF CacheKeys
  <2> QED
    BY <2>2, <2>3, CacheKeyShapes
<1>2. CASE IsCreateSignatureDevice(op)
  <2>1. PICK path : path = <<"devices">>
    OBVIOUS
  <2>2. op.id = "CreateSignatureDevice" /\ op.method = "POST" /\ op.path = path
    BY <1>2, <2>1 DEF IsCreateSignatureDevice, IsOperation
  <2>3. CacheKeys["CreateSignatureDevice"] = <<"POST", path>>
    BY <2>1 DEF CacheKeys
  <2> QED
    BY <2>2, <2>3, CacheKeyShapes
<1>3. CASE IsGetSignatureDevice(op)
  <2>1. PICK path : path = <<"devices", "{deviceId}">>
    OBVIOUS
  <2>2. op.id = "GetSignatureDevice" /\ op.method = "GET" /\ op.path = path
    BY <1>3, <2>1 DEF IsGetSignatureDevice, IsOperation
  <2>3. CacheKeys["GetSignatureDevice"] = <<"GET", path>>
    BY <2>1 DEF CacheKeys
  <2> QED
    BY <2>2, <2>3, CacheKeyShapes
<1>4. CASE IsListDeviceSignatures(op)
  <2>1. PICK path : path = <<"devices", "{deviceId}", "signatures">>
    OBVIOUS
  <2>2. op.id = "ListDeviceSignatures" /\ op.method = "GET" /\ op.path = path
    BY <1>4, <2>1 DEF IsListDeviceSignatures, IsOperation
  <2>3. CacheKeys["ListDeviceSignatures"] = <<"GET", path>>
    BY <2>1 DEF CacheKeys
  <2> QED
    BY <2>2, <2>3, CacheKeyShapes
<1>5. CASE IsSignTransaction(op)
  <2>1. PICK path : path = <<"devices", "{deviceId}", "signatures">>
    OBVIOUS
  <2>2. op.id = "SignTransaction" /\ op.method = "POST" /\ op.path = path
    BY <1>5, <2>1 DEF IsSignTransaction, IsOperation
  <2>3. CacheKeys["SignTransaction"] = <<"POST", path>>
    BY <2>1 DEF CacheKeys
  <2> QED
    BY <2>2, <2>3, CacheKeyShapes
<1>6. CASE IsGetDeviceSignature(op)
  <2>1. PICK path : path = <<"devices", "{deviceId}", "signatures", "{signatureId}">>
    OBVIOUS
  <2>2. op.id = "GetDeviceSignature" /\ op.method = "GET" /\ op.path = path
    BY <1>6, <2>1 DEF IsGetDeviceSignature, IsOperation
  <2>3. CacheKeys["GetDeviceSignature"] = <<"GET", path>>
    BY <2>1 DEF CacheKeys
  <2> QED
    BY <2>2, <2>3, CacheKeyShapes
<1> QED
  BY <1>1, <1>2, <1>3, <1>4, <1>5, <1>6, DocumentOperations

\* Whom the executor of an operation calls: the handler Run has assigned.
LEMMA HandlerOf ==
  ASSUME NEW op \in Document
  PROVE  HandlerFor(Api, op.method, op.path) =
           IF op.id \in Wired THEN "service" ELSE "notImplemented"
<1> DEFINE api0 == InstallMiddlewares(AssignHandlers(NewSignatureServiceAPI))
           api1 == [api0 EXCEPT !.swaggerUI = TRUE, !.consumer = "runtime",
                                !.producer = "runtime", !.hooks = "none"]
           ready == BuildRouter(InitAPI(api1))
<1>1. /\ DOMAIN api1 = DOMAIN NewSignatureServiceAPI
      /\ api1.cache = << >>
      /\ api1.handlers = [id \in OperationIDs |->
                            IF id \in Wired THEN "service" ELSE "notImplemented"]
  BY DEF InstallMiddlewares, AssignHandlers, NewSignatureServiceAPI
<1>2. PICK handlers : handlers = api1.handlers
  OBVIOUS
<1>3. ready.cache = [key \in {CacheKeys[id] : id \in DOMAIN CacheKeys} |->
                       handlers[CHOOSE id \in DOMAIN CacheKeys : CacheKeys[id] = key]]
  BY <1>1, <1>2 DEF BuildRouter, InitAPI, InitHandlerCache, NewSignatureServiceAPI
<1>4. Serve(api1).cache = ready.cache
  BY DEF Serve, BuildRouter
<1>5. Api.cache = Serve(api1).cache
  BY DEF Api, RunSetup, CommonSettings, ConfigureAPI
<1> HIDE DEF ready, api1
<1>6. PICK key : key = <<op.method, op.path>>
  OBVIOUS
<1>7. op.id \in DOMAIN CacheKeys /\ CacheKeys[op.id] = key
  BY <1>6, CacheKeysAgree
<1>8. (CHOOSE id \in DOMAIN CacheKeys : CacheKeys[id] = key) = op.id
  BY <1>7, CacheKeysDiffer
<1>9. Api.cache[key] = handlers[op.id]
  BY <1>3, <1>4, <1>5, <1>7, <1>8
<1>10. op.id \in OperationIDs
  BY DEF OperationIDs
<1>11. handlers[op.id] = IF op.id \in Wired THEN "service" ELSE "notImplemented"
  BY <1>1, <1>2, <1>10
<1> QED
  BY <1>6, <1>9, <1>11 DEF HandlerFor
-----------------------------------------------------------------------------
(* The invariant                                                             *)

Authors == {None, "static", "error", "service", "notImplemented", "Recovery"}

\* What is left of the chain and the frames on the stack, one by one.
FramesInv ==
  /\ left \in Seq(Frames) /\ entered \in Seq(Frames)
  /\ Len(entered) + Len(left) <= 8
  /\ \A i \in 1..Len(entered) : entered[i] = Api.chain[i]
  /\ \A i \in 1..Len(left) : left[i] = Api.chain[i + 8 - Len(left)]

\* How deep a request stands in each stage: on the way in nothing has returned,
\* a handler and a panic are at the bottom, and Recovery answers from its frame.
WayIn == Len(entered) + Len(left) = 8
Recovering == Len(left) = 0 /\ Len(entered) = 7
DepthInv ==
  /\ stage \in {"enter", "handle", "header", "body", "panicking", "return", "closed"}
  /\ stage = "enter" => WayIn /\ Len(entered) <= 7
  /\ stage \in {"handle", "panicking"} => Len(entered) = 8
  /\ stage \in {"header", "body"} => Len(entered) >= 3 /\ (WayIn \/ Recovering)
  /\ stage \in {"header", "body"} /\ answer.by = "service" => Len(entered) = 8
  /\ stage = "return" => Len(entered) >= 1
  /\ stage = "closed" => Len(entered) = 0

\* A request has a route from the router on, goes on to the executor, and its
\* log frame lies between the two.
RouteInv ==
  /\ route = NoRoute \/ route \in Document
  /\ Len(left) <= 2 \/ (Len(left) = 3 /\ stage = "enter") => route \in Document
  /\ route \in Document => Len(left) = 0 \/ (Len(left) <= 3 /\ stage = "enter")

JournalInv ==
  /\ DOMAIN journal = {"started", "finished", "status", "size", "body"}
  /\ journal.started \in BOOLEAN /\ journal.finished \in BOOLEAN
  /\ journal.started <=> Len(left) <= 2
  /\ journal.finished <=> Len(left) <= 2 /\ Len(entered) <= 5

ControlInv == FramesInv /\ DepthInv /\ RouteInv /\ JournalInv

\* The handler is given the parameters of a request that binding accepts.
BoundInv ==
  /\ bound.given \in BOOLEAN
  /\ bound.given => Len(left) = 0 /\ bound = Params(route, request)
  /\ Len(left) = 0 => (bound.given <=> BindErrors(route, request) = << >>)
  /\ stage = "handle" => bound.given
  /\ stage = "panicking" => bound.given /\ route.id \in Wired

\* Who answers what.
AnswerInv ==
  /\ answer.by \in Authors /\ answer.size \in Sizes \cup {0} /\ answer.status \in Nat
  /\ stage \in {"header", "body", "return", "closed"} =>
       /\ answer.status # 0
       /\ bound.given => (answer.by = "notImplemented" <=> route.id \notin Wired)
  /\ answer.by = "service" =>
       /\ bound.given
       /\ \E responder \in Responders(route.id) :
            /\ answer.status = responder.status
            /\ answer.payload \in Payloads(responder.payload, bound)

Identified(header) ==
  "X-Request-ID" \in DOMAIN header /\ header["X-Request-ID"] = RequestID(request)

WriterShape(wr) ==
  /\ DOMAIN wr = {"header", "serverWritten", "log", "wire"}
  /\ DOMAIN wr.log = {"wroteHeader", "status", "size", "body"}
  /\ DOMAIN wr.wire = {"status", "headers", "body", "broken"}
  /\ wr.serverWritten \in BOOLEAN /\ wr.log.wroteHeader \in BOOLEAN /\ wr.wire.broken \in BOOLEAN
  /\ wr.wire.status \in Nat /\ wr.wire.body \in Seq(Authors)
  /\ wr.log.status \in Nat /\ wr.log.size \in Nat /\ wr.log.body \in Seq(Authors)

\* The server's name is set with the first status, the identifier before it.
HeadersInv(wr) ==
  /\ Len(left) <= 6 => Identified(wr.header)
  /\ wr.serverWritten <=> wr.wire.status # 0
  /\ wr.wire.status # 0 =>
       Identified(wr.wire.headers) /\ "X-Server" \in DOMAIN wr.wire.headers

\* What the log keeps of a text.
Kept(bytes) == SubSeq(bytes, 1, Smaller(maxLoggedBody, Len(bytes)))

\* The log agrees with the wire from its frame on, and is blank before.
LogAgrees(wr) ==
  /\ wr.log.wroteHeader <=> wr.wire.status # 0
  /\ wr.log.status = wr.wire.status
  /\ wr.log.size = Len(wr.wire.body)
  /\ Len(wr.log.body) <= maxLoggedBody
  /\ wr.log.status < 400 => wr.log.body = << >>
  /\ wr.log.status >= 400 /\ ~wr.wire.broken => wr.log.body = Kept(wr.wire.body)
LogInv(wr) == IF Len(left) <= 2 THEN LogAgrees(wr) ELSE wr.log = NewWriter.log

\* A connection is broken or carries what has been written of one answer.
MessageInv ==
  /\ w.wire.status = 0 => w.wire.body = << >> /\ ~w.wire.broken
  /\ stage \in {"enter", "handle"} => w.wire.status = 0
  /\ stage \in {"header", "panicking"} => w.wire.status = 0 \/ w.wire.broken
  /\ stage \in {"body", "return", "closed"} =>
       /\ w.wire.status # 0
       /\ ~w.wire.broken =>
            /\ w.wire.status = answer.status
            /\ w.wire.body = IF stage = "body" THEN << >> ELSE Bytes(answer.by, answer.size)

WriterInv == WriterShape(w) /\ HeadersInv(w) /\ LogInv(w) /\ MessageInv

PipelineInv ==
  /\ request \in Requests
  /\ ControlInv /\ BoundInv /\ AnswerInv /\ WriterInv
  /\ LogReportsAnswer
-----------------------------------------------------------------------------
(* Where a request is                                                        *)

LEMMA SmallSum ==
  ASSUME NEW m \in Nat, NEW n \in Nat, m + n <= 8
  PROVE  m \in 0..8 /\ n \in 0..8
OBVIOUS

LEMMA Pushed ==
  ASSUME FramesInv, WayIn, NEW name, At(name), Push(name)
  PROVE  /\ FramesInv' /\ WayIn'
         /\ Len(left) \in 1..8 /\ name = Api.chain[9 - Len(left)]
         /\ Len(left') = Len(left) - 1 /\ Len(entered') = Len(entered) + 1
<1> USE DEF FramesInv, WayIn
<1>1. /\ Len(left) \in Nat /\ Len(left) >= 1 /\ Len(entered) \in Nat
      /\ name = left[1] /\ name \in Frames
  BY DEF At
<1>2. name = Api.chain[9 - Len(left)]
  BY <1>1
<1>3. /\ left' \in Seq(Frames) /\ Len(left') = Len(left) - 1
      /\ \A i \in 1..Len(left') : left'[i] = left[i + 1]
  BY <1>1 DEF Push
<1>4. /\ entered' \in Seq(Frames) /\ Len(entered') = Len(entered) + 1
      /\ entered'[Len(entered) + 1] = name
      /\ \A i \in 1..Len(entered) : entered'[i] = entered[i]
  BY <1>1 DEF Push
<1>5. \A i \in 1..Len(left') : left'[i] = Api.chain[i + 8 - Len(left')]
  <2> SUFFICES ASSUME NEW i \in 1..Len(left')
               PROVE  left'[i] = Api.chain[i + 8 - Len(left')]
    OBVIOUS
  <2>1. left'[i] = left[i + 1] /\ i + 1 \in 1..Len(left)
    BY <1>1, <1>3
  <2>2. left[i + 1] = Api.chain[(i + 1) + 8 - Len(left)]
    BY <2>1
  <2>3. (i + 1) + 8 - Len(left) = i + 8 - Len(left')
    BY <1>1, <1>3
  <2> QED
    BY <2>1, <2>2, <2>3
<1>6. \A i \in 1..Len(entered') : entered'[i] = Api.chain[i]
  <2>1. Len(entered) + 1 = 9 - Len(left)
    BY <1>1
  <2>2. entered'[Len(entered) + 1] = Api.chain[Len(entered) + 1]
    BY <1>2, <1>4, <2>1
  <2>3. \A i \in 1..Len(entered') : i \in 1..Len(entered) \/ i = Len(entered) + 1
    BY <1>1, <1>4
  <2> QED
    BY <1>4, <2>2, <2>3
<1>7. Len(entered') + Len(left') = 8
  BY <1>1, <1>3, <1>4
<1>8. FramesInv' /\ WayIn'
  BY <1>3, <1>4, <1>5, <1>6, <1>7
<1> HIDE DEF FramesInv, WayIn
<1>9. Len(left) \in 1..8
  <2>1. PICK n \in Nat, m \in Nat : n = Len(left) /\ m = Len(entered) /\ n >= 1
    BY <1>1
  <2>2. m + n <= 8
    BY <2>1, Zenon DEF FramesInv
  <2>3. n \in 0..8 /\ n >= 1
    BY <2>2, <2>1, SmallSum
  <2>4. n \in 1..8
    BY ONLY <2>3
  <2> QED
    BY <2>1, <2>4
<1> QED
  BY <1>2, <1>3, <1>4, <1>8, <1>9

\* A frame is entered when so many of the chain are left.
Enters(n) ==
  /\ Len(left) = n /\ Len(entered) = 8 - n
  /\ Len(left') = n - 1 /\ Len(entered') = 9 - n

\* What a frame that is entered tells of the place in the chain.
LEMMA PushedAt ==
  ASSUME ControlInv, NEW name, At(name), Push(name)
  PROVE  /\ FramesInv' /\ WayIn'
         /\ name = "SetResponseHeader" => Enters(8)
         /\ name = "requestid" => Enters(7)
         /\ name = "spec" => Enters(6)
         /\ name = "swaggerUI" => Enters(5)
         /\ name = "router" => Enters(4)
         /\ name = "log_http" => Enters(3)
         /\ name = "Recovery" => Enters(2)
         /\ name = "executor" => Enters(1)
<1>1. FramesInv /\ WayIn
  BY DEF ControlInv, DepthInv, At
<1>2. /\ FramesInv' /\ WayIn'
      /\ Len(left) \in 1..8 /\ name = Api.chain[9 - Len(left)]
      /\ Len(left') = Len(left) - 1 /\ Len(entered') = Len(entered) + 1
  BY <1>1, Pushed
<1>3. Len(entered) \in Nat /\ Len(entered) = 8 - Len(left)
  BY <1>1, <1>2 DEF FramesInv, WayIn
<1>4. PICK k : k = Len(left)
  OBVIOUS
<1>5. /\ k \in 1..8 /\ name = Api.chain[9 - k]
      /\ Len(left') = k - 1 /\ Len(entered') = (8 - k) + 1 /\ Len(entered) = 8 - k
  BY <1>2, <1>3, <1>4
<1>6. k = 1 \/ k = 2 \/ k = 3 \/ k = 4 \/ k = 5 \/ k = 6 \/ k = 7 \/ k = 8
  BY <1>5
<1>7. PICK c : c = Api.chain
  OBVIOUS
<1>8. /\ c[1] = "SetResponseHeader" /\ c[2] = "requestid"
      /\ c[3] = "spec" /\ c[4] = "swaggerUI" /\ c[5] = "router"
      /\ c[6] = "log_http" /\ c[7] = "Recovery" /\ c[8] = "executor"
      /\ name = c[9 - k]
  BY <1>5, <1>7, ApiChain
<1>9. /\ k = 1 => name = "executor"
      /\ k = 2 => name = "Recovery"
      /\ k = 3 => name = "log_http"
      /\ k = 4 => name = "router"
      /\ k = 5 => name = "swaggerUI"
      /\ k = 6 => name = "spec"
      /\ k = 7 => name = "requestid"
      /\ k = 8 => name = "SetResponseHeader"
  BY <1>8
<1>10. Enters(k)
  BY <1>4, <1>5 DEF Enters
<1>11. /\ name = "SetResponseHeader" => k = 8
       /\ name = "requestid" => k = 7
       /\ name = "spec" => k = 6
       /\ name = "swaggerUI" => k = 5
       /\ name = "router" => k = 4
       /\ name = "log_http" => k = 3
       /\ name = "Recovery" => k = 2
       /\ name = "executor" => k = 1
  BY <1>6, <1>9
<1> QED
  BY <1>2, <1>10, <1>11

\* The beginning of a sequence.
LEMMA Shortened ==
  ASSUME NEW T, NEW s \in Seq(T), NEW n \in 0..Len(s)
  PROVE  /\ SubSeq(s, 1, n) \in Seq(T) /\ Len(SubSeq(s, 1, n)) = n
         /\ \A i \in 1..n : SubSeq(s, 1, n)[i] = s[i]
OBVIOUS

LEMMA FramesStay ==
  ASSUME FramesInv, UNCHANGED <<left, entered>>
  PROVE  FramesInv'
BY DEF FramesInv

\* Which frames are on the stack, by its height.
LEMMA FramesByDepth ==
  ASSUME FramesInv
  PROVE  /\ Len(entered) \in 0..8 /\ Len(left) \in 0..8
         /\ Logged(entered) <=> Len(entered) >= 6
         /\ (\E i \in DOMAIN entered : entered[i] = "SetResponseHeader") <=> Len(entered) >= 1
         /\ Len(entered) >= 1 => (Last(entered) = "log_http" <=> Len(entered) = 6)
<1>1. Len(entered) \in 0..8 /\ Len(left) \in 0..8 /\ DOMAIN entered = 1..Len(entered)
  <2>1. entered \in Seq(Frames) /\ left \in Seq(Frames) /\ Len(entered) + Len(left) <= 8
    BY DEF FramesInv
  <2>2. Len(entered) \in Nat /\ Len(left) \in Nat /\ DOMAIN entered = 1..Len(entered)
    BY <2>1, SMTT(30)
  <2>3. PICK m \in Nat, n \in Nat : m = Len(entered) /\ n = Len(left)
    BY <2>2
  <2>4. m + n <= 8
    BY <2>1, <2>3, Zenon
  <2>5. m \in 0..8 /\ n \in 0..8
    BY <2>4, SmallSum
  <2> QED
    BY <2>2, <2>3, <2>5
<1>2. \A i \in 1..Len(entered) :
        /\ entered[i] = "log_http" <=> i = 6
        /\ entered[i] = "SetResponseHeader" <=> i = 1
  <2> TAKE i \in 1..Len(entered)
  <2>1. i \in {1, 2, 3, 4, 5, 6, 7, 8} /\ entered[i] = Api.chain[i]
    BY <1>1 DEF FramesInv
  <2> QED
    BY <2>1, ApiChain
<1>3. Logged(entered) <=> Len(entered) >= 6
  BY <1>1, <1>2 DEF Logged
<1>4. (\E i \in DOMAIN entered : entered[i] = "SetResponseHeader") <=> Len(entered) >= 1
  BY <1>1, <1>2
<1>5. Len(entered) >= 1 => (Last(entered) = "log_http" <=> Len(entered) = 6)
  <2> SUFFICES ASSUME Len(entered) >= 1
               PROVE  Last(entered) = "log_http" <=> Len(entered) = 6
    OBVIOUS
  <2>1. PICK n : n = Len(entered)
    OBVIOUS
  <2>2. n \in 1..Len(entered)
    BY <1>1, <2>1
  <2>3. entered[n] = "log_http" <=> n = 6
    BY <1>2, <2>2
  <2> QED
    BY <2>1, <2>3 DEF Last
<1> QED
  BY <1>1, <1>3, <1>4, <1>5

\* A panic at the bottom is caught by Recovery.
LEMMA CaughtByRecovery ==
  ASSUME FramesInv, Len(entered) = 8
  PROVE  SelectLastInSeq(entered, LAMBDA m : m = "Recovery") = 7
<1>1. \A i \in 1..8 : entered[i] = "Recovery" <=> i = 7
  <2> TAKE i \in 1..8
  <2>1. i \in {1, 2, 3, 4, 5, 6, 7, 8} /\ entered[i] = Api.chain[i]
    BY DEF FramesInv
  <2> QED
    BY <2>1, ApiChain
<1>2. {i \in 1..Len(entered) : entered[i] = "Recovery"} = {7}
  BY <1>1
<1>3. Max({7}) = 7
  BY DEF Max
<1> QED
  BY <1>2, <1>3 DEF SelectLastInSeq

LEMMA BottomIsEnd ==
  ASSUME FramesInv, Len(entered) = 8
  PROVE  Len(left) = 0
<1>1. PICK n : n = Len(left)
  OBVIOUS
<1>2. n \in 0..8 /\ 8 + n <= 8
  BY <1>1, FramesByDepth DEF FramesInv
<1>3. n = 0
  BY ONLY <1>2
<1> QED
  BY <1>1, <1>3

LEMMA ControlInit ==
  ASSUME Init
  PROVE  ControlInv
<1>1. /\ left \in Seq(Frames) /\ Len(left) = 8 /\ left = Api.chain
      /\ entered \in Seq(Frames) /\ Len(entered) = 0
  <2>1. left = Api.chain /\ entered = << >>
    BY DEF Init
  <2> QED
    BY <2>1, ApiChain
<1>2. FramesInv
  BY <1>1 DEF FramesInv
<1>3. DepthInv
  BY <1>1 DEF Init, DepthInv, WayIn
<1>4. RouteInv
  <2>1. NoRoute \notin Document
    <3>1. NoRoute.id = None
      BY DEF NoRoute
    <3> QED
      BY <3>1, DocumentIDs DEF None
  <2> QED
    BY <1>1, <2>1 DEF Init, RouteInv
<1>5. JournalInv
  BY <1>1 DEF Init, JournalInv
<1> QED
  BY <1>2, <1>3, <1>4, <1>5 DEF ControlInv

\* The steps that neither enter a frame nor leave one.
LEMMA ControlStays ==
  ASSUME ControlInv, UNCHANGED <<left, entered, route, journal>>,
         stage' \in {"handle", "header", "body", "panicking", "return"},
         stage' \in {"handle", "panicking"} => Len(entered) = 8,
         stage' \in {"header", "body"} =>
           Len(entered) >= 3 /\ (WayIn \/ Recovering),
         stage' \in {"header", "body"} /\ answer'.by = "service" => Len(entered) = 8,
         stage' = "return" => Len(entered) >= 1,
         stage # "enter" \/ Len(left) = 0
  PROVE  ControlInv'
<1>1. FramesInv'
  BY FramesStay DEF ControlInv
<1>2. DepthInv'
  BY DEF DepthInv, WayIn, Recovering
<1>3. RouteInv'
  BY DEF ControlInv, RouteInv
<1>4. JournalInv'
  BY DEF ControlInv, JournalInv
<1> QED
  BY <1>1, <1>2, <1>3, <1>4 DEF ControlInv

LEMMA ControlStep ==
  ASSUME ControlInv, [Next]_vars
  PROVE  ControlInv'
<1>0. FramesInv /\ DepthInv /\ RouteInv /\ JournalInv
  BY DEF ControlInv
<1>1. CASE SetResponseHeader
  <2>1. FramesInv' /\ Enters(8)
    BY <1>1, PushedAt DEF SetResponseHeader
  <2> QED
    BY <1>0, <1>1, <2>1
    DEF SetResponseHeader, At, Enters, ControlInv, DepthInv, WayIn, RouteInv, JournalInv
<1>2. CASE RequestIDHandler
  <2>1. FramesInv' /\ Enters(7)
    BY <1>2, PushedAt DEF RequestIDHandler
  <2> QED
    BY <1>0, <1>2, <2>1
    DEF RequestIDHandler, At, Enters, ControlInv, DepthInv, WayIn, RouteInv, JournalInv
<1>3. CASE SpecDocument
  <2>1. FramesInv' /\ Enters(6)
    BY <1>3, PushedAt DEF SpecDocument, Static
  <2> QED
    BY <1>0, <1>3, <2>1
    DEF SpecDocument, Static, Writing, At, Enters, ControlInv, DepthInv, WayIn, RouteInv,
        JournalInv
<1>4. CASE SwaggerUI
  <2>1. FramesInv' /\ Enters(5)
    BY <1>4, PushedAt DEF SwaggerUI, Static
  <2> QED
    BY <1>0, <1>4, <2>1
    DEF SwaggerUI, Static, Writing, At, Enters, ControlInv, DepthInv, WayIn, RouteInv,
        JournalInv
<1>5. CASE Router
  <2>1. FramesInv' /\ Enters(4)
    BY <1>5, PushedAt DEF Router
  <2>2. \/ route' \in Document /\ stage' = stage
        \/ route' = route /\ stage' = "header" /\ answer'.by = "error"
    BY <1>5 DEF Router, Writing, Routes
  <2> QED
    BY <1>0, <1>5, <2>1, <2>2
    DEF Router, At, Enters, ControlInv, DepthInv, WayIn, RouteInv, JournalInv
<1>6. CASE LogHTTP
  <2>1. FramesInv' /\ Enters(3)
    BY <1>6, PushedAt DEF LogHTTP
  <2> QED
    BY <1>0, <1>6, <2>1
    DEF LogHTTP, At, Enters, ControlInv, DepthInv, WayIn, RouteInv, JournalInv
<1>7. CASE Recovery
  <2>1. FramesInv' /\ Enters(2)
    BY <1>7, PushedAt DEF Recovery
  <2> QED
    BY <1>0, <1>7, <2>1
    DEF Recovery, At, Enters, ControlInv, DepthInv, WayIn, RouteInv, JournalInv
<1>8. CASE Bind
  <2>1. FramesInv' /\ Enters(1)
    BY <1>8, PushedAt DEF Bind
  <2> QED
    BY <1>0, <1>8, <2>1
    DEF Bind, Writing, At, Enters, ControlInv, DepthInv, WayIn, RouteInv, JournalInv
<1>9. CASE Handle \/ HandlerPanics
  <2>1. /\ stage = "handle" /\ stage' \in {"header", "panicking"}
        /\ UNCHANGED <<left, entered, route, journal>>
    BY <1>9 DEF Handle, HandlerPanics, Writing
  <2>2. Len(entered) = 8 /\ Len(left) = 0
    <3>1. Len(entered) = 8
      BY <1>0, <2>1 DEF DepthInv
    <3> QED
      BY <1>0, <3>1, BottomIsEnd
  <2> QED
    BY <1>0, <2>1, <2>2, ControlStays DEF WayIn
<1>10. CASE WriteStatus \/ WriteBody
  <2>1. /\ stage \in {"header", "body"} /\ stage' \in {"body", "panicking", "return"}
        /\ stage' = "panicking" => answer.by = "service"
        /\ UNCHANGED <<left, entered, route, answer, journal>>
    BY <1>10 DEF WriteStatus, WriteBody
  <2> QED
    BY <1>0, <2>1, ControlStays DEF DepthInv
<1>11. CASE Unwind
  <2>1. Len(entered) = 8 /\ Len(left) = 0
    <3>1. Len(entered) = 8
      BY <1>0, <1>11 DEF Unwind, DepthInv
    <3> QED
      BY <1>0, <3>1, BottomIsEnd
  <2>2. /\ entered' = SubSeq(entered, 1, 7)
        /\ stage' = "header" /\ answer'.by = "Recovery"
        /\ UNCHANGED <<left, route, journal>>
    <3>1. PICK kept : kept = SelectLastInSeq(entered, LAMBDA m : m = "Recovery")
      OBVIOUS
    <3>2. kept = 7
      BY <1>0, <2>1, <3>1, CaughtByRecovery
    <3>3. /\ entered' = SubSeq(entered, 1, kept)
          /\ kept > 0 => \E size \in Sizes : Writing(500, "text", size, "Recovery")
          /\ UNCHANGED <<left, route, journal>>
      BY <1>11, <3>1 DEF Unwind
    <3> QED
      BY <3>2, <3>3 DEF Writing
  <2>3. /\ entered' \in Seq(Frames) /\ Len(entered') = 7
        /\ \A i \in 1..7 : entered'[i] = entered[i]
    <3>1. entered \in Seq(Frames) /\ 7 \in 0..Len(entered)
      BY <1>0, <2>1 DEF FramesInv
    <3> QED
      BY <2>2, <3>1, Shortened
  <2>4. FramesInv'
    BY <1>0, <2>1, <2>2, <2>3 DEF FramesInv
  <2> QED
    BY <1>0, <2>1, <2>2, <2>3, <2>4
    DEF ControlInv, DepthInv, Recovering, RouteInv, JournalInv
<1>12. CASE Return
  <2>1. Len(entered) \in 1..8 /\ Len(left) \in 0..8
    BY <1>0, <1>12, FramesByDepth DEF Return, DepthInv
  <2>2. /\ entered' = Front(entered) /\ UNCHANGED <<left, route>>
        /\ stage' = IF Len(entered) = 1 THEN "closed" ELSE "return"
        /\ journal' = IF Len(entered) = 6 THEN Finish(w, journal) ELSE journal
    <3>1. Last(entered) = "log_http" <=> Len(entered) = 6
      <4>1. PICK m : m = Len(entered)
        OBVIOUS
      <4>2. Len(entered) >= 1
        BY <2>1, <4>1
      <4> QED
        BY <1>0, <4>2, FramesByDepth
    <3> QED
      BY <1>12, <3>1 DEF Return
  <2>3. /\ entered' \in Seq(Frames) /\ Len(entered') = Len(entered) - 1
        /\ \A i \in 1..Len(entered') : entered'[i] = entered[i]
    <3>1. /\ entered \in Seq(Frames) /\ Len(entered) - 1 \in 0..Len(entered)
          /\ Front(entered) = SubSeq(entered, 1, Len(entered) - 1)
      <4>1. entered \in Seq(Frames)
        BY <1>0 DEF FramesInv
      <4>2. PICK m : m = Len(entered)
        OBVIOUS
      <4>3. m - 1 \in 0..m
        BY <2>1, <4>2
      <4>4. Front(entered) = SubSeq(entered, 1, Len(entered) - 1)
        BY DEF Front
      <4> QED
        BY <4>1, <4>2, <4>3, <4>4
    <3> QED
      BY <2>2, <3>1, Shortened
  <2>4. PICK m \in 1..8, n \in 0..8 : m = Len(entered) /\ n = Len(left)
    BY <2>1
  <2>5. m + n <= 8 /\ Len(entered') = m - 1 /\ Len(left') = n
    BY <1>0, <2>2, <2>3, <2>4 DEF FramesInv
  <2>6. FramesInv'
    BY <1>0, <2>2, <2>3, <2>4, <2>5 DEF FramesInv
  <2>7. DepthInv'
    BY <2>2, <2>4, <2>5 DEF DepthInv
  <2>8. JournalInv'
    <3>1. CASE m = 6
      <4>1. n <= 2
        BY <2>4, <2>5, <3>1
      <4> QED
        BY <1>0, <2>2, <2>4, <2>5, <3>1, <4>1 DEF JournalInv, Finish
    <3>2. CASE m # 6
      BY <1>0, <2>2, <2>4, <2>5, <3>2 DEF JournalInv
    <3> QED
      BY <3>1, <3>2
  <2>9. RouteInv'
    BY <1>0, <1>12, <2>2 DEF Return, RouteInv
  <2> QED
    BY <2>6, <2>7, <2>8, <2>9 DEF ControlInv
<1>13. CASE UNCHANGED vars
  BY <1>13 DEF vars, ControlInv, FramesInv, DepthInv, WayIn, Recovering, RouteInv, JournalInv
<1> QED
  BY <1>1, <1>2, <1>3, <1>4, <1>5, <1>6, <1>7, <1>8, <1>9, <1>10, <1>11, <1>12, <1>13
  DEF Next, Served
-----------------------------------------------------------------------------
(* The writers                                                               *)

\* What is written is known: the header of a frame is set, nothing else.
LEMMA HeaderSet ==
  ASSUME NEW wr, WriterShape(wr), NEW name, NEW value,
         NEW new, new = SetHeader(wr, name, value)
  PROVE  /\ WriterShape(new)
         /\ new.wire = wr.wire /\ new.log = wr.log /\ new.serverWritten = wr.serverWritten
         /\ DOMAIN new.header = DOMAIN wr.header \cup {name}
         /\ new.header[name] = value
         /\ \A n \in DOMAIN wr.header : n # name => new.header[n] = wr.header[n]
<1>1. /\ DOMAIN wr = {"header", "serverWritten", "log", "wire"}
      /\ DOMAIN new = DOMAIN wr
      /\ new.wire = wr.wire /\ new.log = wr.log /\ new.serverWritten = wr.serverWritten
      /\ new.header = [n \in DOMAIN wr.header \cup {name} |->
                         IF n = name THEN value ELSE wr.header[n]]
  BY DEF SetHeader, WriterShape
<1>2. WriterShape(new)
  BY <1>1 DEF WriterShape
<1> QED
  BY <1>1, <1>2

\* The first status goes out with the headers of that moment.
LEMMA StatusSent ==
  ASSUME NEW wr, WriterShape(wr), NEW code \in Nat, wr.wire.status = 0,
         NEW new, new = NetWriteHeader(wr, code)
  PROVE  /\ WriterShape(new)
         /\ new.log = wr.log /\ new.serverWritten = wr.serverWritten
         /\ new.header = wr.header /\ new.wire.headers = wr.header
         /\ new.wire.status = code
         /\ new.wire.body = wr.wire.body /\ new.wire.broken = wr.wire.broken
BY DEF NetWriteHeader, WriterShape

\* The header map before a status is sent, and after.
ReadyToSend(wr) ==
  /\ WriterShape(wr) /\ wr.wire.status = 0 /\ ~wr.serverWritten
  /\ wr.wire.body = << >> /\ ~wr.wire.broken
  /\ Identified(wr.header)
SentWith(wr, code) ==
  /\ WriterShape(wr) /\ wr.wire.status = code /\ wr.serverWritten
  /\ wr.wire.body = << >> /\ ~wr.wire.broken
  /\ Identified(wr.header) /\ Identified(wr.wire.headers)
  /\ "X-Server" \in DOMAIN wr.wire.headers

LEMMA ServerNamed ==
  ASSUME NEW wr, ReadyToSend(wr), NEW code \in Nat,
         NEW new, new = ServerWriteHeader(wr, code)
  PROVE  SentWith(new, code) /\ new.log = wr.log
<1>1. PICK named : named = SetHeader(wr, "X-Server", "service")
  OBVIOUS
<1>2. /\ WriterShape(named)
      /\ named.wire = wr.wire /\ named.log = wr.log
      /\ DOMAIN named.header = DOMAIN wr.header \cup {"X-Server"}
      /\ \A n \in DOMAIN wr.header : n # "X-Server" => named.header[n] = wr.header[n]
  BY <1>1, HeaderSet DEF ReadyToSend
<1>3. Identified(named.header)
  BY <1>2 DEF ReadyToSend, Identified
<1>4. PICK marked : marked = [named EXCEPT !.serverWritten = TRUE]
  OBVIOUS
<1>5. /\ WriterShape(marked) /\ marked.serverWritten
      /\ marked.wire = named.wire /\ marked.log = named.log /\ marked.header = named.header
  BY <1>2, <1>4 DEF WriterShape
<1>6. new = NetWriteHeader(marked, code)
  BY <1>1, <1>4 DEF ServerWriteHeader, ReadyToSend
<1>7. marked.wire.status = 0
  BY <1>2, <1>5 DEF ReadyToSend
<1>8. /\ WriterShape(new)
      /\ new.log = marked.log /\ new.serverWritten = marked.serverWritten
      /\ new.header = marked.header /\ new.wire.headers = marked.header
      /\ new.wire.status = code
      /\ new.wire.body = marked.wire.body /\ new.wire.broken = marked.wire.broken
  <2>1. WriterShape(marked)
    BY <1>5
  <2> QED
    BY <1>6, <1>7, <2>1, StatusSent
<1>9. Identified(new.header) /\ Identified(new.wire.headers)
  BY <1>3, <1>5, <1>8
<1> QED
  BY <1>2, <1>5, <1>8, <1>9 DEF SentWith, ReadyToSend

\* The frames that write an answer are below SetResponseHeader, and below
\* log_http once a route is found.
LEMMA StatusOfFrames ==
  ASSUME FramesInv, Len(entered) >= 1, NEW wr, ReadyToSend(wr), NEW code \in Nat,
         Logged(entered) => ~wr.log.wroteHeader,
         NEW new, new = WriteHeader(entered, wr, code)
  PROVE  /\ SentWith(new, code)
         /\ ~Logged(entered) => new.log = wr.log
         /\ Logged(entered) =>
              /\ new.log.wroteHeader /\ new.log.status = code
              /\ new.log.size = wr.log.size /\ new.log.body = wr.log.body
<1>1. \E i \in DOMAIN entered : entered[i] = "SetResponseHeader"
  BY FramesByDepth
<1>2. CASE ~Logged(entered)
  <2>1. new = ServerWriteHeader(wr, code)
    BY <1>1, <1>2 DEF WriteHeader, OuterWriteHeader
  <2> QED
    BY <1>2, <2>1, ServerNamed
<1>3. CASE Logged(entered)
  <2>1. PICK noted :
          noted = [wr EXCEPT !.log.wroteHeader = TRUE, !.log.status = code]
    OBVIOUS
  <2>2. /\ WriterShape(noted) /\ noted.wire = wr.wire /\ noted.header = wr.header
        /\ noted.serverWritten = wr.serverWritten
        /\ noted.log.wroteHeader /\ noted.log.status = code
        /\ noted.log.size = wr.log.size /\ noted.log.body = wr.log.body
    BY <2>1 DEF WriterShape, ReadyToSend
  <2>3. ReadyToSend(noted)
    BY <2>2 DEF ReadyToSend
  <2>4. new = ServerWriteHeader(noted, code)
    BY <1>1, <1>3, <2>1 DEF WriteHeader, LogWriteHeader, OuterWriteHeader
  <2>5. SentWith(new, code) /\ new.log = noted.log
    BY <2>3, <2>4, ServerNamed
  <2> QED
    BY <1>3, <2>2, <2>5
<1> QED
  BY <1>2, <1>3

\* A second status is lost in every writer.
LEMMA StatusAgain ==
  ASSUME NEW frames, NEW wr, NEW code, wr.wire.status # 0, wr.serverWritten,
         NEW new, new = WriteHeader(frames, wr, code),
         Logged(frames) => wr.log.wroteHeader
  PROVE  new = wr
<1>1. NetWriteHeader(wr, code) = wr
  BY DEF NetWriteHeader
<1>2. ServerWriteHeader(wr, code) = wr
  BY <1>1 DEF ServerWriteHeader
<1>3. OuterWriteHeader(frames, wr, code) = wr
  BY <1>1, <1>2 DEF OuterWriteHeader
<1> QED
  BY <1>3 DEF WriteHeader, LogWriteHeader

LEMMA BytesWritten ==
  ASSUME NEW by \in Authors, NEW size \in Nat
  PROVE  /\ Bytes(by, size) \in Seq(Authors) /\ Len(Bytes(by, size)) = size
         /\ SubSeq(Bytes(by, size), 1, size) = Bytes(by, size)
<1>1. Bytes(by, size) \in Seq(Authors) /\ Len(Bytes(by, size)) = size
  BY DEF Bytes
<1>2. \A s \in Seq(Authors) : SubSeq(s, 1, Len(s)) = s
  OBVIOUS
<1> QED
  BY <1>1, <1>2

LEMMA Attached ==
  ASSUME NEW s \in Seq(Authors), NEW t \in Seq(Authors), NEW n \in 0..Len(t)
  PROVE  /\ s \o SubSeq(t, 1, n) \in Seq(Authors)
         /\ Len(s \o SubSeq(t, 1, n)) = Len(s) + n
         /\ s = << >> => s \o SubSeq(t, 1, n) = SubSeq(t, 1, n)
<1>1. PICK u : u = SubSeq(t, 1, n)
  OBVIOUS
<1>2. u \in Seq(Authors) /\ Len(u) = n
  BY <1>1, Shortened
<1>3. s \o u \in Seq(Authors) /\ Len(s \o u) = Len(s) + n
  BY <1>2, Concatenated
<1>4. << >> \o u = u
  BY <1>2
<1> QED
  BY <1>1, <1>3, <1>4

\* What a writer that has sent a status takes of a payload.
Took(wr, new, bytes, n) ==
  /\ WriterShape(new)
  /\ new.header = wr.header /\ new.serverWritten = wr.serverWritten
  /\ new.wire.status = wr.wire.status /\ new.wire.headers = wr.wire.headers
  /\ new.wire.broken <=> wr.wire.broken \/ n < Len(bytes)
  /\ new.wire.body = wr.wire.body \o SubSeq(bytes, 1, n)

LEMMA NetTook ==
  ASSUME NEW wr, WriterShape(wr), NEW bytes \in Seq(Authors), NEW n \in 0..Len(bytes),
         NEW new, new = NetWrite(wr, bytes, n)
  PROVE  Took(wr, new, bytes, n) /\ new.log = wr.log
<1>1. wr.wire.body \o SubSeq(bytes, 1, n) \in Seq(Authors)
  <2>1. wr.wire.body \in Seq(Authors)
    BY DEF WriterShape
  <2> QED
    BY <2>1, Attached
<1>2. (wr.wire.broken \/ n < Len(bytes)) \in BOOLEAN
  BY DEF WriterShape
<1>3. PICK body : body = wr.wire.body \o SubSeq(bytes, 1, n)
  OBVIOUS
<1>4. PICK broken \in BOOLEAN : broken = (wr.wire.broken \/ n < Len(bytes))
  BY <1>2
<1>5. new = [wr EXCEPT !.wire.body = body, !.wire.broken = broken]
  BY <1>3, <1>4 DEF NetWrite, WriterShape
<1>6. /\ DOMAIN new = DOMAIN wr /\ DOMAIN new.wire = DOMAIN wr.wire
      /\ new.log = wr.log
      /\ new.header = wr.header /\ new.serverWritten = wr.serverWritten
      /\ new.wire.status = wr.wire.status /\ new.wire.headers = wr.wire.headers
      /\ new.wire.body = body /\ new.wire.broken = broken
  <2>1. "wire" \in DOMAIN wr /\ "body" \in DOMAIN wr.wire /\ "broken" \in DOMAIN wr.wire
    BY DEF WriterShape
  <2>2. PICK wire : wire = [wr.wire EXCEPT !.body = body, !.broken = broken]
    OBVIOUS
  <2>3. /\ DOMAIN wire = DOMAIN wr.wire
        /\ wire.status = wr.wire.status /\ wire.headers = wr.wire.headers
        /\ wire.body = body /\ wire.broken = broken
    BY <2>1, <2>2
  <2>4. new = [wr EXCEPT !.wire = wire]
    BY <1>5, <2>1, <2>2
  <2>5. /\ DOMAIN new = DOMAIN wr /\ new.wire = wire /\ new.log = wr.log
        /\ new.header = wr.header /\ new.serverWritten = wr.serverWritten
    BY <2>1, <2>4
  <2> QED
    BY <2>3, <2>5
<1>7. body \in Seq(Authors)
  BY <1>1, <1>3
<1>8. WriterShape(new)
  BY <1>4, <1>6, <1>7 DEF WriterShape
<1> QED
  BY <1>3, <1>4, <1>6, <1>8 DEF Took

LEMMA SmallerIsBoth ==
  ASSUME NEW a \in Nat, NEW b \in Nat
  PROVE  Smaller(a, b) \in 0..b /\ Smaller(a, b) <= a /\ (b = 0 => Smaller(a, b) = 0)
BY DEF Smaller

\* The log goes on telling what the wire carries.
LEMMA LogTook ==
  ASSUME NEW wr, WriterShape(wr), wr.wire.status # 0, LogAgrees(wr),
         ~wr.wire.broken => wr.wire.body = << >>,
         NEW bytes \in Seq(Authors), NEW n \in 0..Len(bytes),
         SubSeq(bytes, 1, Len(bytes)) = bytes,
         NEW frames, NEW new, new = LogWrite(frames, wr, bytes, n)
  PROVE  Took(wr, new, bytes, n) /\ LogAgrees(new)
<1>0. PICK ready : ready = LogWriteHeader(frames, wr, 200)
  OBVIOUS
<1> DEFINE room == maxLoggedBody - Len(ready.log.body)
           kept == IF ready.log.status >= 400
                   THEN SubSeq(bytes, 1, Smaller(room, Len(bytes))) ELSE << >>
<1>1. /\ wr.log.status = wr.wire.status /\ wr.log.status \in Nat /\ wr.log.size \in Nat
      /\ wr.log.wroteHeader = TRUE
      /\ wr.log.body \in Seq(Authors) /\ wr.wire.body \in Seq(Authors)
      /\ wr.log.size = Len(wr.wire.body)
  BY DEF LogAgrees, WriterShape
<1>2. ready = wr
  BY <1>0, <1>1 DEF LogWriteHeader
<1>3. PICK noted : noted = [ready EXCEPT !.log.body = @ \o kept, !.log.size = @ + n]
  OBVIOUS
<1>4. new = NetWrite(noted, bytes, n)
  BY <1>0, <1>3 DEF LogWrite
<1>5. PICK l : l = Len(wr.log.body)
  OBVIOUS
<1>6. l \in Nat /\ maxLoggedBody \in Nat /\ l <= maxLoggedBody /\ Len(bytes) \in Nat
  BY <1>1, <1>5, PipelineAssumption DEF LogAgrees
<1>7. PICK k : k = Smaller(maxLoggedBody - l, Len(bytes))
  OBVIOUS
<1>8. k \in 0..Len(bytes) /\ k <= maxLoggedBody - l
  <2>1. maxLoggedBody - l \in Nat
    BY <1>6
  <2> QED
    BY <1>6, <1>7, <2>1, SmallerIsBoth
<1>9. PICK body : body = wr.log.body \o kept
  OBVIOUS
<1> USE <1>2
<1>10. /\ body \in Seq(Authors) /\ Len(body) <= maxLoggedBody
       /\ wr.log.status < 400 => body = wr.log.body
       /\ wr.log.status >= 400 => body = wr.log.body \o SubSeq(bytes, 1, k)
  <2>1. CASE wr.log.status >= 400
    <3>1. body = wr.log.body \o SubSeq(bytes, 1, k)
      BY <1>5, <1>7, <1>9, <2>1
    <3>2. body \in Seq(Authors) /\ Len(body) = l + k
      BY <1>1, <1>5, <1>8, <3>1, Attached
    <3>3. l + k <= maxLoggedBody
      BY <1>6, <1>8
    <3>4. ~(wr.log.status < 400)
      BY <1>1, <2>1
    <3> QED
      BY <3>1, <3>2, <3>3, <3>4
  <2>2. CASE ~(wr.log.status >= 400)
    <3>1. body = wr.log.body \o << >>
      BY <1>9, <2>2
    <3>2. body = wr.log.body
      BY <1>1, <3>1
    <3> QED
      BY <1>1, <1>5, <1>6, <2>2, <3>2
  <2> QED
    BY <2>1, <2>2
<1> HIDE DEF kept, room
<1> HIDE <1>2
<1>11. /\ WriterShape(noted)
       /\ noted.wire = wr.wire /\ noted.header = wr.header
       /\ noted.serverWritten = wr.serverWritten
       /\ noted.log.wroteHeader = wr.log.wroteHeader /\ noted.log.status = wr.log.status
       /\ noted.log.body = body /\ noted.log.size = wr.log.size + n
  <2>1. "log" \in DOMAIN wr /\ "body" \in DOMAIN wr.log /\ "size" \in DOMAIN wr.log
    BY DEF WriterShape
  <2>2. PICK log : log = [wr.log EXCEPT !.body = body, !.size = wr.log.size + n]
    OBVIOUS
  <2>3. /\ DOMAIN log = DOMAIN wr.log
        /\ log.wroteHeader = wr.log.wroteHeader /\ log.status = wr.log.status
        /\ log.body = body /\ log.size = wr.log.size + n
    BY <2>1, <2>2
  <2>4. noted = [wr EXCEPT !.log = log]
    BY <1>2, <1>3, <1>9, <2>1, <2>2
  <2>5. /\ DOMAIN noted = DOMAIN wr /\ noted.log = log /\ noted.wire = wr.wire
        /\ noted.header = wr.header /\ noted.serverWritten = wr.serverWritten
    BY <2>1, <2>4
  <2>6. wr.log.size + n \in Nat
    BY <1>1, <1>6
  <2>7. WriterShape(noted)
    BY <1>10, <2>3, <2>5, <2>6 DEF WriterShape
  <2> QED
    BY <2>3, <2>5, <2>7
<1>12. Took(noted, new, bytes, n) /\ new.log = noted.log
  <2>1. WriterShape(noted)
    BY <1>11
  <2> QED
    BY <1>4, <2>1, NetTook
<1>13. Took(wr, new, bytes, n)
  BY <1>11, <1>12 DEF Took
<1>14. /\ new.wire.status = wr.wire.status
       /\ new.wire.body = wr.wire.body \o SubSeq(bytes, 1, n)
       /\ new.wire.broken <=> wr.wire.broken \/ n < Len(bytes)
  BY <1>13 DEF Took
<1>15. Len(new.wire.body) = Len(wr.wire.body) + n
  <2>1. wr.wire.body \in Seq(Authors)
    BY <1>1
  <2>2. Len(wr.wire.body \o SubSeq(bytes, 1, n)) = Len(wr.wire.body) + n
    BY <2>1, Attached
  <2> QED
    BY <1>14, <2>2
<1>16. new.log.status >= 400 /\ ~new.wire.broken => new.log.body = Kept(new.wire.body)
  <2> SUFFICES ASSUME new.log.status >= 400, ~new.wire.broken
               PROVE  new.log.body = Kept(new.wire.body)
    OBVIOUS
  <2>1. wr.log.status >= 400 /\ new.log.body = body
    BY <1>11, <1>12
  <2>2. ~wr.wire.broken /\ n = Len(bytes) /\ wr.wire.body = << >>
    <3>1. ~wr.wire.broken /\ ~(n < Len(bytes))
      BY <1>14, SMTT(30)
    <3>2. PICK m \in Nat : m = Len(bytes)
      BY <1>6
    <3>3. n \in 0..m /\ ~(n < m)
      BY <3>1, <3>2
    <3>4. n = m
      BY ONLY <3>2, <3>3
    <3>5. wr.wire.body = << >>
      BY <3>1
    <3> QED
      BY <3>1, <3>2, <3>4, <3>5
  <2>3. wr.log.body = << >> /\ l = 0
    <3>1. wr.log.body = Kept(<< >>)
      BY <1>1, <2>1, <2>2 DEF LogAgrees
    <3>2. Len(<< >>) = 0
      OBVIOUS
    <3>3. Smaller(maxLoggedBody, 0) = 0
      BY <1>6, SmallerIsBoth
    <3>4. wr.log.body = SubSeq(<< >>, 1, 0)
      BY <3>1, <3>2, <3>3 DEF Kept
    <3>5. wr.log.body = << >>
      BY <3>4
    <3> QED
      BY <1>5, <3>2, <3>5
  <2>4. new.wire.body = bytes
    BY <1>1, <1>14, <2>2, Attached
  <2>5. body = SubSeq(bytes, 1, k)
    BY <1>1, <1>8, <1>10, <2>1, <2>3, Attached
  <2>6. k = Smaller(maxLoggedBody, Len(bytes))
    BY <1>6, <1>7, <2>3
  <2> QED
    BY <2>1, <2>4, <2>5, <2>6 DEF Kept
<1>17. new.log.status < 400 => new.log.body = << >>
  BY <1>10, <1>11, <1>12 DEF LogAgrees
<1> QED
  <2>1. new.log.wroteHeader /\ new.wire.status # 0
    BY <1>1, <1>11, <1>12, <1>14
  <2>2. new.log.status = new.wire.status
    BY <1>1, <1>11, <1>12, <1>14
  <2>3. new.log.size = Len(new.wire.body)
    BY <1>1, <1>11, <1>12, <1>15
  <2>4. Len(new.log.body) <= maxLoggedBody
    BY <1>10, <1>11, <1>12
  <2> QED
    BY <1>13, <1>16, <1>17, <2>1, <2>2, <2>3, <2>4 DEF LogAgrees

\* A payload goes through the writers of the frames on the stack.
LEMMA BodyOfFrames ==
  ASSUME NEW frames, NEW wr, WriterShape(wr), wr.wire.status # 0,
         Logged(frames) => LogAgrees(wr),
         ~wr.wire.broken => wr.wire.body = << >>,
         NEW by \in Authors, NEW size \in Nat, NEW n \in 0..size,
         NEW new, new = Write(frames, wr, Bytes(by, size), n)
  PROVE  /\ Took(wr, new, Bytes(by, size), n)
         /\ Logged(frames) => LogAgrees(new)
         /\ ~Logged(frames) => new.log = wr.log
<1>1. PICK bytes : bytes = Bytes(by, size)
  OBVIOUS
<1>2. bytes \in Seq(Authors) /\ n \in 0..Len(bytes) /\ SubSeq(bytes, 1, Len(bytes)) = bytes
  BY <1>1, BytesWritten
<1>3. CASE Logged(frames)
  <2>1. new = LogWrite(frames, wr, bytes, n)
    BY <1>1, <1>3 DEF Write
  <2> QED
    BY <1>1, <1>2, <1>3, <2>1, LogTook
<1>4. CASE ~Logged(frames)
  <2>1. new = NetWrite(wr, bytes, n)
    BY <1>1, <1>4 DEF Write
  <2> QED
    BY <1>1, <1>2, <1>4, <2>1, NetTook
<1> QED
  BY <1>3, <1>4
-----------------------------------------------------------------------------
(* What the handler is given and what is answered                            *)

\* The statuses binding may refuse a request with.
Refusals == {400, 406, 415, 422, 500}

LEMMA OneRefusal ==
  ASSUME NEW code \in Refusals
  PROVE  <<code>> \in Seq(Refusals)
OBVIOUS

LEMMA BodyRefusals ==
  ASSUME NEW name, NEW body, NEW zero
  PROVE  BodyErrors(name, body, zero) \in Seq(Refusals)
<1>1. << >> \in Seq(Refusals)
  OBVIOUS
<1>2. <<422>> \in Seq(Refusals) /\ <<400>> \in Seq(Refusals)
  <2>1. 422 \in Refusals /\ 400 \in Refusals
    BY DEF Refusals
  <2> QED
    BY <2>1, OneRefusal
<1> QED
  BY <1>1, <1>2, Zenon DEF BodyErrors

LEMMA IDRefusals ==
  ASSUME NEW value
  PROVE  IDErrors(value) \in Seq(Refusals)
<1>1. << >> \in Seq(Refusals)
  OBVIOUS
<1>2. 422 \in Refusals
  BY DEF Refusals
<1>3. <<422>> \in Seq(Refusals)
  BY <1>2, OneRefusal
<1> QED
  BY <1>1, <1>3, Zenon DEF IDErrors

LEMMA BindRefusals ==
  ASSUME NEW op \in Document, NEW r
  PROVE  BindErrors(op, r) \in Seq(Refusals)
<1>1. BindRequestErrors(op, r) \in Seq(Refusals)
  <2>0. \A s, u \in Seq(Refusals) : s \o u \in Seq(Refusals)
    OBVIOUS
  <2>1. CASE op.id = "ListSignatureDevices"
    <3>1. << >> \in Seq(Refusals)
      OBVIOUS
    <3> QED
      BY <2>1, <3>1 DEF BindRequestErrors, ListSignatureDevicesErrors
  <2>2. CASE op.id = "CreateSignatureDevice"
    BY <2>2, BodyRefusals DEF BindRequestErrors, CreateSignatureDeviceErrors
  <2>3. CASE op.id = "GetSignatureDevice"
    BY <2>3, IDRefusals DEF BindRequestErrors, GetSignatureDeviceErrors, DeviceIDErrors
  <2>4. CASE op.id = "ListDeviceSignatures"
    BY <2>4, IDRefusals DEF BindRequestErrors, ListDeviceSignaturesErrors, DeviceIDErrors
  <2>5. CASE op.id = "SignTransaction"
    <3>1. PICK s \in Seq(Refusals) :
            s = BodyErrors("SignTransactionRequest", r.body, SignTransactionRequest)
      BY BodyRefusals
    <3>2. PICK u \in Seq(Refusals) : u = DeviceIDErrors(op, r)
      BY IDRefusals DEF DeviceIDErrors
    <3>3. BindRequestErrors(op, r) = s \o u
      BY <2>5, <3>1, <3>2 DEF BindRequestErrors, SignTransactionErrors
    <3> QED
      BY <2>0, <3>3
  <2>6. CASE op.id = "GetDeviceSignature"
    <3>1. PICK s \in Seq(Refusals) : s = DeviceIDErrors(op, r)
      BY IDRefusals DEF DeviceIDErrors
    <3>2. PICK u \in Seq(Refusals) : u = SignatureIDErrors(op, r)
      BY IDRefusals DEF SignatureIDErrors
    <3>3. BindRequestErrors(op, r) = s \o u
      BY <2>6, <3>1, <3>2 DEF BindRequestErrors, GetDeviceSignatureErrors
    <3> QED
      BY <2>0, <3>3
  <2> QED
    BY <2>1, <2>2, <2>3, <2>4, <2>5, <2>6, DocumentIDs
<1>2. <<415>> \in Seq(Refusals) /\ <<500>> \in Seq(Refusals) /\ <<406>> \in Seq(Refusals)
  <2>1. 415 \in Refusals /\ 500 \in Refusals /\ 406 \in Refusals
    BY DEF Refusals
  <2> QED
    BY <2>1, OneRefusal
<1> QED
  BY <1>1, <1>2, Zenon DEF BindErrors

LEMMA FirstRefusal ==
  ASSUME NEW op \in Document, NEW r, BindErrors(op, r) # << >>
  PROVE  Head(BindErrors(op, r)) \in Nat \ {0}
<1>1. PICK errors \in Seq(Refusals) : errors = BindErrors(op, r)
  BY BindRefusals
<1>2. Head(errors) \in Refusals
  BY <1>1
<1> QED
  BY <1>1, <1>2 DEF Refusals

\* A responder of an operation has a status.
LEMMA RespondersAnswer ==
  ASSUME NEW op \in Document, NEW responder \in Responders(op.id)
  PROVE  responder.status \in Nat \ {0}
<1>1. \A status, payload : Responder(status, payload).status = status
  BY DEF Responder
<1>2. \A statuses \in SUBSET (Nat \ {0}) : \A e \in Errors(statuses) : e.status \in Nat \ {0}
  BY <1>1 DEF Errors
<1>3. \A kind : \A statuses \in SUBSET (Nat \ {0}), s \in Nat \ {0} :
        \A e \in {Responder(s, kind)} \cup Errors(statuses) : e.status \in Nat \ {0}
  BY <1>1, <1>2
<1>4. /\ {500} \in SUBSET (Nat \ {0}) /\ {404, 500} \in SUBSET (Nat \ {0})
      /\ {400, 409, 500} \in SUBSET (Nat \ {0}) /\ {400, 404, 500} \in SUBSET (Nat \ {0})
      /\ 200 \in Nat \ {0} /\ 201 \in Nat \ {0}
  OBVIOUS
<1>5. CASE op.id = "ListSignatureDevices"
  <2>1. responder \in {Responder(200, "SignatureDeviceListResponse")} \cup Errors({500})
    BY <1>5 DEF Responders, ListSignatureDevicesResponders
  <2> QED
    BY <1>3, <1>4, <2>1, SMTT(30)
<1>6. CASE op.id = "CreateSignatureDevice"
  <2>1. responder \in {Responder(201, "SignatureDeviceResponse")} \cup Errors({400, 409, 500})
    BY <1>6 DEF Responders, CreateSignatureDeviceResponders
  <2> QED
    BY <1>3, <1>4, <2>1
<1>7. CASE op.id = "GetSignatureDevice"
  <2>1. responder \in {Responder(200, "SignatureDevice")} \cup Errors({404, 500})
    BY <1>7 DEF Responders, GetSignatureDeviceResponders
  <2> QED
    BY <1>3, <1>4, <2>1
<1>8. CASE op.id = "ListDeviceSignatures"
  <2>1. responder \in {Responder(200, "SignatureListResponse")} \cup Errors({404, 500})
    BY <1>8 DEF Responders, ListDeviceSignaturesResponders
  <2> QED
    BY <1>3, <1>4, <2>1
<1>9. CASE op.id = "SignTransaction"
  <2>1. responder \in {Responder(201, "SignatureResponse")} \cup Errors({400, 404, 500})
    BY <1>9 DEF Responders, SignTransactionResponders
  <2> QED
    BY <1>3, <1>4, <2>1
<1>10. CASE op.id = "GetDeviceSignature"
  <2>1. responder \in {Responder(200, "Signature")} \cup Errors({404, 500})
    BY <1>10 DEF Responders, GetDeviceSignatureResponders
  <2> QED
    BY <1>3, <1>4, <2>1
<1> QED
  BY <1>5, <1>6, <1>7, <1>8, <1>9, <1>10, DocumentIDs

\* A handler that is called has a route, and the executor is its last frame.
LEMMA AtTheBottom ==
  ASSUME ControlInv, stage \in {"handle", "panicking"}
  PROVE  Len(entered) = 8 /\ Len(left) = 0 /\ route \in Document
<1>1. Len(entered) = 8
  BY DEF ControlInv, DepthInv
<1>2. Len(left) = 0
  BY <1>1, BottomIsEnd DEF ControlInv
<1>3. route \in Document
  BY <1>2 DEF ControlInv, RouteInv
<1> QED
  BY <1>1, <1>2, <1>3

LEMMA BoundInit ==
  ASSUME Init
  PROVE  BoundInv
<1>1. Len(left) = 8
  BY ApiChain DEF Init
<1> QED
  BY <1>1 DEF Init, BoundInv, NoParams

\* The frames above the executor leave the parameters alone.
LEMMA BoundOnTheWay ==
  ASSUME BoundInv, UNCHANGED <<request, bound>>, Len(left) # 0, Len(left') # 0,
         stage' \notin {"handle", "panicking"}
  PROVE  BoundInv'
BY DEF BoundInv

LEMMA BoundStep ==
  ASSUME ControlInv, BoundInv, AnswerInv, [Next]_vars
  PROVE  BoundInv'
<1>1. CASE SetResponseHeader
  <2>1. Enters(8)
    BY <1>1, PushedAt DEF SetResponseHeader
  <2> QED
    BY <1>1, <2>1, BoundOnTheWay DEF Enters, SetResponseHeader, At
<1>2. CASE RequestIDHandler
  <2>1. Enters(7)
    BY <1>2, PushedAt DEF RequestIDHandler
  <2> QED
    BY <1>2, <2>1, BoundOnTheWay DEF Enters, RequestIDHandler, At
<1>3. CASE SpecDocument
  <2>1. Enters(6)
    BY <1>3, PushedAt DEF SpecDocument, Static
  <2> QED
    BY <1>3, <2>1, BoundOnTheWay DEF Enters, SpecDocument, Static, Writing, At
<1>4. CASE SwaggerUI
  <2>1. Enters(5)
    BY <1>4, PushedAt DEF SwaggerUI, Static
  <2> QED
    BY <1>4, <2>1, BoundOnTheWay DEF Enters, SwaggerUI, Static, Writing, At
<1>5. CASE Router
  <2>1. Enters(4)
    BY <1>5, PushedAt DEF Router
  <2>2. stage' \in {"enter", "header"}
    BY <1>5 DEF Router, Writing, At
  <2> QED
    BY <1>5, <2>1, <2>2, BoundOnTheWay DEF Enters, Router
<1>6. CASE LogHTTP
  <2>1. Enters(3)
    BY <1>6, PushedAt DEF LogHTTP
  <2> QED
    BY <1>6, <2>1, BoundOnTheWay DEF Enters, LogHTTP, At
<1>7. CASE Recovery
  <2>1. Enters(2)
    BY <1>7, PushedAt DEF Recovery
  <2> QED
    BY <1>7, <2>1, BoundOnTheWay DEF Enters, Recovery, At
<1>8. CASE Bind
  <2>1. Len(left) = 1 /\ Len(left') = 0
    BY <1>8, PushedAt DEF Bind, Enters
  <2>2. ~bound.given
    BY <2>1 DEF BoundInv
  <2>3. UNCHANGED <<request, route>>
    BY <1>8 DEF Bind
  <2>4. CASE BindErrors(route, request) = << >>
    <3>1. bound' = Params(route, request) /\ stage' = "handle"
      BY <1>8, <2>4 DEF Bind
    <3>2. bound'.given = TRUE
      BY <3>1 DEF Params
    <3> QED
      BY <2>1, <2>3, <2>4, <3>1, <3>2 DEF BoundInv
  <2>5. CASE BindErrors(route, request) # << >>
    <3>1. bound' = bound /\ stage' = "header"
      BY <1>8, <2>5 DEF Bind, Writing
    <3> QED
      BY <2>1, <2>2, <2>3, <2>5, <3>1 DEF BoundInv
  <2> QED
    BY <2>4, <2>5
<1>9. CASE Handle
  BY <1>9 DEF Handle, Writing, BoundInv
<1>10. CASE HandlerPanics
  <2>1. route \in Document /\ stage = "handle"
    BY <1>10, AtTheBottom DEF HandlerPanics
  <2>2. route.id \in Wired
    BY <1>10, <2>1, HandlerOf DEF HandlerPanics
  <2> QED
    BY <1>10, <2>1, <2>2 DEF HandlerPanics, BoundInv
<1>11. CASE WriteStatus
  BY <1>11 DEF WriteStatus, BoundInv
<1>12. CASE WriteBody
  <2>1. /\ UNCHANGED <<request, left, route, bound>> /\ stage = "body"
        /\ stage' \in {"panicking", "return"}
        /\ stage' = "panicking" => answer.by = "service"
    BY <1>12 DEF WriteBody
  <2>2. answer.by = "service" => bound.given /\ route.id \in Wired
    BY <2>1 DEF AnswerInv
  <2> QED
    BY <2>1, <2>2 DEF BoundInv
<1>13. CASE Unwind
  <2>1. /\ UNCHANGED <<request, left, route, bound>>
        /\ stage' \in {"header", "closed"}
    BY <1>13 DEF Unwind, Writing
  <2> QED
    BY <2>1 DEF BoundInv
<1>14. CASE Return
  BY <1>14 DEF Return, BoundInv
<1>15. CASE UNCHANGED vars
  BY <1>15 DEF vars, BoundInv
<1> QED
  BY <1>1, <1>2, <1>3, <1>4, <1>5, <1>6, <1>7, <1>8, <1>9, <1>10, <1>11, <1>12, <1>13,
     <1>14, <1>15
  DEF Next, Served

\* The stages in which an answer stands.
Answered == stage \in {"header", "body", "return", "closed"}

LEMMA AnswerInit ==
  ASSUME Init
  PROVE  AnswerInv
BY DEF Init, AnswerInv, NoAnswer, None, Authors

\* An answer that no handler gives.
LEMMA AnswerGiven ==
  ASSUME AnswerInv, UNCHANGED <<bound, route>>, NEW status \in Nat \ {0}, NEW payload,
         NEW size \in Sizes, NEW by \in {"static", "error"}, ~bound.given,
         Writing(status, payload, size, by)
  PROVE  AnswerInv'
BY DEF AnswerInv, Writing, Authors

\* A step that gives no answer.
LEMMA AnswerKept ==
  ASSUME AnswerInv, UNCHANGED <<answer, bound, route>>, Answered' => Answered
  PROVE  AnswerInv'
BY DEF AnswerInv, Answered

LEMMA AnswerStep ==
  ASSUME ControlInv, BoundInv, AnswerInv, [Next]_vars
  PROVE  AnswerInv'
<1>1. CASE SetResponseHeader \/ RequestIDHandler \/ LogHTTP \/ Recovery
  BY <1>1, AnswerKept DEF SetResponseHeader, RequestIDHandler, LogHTTP, Recovery, At, Answered
<1>2. ASSUME NEW name, NEW path, Static(name, path), Len(left) # 0
      PROVE  AnswerInv'
  <2>1. ~bound.given
    BY <1>2 DEF BoundInv
  <2>2. CASE Clean(request.path) = path
    <3>1. PICK size \in Sizes : Writing(200, "text", size, "static")
      BY <1>2, <2>2 DEF Static
    <3>2. UNCHANGED <<bound, route>>
      BY <1>2 DEF Static
    <3> QED
      BY <2>1, <3>1, <3>2, AnswerGiven
  <2>3. CASE Clean(request.path) # path
    BY <1>2, <2>3, AnswerKept DEF Static, At, Answered
  <2> QED
    BY <2>2, <2>3
<1>3. CASE SpecDocument
  <2>1. Enters(6)
    BY <1>3, PushedAt DEF SpecDocument, Static
  <2> QED
    BY <1>2, <1>3, <2>1 DEF SpecDocument, Enters
<1>4. CASE SwaggerUI
  <2>1. Enters(5)
    BY <1>4, PushedAt DEF SwaggerUI, Static
  <2> QED
    BY <1>2, <1>4, <2>1 DEF SwaggerUI, Enters
<1>5. CASE Router
  <2>1. Enters(4)
    BY <1>5, PushedAt DEF Router
  <2>2. ~bound.given
    BY <2>1 DEF BoundInv, Enters
  <2>3. CASE Routes(request.method, Clean(request.path)) # {}
    <3>1. UNCHANGED <<stage, answer, bound>> /\ stage = "enter"
      BY <1>5, <2>3 DEF Router, At
    <3> QED
      BY <2>2, <3>1 DEF AnswerInv
  <2>4. CASE Routes(request.method, Clean(request.path)) = {}
    <3>1. PICK status \in {404, 405}, size \in Sizes : Writing(status, "text", size, "error")
      BY <1>5, <2>4 DEF Router
    <3>2. UNCHANGED <<bound, route>>
      BY <1>5, <2>4 DEF Router
    <3> QED
      BY <2>2, <3>1, <3>2, AnswerGiven
  <2> QED
    BY <2>3, <2>4
<1>6. CASE Bind
  <2>1. Len(left) = 1 /\ stage = "enter"
    BY <1>6, PushedAt DEF Bind, Enters, At
  <2>2. route \in Document
    BY <2>1 DEF ControlInv, RouteInv
  <2>3. ~bound.given
    BY <2>1 DEF BoundInv
  <2>4. CASE BindErrors(route, request) = << >>
    <3>1. UNCHANGED answer /\ stage' = "handle"
      BY <1>6, <2>4 DEF Bind
    <3>2. answer.by # "service"
      BY <2>3 DEF AnswerInv
    <3> QED
      BY <3>1, <3>2 DEF AnswerInv
  <2>5. CASE BindErrors(route, request) # << >>
    <3>0. PICK status : status = Head(BindErrors(route, request))
      OBVIOUS
    <3>1. PICK size \in Sizes : Writing(status, "text", size, "error")
      BY <1>6, <2>5, <3>0 DEF Bind
    <3>2. status \in Nat \ {0}
      BY <2>2, <2>5, <3>0, FirstRefusal
    <3>3. UNCHANGED <<bound, route>>
      BY <1>6, <2>5 DEF Bind
    <3> QED
      BY <2>3, <3>1, <3>2, <3>3, AnswerGiven
  <2> QED
    BY <2>4, <2>5
<1>7. CASE Handle
  <2>1. route \in Document /\ stage = "handle" /\ UNCHANGED <<bound, route>> /\ bound.given
    BY <1>7, AtTheBottom DEF Handle, BoundInv
  <2>2. CASE route.id \in Wired
    <3>1. PICK responder \in Responders(route.id), size \in Sizes :
            \E payload \in Payloads(responder.payload, bound) :
              Writing(responder.status, payload, size, "service")
      BY <1>7, <2>1, <2>2, HandlerOf DEF Handle
    <3>2. PICK payload \in Payloads(responder.payload, bound) :
            Writing(responder.status, payload, size, "service")
      BY <3>1
    <3>3. responder.status \in Nat \ {0}
      BY <2>1, RespondersAnswer
    <3>4. /\ answer'.status = responder.status /\ answer'.payload = payload
          /\ answer'.size = size /\ answer'.by = "service"
      BY <3>2 DEF Writing
    <3> QED
      BY <2>1, <2>2, <3>3, <3>4 DEF AnswerInv, Authors
  <2>3. CASE route.id \notin Wired
    <3>1. PICK size \in Sizes : Writing(501, "text", size, "notImplemented")
      BY <1>7, <2>1, <2>3, HandlerOf DEF Handle
    <3> QED
      BY <2>1, <2>3, <3>1 DEF AnswerInv, Writing, Authors
  <2> QED
    BY <2>2, <2>3
<1>8. CASE HandlerPanics \/ WriteStatus
  BY <1>8, AnswerKept DEF HandlerPanics, WriteStatus, Answered
<1>9. CASE WriteBody
  <2>1. UNCHANGED <<answer, bound, route>> /\ stage = "body"
    BY <1>9 DEF WriteBody
  <2> QED
    BY <2>1, AnswerKept DEF Answered
<1>10. CASE Unwind
  <2>1. UNCHANGED <<bound, route>> /\ stage = "panicking"
    BY <1>10 DEF Unwind
  <2>2. bound.given /\ route.id \in Wired
    BY <2>1 DEF BoundInv
  <2>3. Len(entered) = 8
    BY <2>1, AtTheBottom
  <2>4. PICK kept : kept = SelectLastInSeq(entered, LAMBDA m : m = "Recovery")
    OBVIOUS
  <2>5. kept = 7
    BY <2>3, <2>4, CaughtByRecovery DEF ControlInv
  <2>6. kept > 0 => \E size \in Sizes : Writing(500, "text", size, "Recovery")
    BY <1>10, <2>4 DEF Unwind
  <2>7. PICK size \in Sizes : Writing(500, "text", size, "Recovery")
    BY <2>5, <2>6
  <2> QED
    BY <2>1, <2>2, <2>7 DEF AnswerInv, Writing, Authors
<1>11. CASE Return
  BY <1>11, AnswerKept DEF Return, Answered
<1>12. CASE UNCHANGED vars
  BY <1>12, AnswerKept DEF vars, Answered
<1> QED
  BY <1>1, <1>3, <1>4, <1>5, <1>6, <1>7, <1>8, <1>9, <1>10, <1>11, <1>12 DEF Next, Served
-----------------------------------------------------------------------------
(* What goes out                                                             *)

LEMMA WriterInit ==
  ASSUME Init
  PROVE  WriterInv
<1>1. Len(left) = 8
  BY ApiChain DEF Init
<1>2. w = NewWriter /\ stage = "enter"
  BY DEF Init
<1>3. << >> \in Seq(Authors)
  OBVIOUS
<1>4. WriterShape(w)
  BY <1>2, <1>3 DEF WriterShape, NewWriter
<1>5. HeadersInv(w) /\ LogInv(w)
  BY <1>1, <1>2 DEF HeadersInv, LogInv, NewWriter
<1>6. MessageInv
  BY <1>2 DEF MessageInv, NewWriter
<1> QED
  BY <1>4, <1>5, <1>6 DEF WriterInv

\* A step that writes nothing, on either side of log_http's frame.
LEMMA WriterKept ==
  ASSUME WriterInv, UNCHANGED <<w, request>>,
         Len(left') <= 6 => Len(left) <= 6,
         Len(left) <= 2 <=> Len(left') <= 2,
         MessageInv'
  PROVE  WriterInv'
<1>1. WriterShape(w)'
  BY DEF WriterInv
<1>2. HeadersInv(w)'
  BY DEF WriterInv, HeadersInv, Identified
<1>3. LogInv(w)'
  BY DEF WriterInv, LogInv, LogAgrees
<1> QED
  BY <1>1, <1>2, <1>3 DEF WriterInv

\* The step into the first frame, before any header.
LEMMA HeadersBefore ==
  ASSUME WriterInv, UNCHANGED <<w, request>>, Enters(8), MessageInv'
  PROVE  WriterInv'
BY WriterKept DEF Enters

\* In a stage that writes, log_http's frame is on the stack exactly when it has
\* been entered.
LEMMA LoggedWhileWriting ==
  ASSUME ControlInv, stage \in {"header", "body"}
  PROVE  /\ Logged(entered) <=> Len(left) <= 2
         /\ Len(entered) >= 3 /\ Len(left) <= 6
         /\ ~journal.finished
<1>1. PICK m, n : m = Len(entered) /\ n = Len(left)
  OBVIOUS
<1>2. m \in 0..8 /\ n \in 0..8
  BY <1>1, FramesByDepth DEF ControlInv
<1>3. m >= 3 /\ (m + n = 8 \/ (n = 0 /\ m = 7))
  BY <1>1 DEF ControlInv, DepthInv, WayIn, Recovering
<1>4. (m >= 6 <=> n <= 2) /\ n <= 6
  BY ONLY <1>2, <1>3
<1>5. Logged(entered) <=> m >= 6
  BY <1>1, FramesByDepth DEF ControlInv
<1>6. journal.finished => n <= 2 /\ m <= 5
  BY <1>1 DEF ControlInv, JournalInv
<1>7. ~(n <= 2 /\ m <= 5)
  BY ONLY <1>2, <1>4
<1> QED
  BY <1>1, <1>3, <1>4, <1>5, <1>6, <1>7

LEMMA StatusStep ==
  ASSUME ControlInv, AnswerInv, WriterInv, WriteStatus
  PROVE  WriterInv'
<1>1. /\ stage = "header" /\ stage' = "body"
      /\ UNCHANGED <<request, left, entered, answer>>
      /\ answer.status \in Nat \ {0}
  BY DEF WriteStatus, AnswerInv
<1>2. PICK wr : wr = IF answer.by = "Recovery" THEN w
                     ELSE SetHeader(w, "Content-Type", "set")
  OBVIOUS
<1>3. w' = WriteHeader(entered, wr, answer.status)
  BY <1>2 DEF WriteStatus
<1>4. /\ WriterShape(wr) /\ wr.wire = w.wire /\ wr.log = w.log
      /\ wr.serverWritten = w.serverWritten
      /\ Identified(w.header) => Identified(wr.header)
  <2>1. CASE answer.by = "Recovery"
    BY <1>2, <2>1 DEF WriterInv
  <2>2. CASE answer.by # "Recovery"
    <3>1. wr = SetHeader(w, "Content-Type", "set") /\ WriterShape(w)
      BY <1>2, <2>2 DEF WriterInv
    <3>2. /\ WriterShape(wr) /\ wr.wire = w.wire /\ wr.log = w.log
          /\ wr.serverWritten = w.serverWritten
          /\ DOMAIN wr.header = DOMAIN w.header \cup {"Content-Type"}
          /\ \A n \in DOMAIN w.header : n # "Content-Type" => wr.header[n] = w.header[n]
      BY <3>1, HeaderSet
    <3> QED
      BY <3>2 DEF Identified
  <2> QED
    BY <2>1, <2>2
<1>5. Len(left) <= 6 /\ Len(entered) >= 3 /\ (Logged(entered) <=> Len(left) <= 2)
  BY <1>1, LoggedWhileWriting
<1>6. Identified(wr.header)
  BY <1>4, <1>5 DEF WriterInv, HeadersInv
<1>7. CASE w.wire.status = 0
  <2>1. ReadyToSend(wr)
    BY <1>4, <1>6, <1>7 DEF ReadyToSend, WriterInv, HeadersInv, MessageInv
  <2>2. Logged(entered) => LogAgrees(w)
    BY <1>5 DEF WriterInv, LogInv
  <2>3. Logged(entered) => ~wr.log.wroteHeader
    BY <1>4, <1>7, <2>2 DEF LogAgrees
  <2>4. FramesInv /\ Len(entered) >= 1
    <3>1. PICK m \in Nat : m = Len(entered)
      BY FramesByDepth DEF ControlInv
    <3> QED
      BY <1>5, <3>1 DEF ControlInv
  <2>5. /\ SentWith(w', answer.status)
        /\ ~Logged(entered) => w'.log = wr.log
        /\ Logged(entered) =>
             /\ w'.log.wroteHeader /\ w'.log.status = answer.status
             /\ w'.log.size = wr.log.size /\ w'.log.body = wr.log.body
    BY <1>1, <1>3, <2>1, <2>3, <2>4, StatusOfFrames
  <2>6. WriterShape(w')
    BY <2>5 DEF SentWith
  <2>7. HeadersInv(w)'
    BY <1>1, <2>5 DEF SentWith, HeadersInv, Identified
  <2>8. MessageInv'
    BY <1>1, <2>5 DEF SentWith, MessageInv
  <2>9. LogInv(w)'
    <3>1. CASE Len(left) <= 2
      <4>1. LogAgrees(w) /\ w.wire.body = << >> /\ w.log.status = 0
        BY <1>5, <1>7, <2>2, <3>1 DEF LogAgrees, WriterInv, MessageInv
      <4>2. w.log.body = << >> /\ w.log.size = 0 /\ Kept(<< >>) = << >>
        <5>1. w.log.body = << >> /\ w.log.size = Len(<< >>)
          BY <4>1 DEF LogAgrees
        <5>2. Smaller(maxLoggedBody, Len(<< >>)) = 0
          BY PipelineAssumption DEF Smaller
        <5>3. SubSeq(<< >>, 1, 0) = << >>
          OBVIOUS
        <5> QED
          BY <5>1, <5>2, <5>3 DEF Kept
      <4>3. /\ w'.log.wroteHeader /\ w'.log.status = answer.status
            /\ w'.log.size = 0 /\ w'.log.body = << >>
            /\ w'.wire.status = answer.status /\ w'.wire.body = << >>
        BY <1>4, <1>5, <2>5, <3>1, <4>2 DEF SentWith
      <4>4. LogAgrees(w')
        BY <1>1, <4>2, <4>3, PipelineAssumption DEF LogAgrees
      <4> QED
        BY <1>1, <3>1, <4>4 DEF LogInv, LogAgrees
    <3>2. CASE ~(Len(left) <= 2)
      BY <1>1, <1>4, <1>5, <2>5, <3>2 DEF LogInv, WriterInv
    <3> QED
      BY <3>1, <3>2
  <2> QED
    BY <2>6, <2>7, <2>8, <2>9 DEF WriterInv
<1>8. CASE w.wire.status # 0
  <2>1. wr.wire.status # 0 /\ wr.serverWritten
    BY <1>4, <1>8 DEF WriterInv, HeadersInv
  <2>2. Logged(entered) => wr.log.wroteHeader
    BY <1>4, <1>5, <1>8 DEF WriterInv, LogInv, LogAgrees
  <2>3. w' = wr
    BY <1>3, <2>1, <2>2, StatusAgain
  <2>4. WriterShape(w)'
    BY <1>4, <2>3
  <2>5. HeadersInv(w)'
    BY <1>1, <1>4, <1>6, <2>3 DEF WriterInv, HeadersInv, Identified
  <2>6. LogInv(w)'
    BY <1>1, <1>4, <2>3 DEF WriterInv, LogInv, LogAgrees
  <2>7. w.wire.broken
    BY <1>1, <1>8 DEF WriterInv, MessageInv
  <2>8. MessageInv'
    BY <1>1, <1>4, <1>8, <2>3, <2>7 DEF MessageInv
  <2> QED
    BY <2>4, <2>5, <2>6, <2>8 DEF WriterInv
<1> QED
  BY <1>7, <1>8

LEMMA BodyStep ==
  ASSUME ControlInv, AnswerInv, WriterInv, WriteBody
  PROVE  WriterInv'
<1>1. /\ stage = "body" /\ UNCHANGED <<request, left, entered, answer>>
      /\ answer.by \in Authors /\ answer.size \in Nat
  <2>1. stage = "body" /\ UNCHANGED <<request, left, entered, answer>>
    BY DEF WriteBody
  <2>2. answer.by \in Authors /\ answer.size \in Nat
    <3>1. answer.by \in Authors /\ answer.size \in Sizes \cup {0}
      BY DEF AnswerInv
    <3>2. \A size \in Sizes \cup {0} : size \in Nat
      BY PipelineAssumption
    <3> QED
      BY <3>1, <3>2
  <2> QED
    BY <2>1, <2>2
<1>2. PICK n \in Accepted(w, answer.size) :
        /\ w' = Write(entered, w, Bytes(answer.by, answer.size), n)
        /\ stage' = IF n < answer.size /\ answer.by = "service"
                    THEN "panicking" ELSE "return"
  BY DEF WriteBody
<1>3. n \in 0..answer.size
  BY <1>1, <1>2 DEF Accepted
<1>4. PICK by \in Authors, size \in Nat : by = answer.by /\ size = answer.size
  BY <1>1
<1>5. PICK bytes : bytes = Bytes(by, size)
  OBVIOUS
<1>6. /\ bytes \in Seq(Authors) /\ Len(bytes) = size /\ SubSeq(bytes, 1, size) = bytes
  BY <1>5, BytesWritten
<1>7. Logged(entered) <=> Len(left) <= 2
  BY <1>1, LoggedWhileWriting
<1>8. /\ WriterShape(w) /\ w.wire.status # 0
      /\ ~w.wire.broken => w.wire.body = << >> /\ w.wire.status = answer.status
      /\ Logged(entered) => LogAgrees(w)
  BY <1>1, <1>7 DEF WriterInv, MessageInv, LogInv
<1>9. /\ Took(w, w', bytes, n)
      /\ Logged(entered) => LogAgrees(w')
      /\ ~Logged(entered) => w'.log = w.log
  <2>1. n \in 0..size /\ w' = Write(entered, w, Bytes(by, size), n)
    BY <1>2, <1>3, <1>4
  <2> QED
    BY <1>5, <1>8, <2>1, BodyOfFrames
<1>10. WriterShape(w)'
  BY <1>9 DEF Took
<1>11. HeadersInv(w)'
  BY <1>1, <1>9 DEF WriterInv, HeadersInv, Identified, Took
<1>12. LogInv(w)'
  <2>1. CASE Len(left) <= 2
    <3>1. LogAgrees(w)'
      BY <1>7, <1>9, <2>1 DEF LogAgrees
    <3> QED
      BY <1>1, <2>1, <3>1 DEF LogInv
  <2>2. CASE ~(Len(left) <= 2)
    BY <1>1, <1>7, <1>9, <2>2 DEF LogInv, WriterInv
  <2> QED
    BY <2>1, <2>2
<1>13. MessageInv'
  <2>1. w'.wire.status = w.wire.status /\ (w'.wire.broken <=> w.wire.broken \/ n < size)
    BY <1>6, <1>9 DEF Took
  <2>2. ~w'.wire.broken => w'.wire.body = bytes /\ ~w.wire.broken
    <3> SUFFICES ASSUME ~w'.wire.broken
                 PROVE  w'.wire.body = bytes /\ ~w.wire.broken
      OBVIOUS
    <3>1. ~w.wire.broken /\ ~(n < size)
      BY <2>1
    <3>2. n \in 0..size
      BY <1>3, <1>4
    <3>3. n = size
      BY ONLY <1>4, <3>1, <3>2
    <3>4. w'.wire.body = << >> \o SubSeq(bytes, 1, size)
      BY <1>8, <1>9, <3>1, <3>3 DEF Took
    <3>5. << >> \o bytes = bytes
      BY <1>6
    <3> QED
      BY <1>6, <3>1, <3>4, <3>5
  <2>3. stage' \in {"panicking", "return"}
    BY <1>2
  <2>4. stage' = "panicking" => w'.wire.broken
    BY <1>2, <1>4, <2>1
  <2> QED
    BY <1>1, <1>4, <1>5, <1>8, <2>1, <2>2, <2>3, <2>4 DEF MessageInv
<1> QED
  BY <1>10, <1>11, <1>12, <1>13 DEF WriterInv

\* Unwind answers 500 from Recovery's frame: the connection is not ended here.
LEMMA Recovered ==
  ASSUME ControlInv, Unwind
  PROVE  /\ stage = "panicking" /\ stage' = "header"
         /\ UNCHANGED <<w, request, left, journal>>
<1>1. stage = "panicking" /\ Len(entered) = 8
  BY AtTheBottom DEF Unwind
<1>2. PICK kept : kept = SelectLastInSeq(entered, LAMBDA m : m = "Recovery")
  OBVIOUS
<1>3. kept = 7
  BY <1>1, <1>2, CaughtByRecovery DEF ControlInv
<1>4. /\ kept > 0 => (\E size \in Sizes : Writing(500, "text", size, "Recovery")) /\ UNCHANGED w
      /\ UNCHANGED <<request, left, journal>>
  BY <1>2 DEF Unwind
<1> QED
  BY <1>1, <1>3, <1>4 DEF Writing

LEMMA WriterStep ==
  ASSUME ControlInv, BoundInv, AnswerInv, WriterInv, [Next]_vars
  PROVE  WriterInv'
<1>1. CASE SetResponseHeader
  <2>1. Enters(8)
    BY <1>1, PushedAt DEF SetResponseHeader
  <2>2. UNCHANGED <<w, request, stage, answer>>
    BY <1>1 DEF SetResponseHeader
  <2>3. MessageInv'
    BY <2>2 DEF MessageInv, WriterInv
  <2> QED
    BY <2>1, <2>2, <2>3, HeadersBefore
<1>2. CASE RequestIDHandler
  <2>1. Enters(7)
    BY <1>2, PushedAt DEF RequestIDHandler
  <2>2. /\ w' = SetHeader(w, "X-Request-ID", RequestID(request))
        /\ UNCHANGED <<request, stage, answer>> /\ stage = "enter"
    BY <1>2 DEF RequestIDHandler, At
  <2>3. /\ WriterShape(w') /\ w'.wire = w.wire /\ w'.log = w.log
        /\ w'.serverWritten = w.serverWritten
        /\ DOMAIN w'.header = DOMAIN w.header \cup {"X-Request-ID"}
        /\ w'.header["X-Request-ID"] = RequestID(request)
    BY <2>2, HeaderSet DEF WriterInv
  <2>4. w.wire.status = 0
    BY <2>2 DEF WriterInv, MessageInv
  <2>5. HeadersInv(w)'
    BY <2>2, <2>3, <2>4 DEF WriterInv, HeadersInv, Identified, RequestID
  <2>6. LogInv(w)'
    BY <2>1, <2>3 DEF WriterInv, LogInv, Enters
  <2>7. MessageInv'
    BY <2>2, <2>3 DEF WriterInv, MessageInv
  <2> QED
    BY <2>3, <2>5, <2>6, <2>7 DEF WriterInv
<1>3. ASSUME NEW name, NEW path, Static(name, path), Enters(6) \/ Enters(5)
      PROVE  WriterInv'
  <2>1. UNCHANGED <<w, request>> /\ stage = "enter" /\ stage' \in {"enter", "header"}
    BY <1>3 DEF Static, Writing, At
  <2>2. w.wire.status = 0
    BY <2>1 DEF WriterInv, MessageInv
  <2>3. MessageInv'
    BY <2>1, <2>2 DEF WriterInv, MessageInv
  <2>4. (Len(left') <= 6 => Len(left) <= 6) /\ (Len(left) <= 2 <=> Len(left') <= 2)
    <3>1. PICK l, m : l = Len(left) /\ m = Len(left')
      OBVIOUS
    <3>2. (l = 6 /\ m = 5) \/ (l = 5 /\ m = 4)
      BY <1>3, <3>1 DEF Enters
    <3>3. (m <= 6 => l <= 6) /\ (l <= 2 <=> m <= 2)
      BY ONLY <3>2
    <3> QED
      BY <3>1, <3>3
  <2> QED
    BY <2>1, <2>3, <2>4, WriterKept
<1>4. CASE SpecDocument
  <2>1. Static("spec", <<"swagger.json">>)
    BY <1>4 DEF SpecDocument
  <2>2. Enters(6)
    BY <1>4, PushedAt DEF SpecDocument, Static
  <2> QED
    BY <1>3, <2>1, <2>2
<1>5. CASE SwaggerUI
  <2>1. Static("swaggerUI", <<"docs">>)
    BY <1>5 DEF SwaggerUI
  <2>2. Enters(5)
    BY <1>5, PushedAt DEF SwaggerUI, Static
  <2> QED
    BY <1>3, <2>1, <2>2
<1>6. CASE Router
  <2>1. Enters(4)
    BY <1>6, PushedAt DEF Router
  <2>2. UNCHANGED <<w, request>> /\ stage = "enter" /\ stage' \in {"enter", "header"}
    BY <1>6 DEF Router, Writing, At
  <2>3. w.wire.status = 0
    BY <2>2 DEF WriterInv, MessageInv
  <2>4. MessageInv'
    BY <2>2, <2>3 DEF WriterInv, MessageInv
  <2> QED
    BY <2>1, <2>2, <2>4, WriterKept DEF Enters
<1>7. CASE LogHTTP
  <2>1. Enters(3)
    BY <1>7, PushedAt DEF LogHTTP
  <2>2. UNCHANGED <<w, request, stage, answer>> /\ stage = "enter"
    BY <1>7 DEF LogHTTP, At
  <2>3. w.log = NewWriter.log /\ w.wire.status = 0 /\ w.wire.body = << >>
    BY <2>1, <2>2 DEF WriterInv, LogInv, MessageInv, Enters
  <2>4. /\ w.log.wroteHeader = FALSE /\ w.log.status = 0
        /\ w.log.size = 0 /\ w.log.body = << >>
    BY <2>3 DEF NewWriter
  <2>5. LogAgrees(w)
    BY <2>3, <2>4, PipelineAssumption DEF LogAgrees
  <2>6. LogInv(w)'
    BY <2>1, <2>2, <2>5 DEF LogInv, LogAgrees, Enters
  <2>7. HeadersInv(w)'
    BY <2>1, <2>2 DEF WriterInv, HeadersInv, Identified, Enters
  <2>8. WriterShape(w)' /\ MessageInv'
    BY <2>2 DEF WriterInv, MessageInv
  <2> QED
    BY <2>6, <2>7, <2>8 DEF WriterInv
<1>8. CASE Recovery
  <2>1. Enters(2)
    BY <1>8, PushedAt DEF Recovery
  <2>2. UNCHANGED <<w, request, stage, answer>>
    BY <1>8 DEF Recovery
  <2>3. MessageInv'
    BY <2>2 DEF WriterInv, MessageInv
  <2> QED
    BY <2>1, <2>2, <2>3, WriterKept DEF Enters
<1>9. CASE Bind
  <2>1. Enters(1)
    BY <1>9, PushedAt DEF Bind
  <2>2. UNCHANGED <<w, request>> /\ stage = "enter" /\ stage' \in {"handle", "header"}
    BY <1>9 DEF Bind, Writing, At
  <2>3. w.wire.status = 0
    BY <2>2 DEF WriterInv, MessageInv
  <2>4. MessageInv'
    BY <2>2, <2>3 DEF WriterInv, MessageInv
  <2> QED
    BY <2>1, <2>2, <2>4, WriterKept DEF Enters
<1>10. CASE Handle \/ HandlerPanics
  <2>1. UNCHANGED <<w, request, left>> /\ stage = "handle" /\ stage' \in {"header", "panicking"}
    BY <1>10 DEF Handle, HandlerPanics, Writing
  <2>2. w.wire.status = 0
    BY <2>1 DEF WriterInv, MessageInv
  <2>3. MessageInv'
    BY <2>1, <2>2 DEF WriterInv, MessageInv
  <2> QED
    BY <2>1, <2>3, WriterKept
<1>11. CASE WriteStatus
  BY <1>11, StatusStep
<1>12. CASE WriteBody
  BY <1>12, BodyStep
<1>13. CASE Unwind
  <2>1. UNCHANGED <<w, request, left>> /\ stage = "panicking" /\ stage' = "header"
    BY <1>13, Recovered
  <2>2. MessageInv'
    BY <2>1 DEF WriterInv, MessageInv
  <2> QED
    BY <2>1, <2>2, WriterKept
<1>14. CASE Return
  <2>1. UNCHANGED <<w, request, left, answer>> /\ stage = "return"
        /\ stage' \in {"return", "closed"}
    BY <1>14 DEF Return
  <2>2. MessageInv'
    BY <2>1 DEF WriterInv, MessageInv
  <2> QED
    BY <2>1, <2>2, WriterKept
<1>15. CASE UNCHANGED vars
  <2>1. UNCHANGED <<w, request, left, answer, stage>>
    BY <1>15 DEF vars
  <2>2. MessageInv'
    BY <2>1 DEF WriterInv, MessageInv
  <2> QED
    BY <2>1, <2>2, WriterKept
<1> QED
  BY <1>1, <1>2, <1>4, <1>5, <1>6, <1>7, <1>8, <1>9, <1>10, <1>11, <1>12, <1>13, <1>14,
     <1>15
  DEF Next, Served

LEMMA JournalInit ==
  ASSUME Init
  PROVE  LogReportsAnswer
BY DEF Init, LogReportsAnswer

LEMMA JournalStep ==
  ASSUME ControlInv, WriterInv, LogReportsAnswer, [Next]_vars
  PROVE  LogReportsAnswer'
<1>1. CASE SetResponseHeader \/ SpecDocument \/ SwaggerUI \/ Router \/ Recovery \/ Bind
           \/ Handle \/ HandlerPanics \/ UNCHANGED vars
  BY <1>1 DEF SetResponseHeader, SpecDocument, SwaggerUI, Static, Router, Recovery, Bind,
     Handle, HandlerPanics, vars, LogReportsAnswer
<1>2. CASE RequestIDHandler
  <2>1. Len(left) = 7 /\ UNCHANGED journal
    BY <1>2, PushedAt DEF RequestIDHandler, Enters
  <2>2. ~journal.finished
    BY <2>1 DEF ControlInv, JournalInv
  <2> QED
    BY <2>1, <2>2 DEF LogReportsAnswer
<1>3. CASE LogHTTP
  <2>1. Len(left) = 3 /\ journal' = [journal EXCEPT !.started = TRUE]
    BY <1>3, PushedAt DEF LogHTTP, Enters
  <2>2. ~journal.finished
    BY <2>1 DEF ControlInv, JournalInv
  <2>3. ~journal'.finished
    BY <2>1, <2>2 DEF ControlInv, JournalInv
  <2> QED
    BY <2>3 DEF LogReportsAnswer
<1>4. CASE WriteStatus \/ WriteBody
  <2>1. stage \in {"header", "body"} /\ UNCHANGED journal
    BY <1>4 DEF WriteStatus, WriteBody
  <2>2. ~journal.finished
    BY <2>1, LoggedWhileWriting
  <2> QED
    BY <2>1, <2>2 DEF LogReportsAnswer
<1>5. CASE Unwind
  BY <1>5, Recovered DEF LogReportsAnswer
<1>6. CASE Return
  <2>1. /\ stage = "return" /\ UNCHANGED w
        /\ journal' = IF Last(entered) = "log_http" THEN Finish(w, journal) ELSE journal
    BY <1>6 DEF Return
  <2>2. CASE Last(entered) # "log_http"
    BY <2>1, <2>2 DEF LogReportsAnswer
  <2>3. CASE Last(entered) = "log_http"
    <3>1. PICK m, n : m = Len(entered) /\ n = Len(left)
      OBVIOUS
    <3>2. m \in 0..8 /\ n \in 0..8 /\ m >= 1 /\ m + n <= 8
      BY <2>1, <3>1, FramesByDepth DEF ControlInv, FramesInv, DepthInv
    <3>3. m = 6
      BY <2>3, <3>1, <3>2, FramesByDepth DEF ControlInv
    <3>4. n <= 2
      BY ONLY <3>2, <3>3
    <3>5. LogAgrees(w)
      BY <3>1, <3>4 DEF WriterInv, LogInv
    <3>6. w.wire.status # 0 /\ w.wire.status \in Nat
      BY <2>1 DEF WriterInv, MessageInv, WriterShape
    <3>7. /\ journal'.finished /\ journal'.status = w.wire.status
          /\ journal'.size = Len(w.wire.body) /\ journal'.body = w.log.body
      BY <2>1, <2>3, <3>5, <3>6 DEF Finish, ControlInv, JournalInv, LogAgrees
    <3>8. ~w.wire.broken => w.log.body = IF w.wire.status >= 400
                                         THEN Kept(w.wire.body) ELSE << >>
      BY <3>5, <3>6 DEF LogAgrees
    <3> QED
      BY <2>1, <3>7, <3>8 DEF LogReportsAnswer, Kept
  <2> QED
    BY <2>2, <2>3
<1> QED
  BY <1>1, <1>2, <1>3, <1>4, <1>5, <1>6 DEF Next, Served
-----------------------------------------------------------------------------
(* The invariant and what follows from it                                    *)

LEMMA PipelineInit ==
  ASSUME Init
  PROVE  PipelineInv
<1>1. request \in Requests
  BY DEF Init
<1> QED
  BY <1>1, ControlInit, BoundInit, AnswerInit, WriterInit, JournalInit DEF PipelineInv

LEMMA PipelineStep ==
  ASSUME PipelineInv, [Next]_vars
  PROVE  PipelineInv'
<1>1. ControlInv /\ BoundInv /\ AnswerInv /\ WriterInv /\ LogReportsAnswer
  BY DEF PipelineInv
<1>2. ControlInv' /\ BoundInv' /\ AnswerInv' /\ WriterInv' /\ LogReportsAnswer'
  BY <1>1, ControlStep, BoundStep, AnswerStep, WriterStep, JournalStep
<1>3. request' = request
  BY DEF Next, vars, SetResponseHeader, RequestIDHandler, SpecDocument, SwaggerUI, Static,
     Router, LogHTTP, Recovery, Bind, Handle, HandlerPanics, WriteStatus, WriteBody, Unwind,
     Return, Served
<1> QED
  BY <1>2, <1>3 DEF PipelineInv

LEMMA PipelineInvariant == Spec => []PipelineInv
<1>1. Init => PipelineInv
  BY PipelineInit
<1>2. PipelineInv /\ [Next]_vars => PipelineInv'
  BY PipelineStep
<1> QED
  BY <1>1, <1>2, PTL DEF Spec

\* The line log_http writes tells what the client was sent, for any chain of
\* panics, cut writes and second statuses: status, length and an error's text.
THEOREM LogTellsTheAnswer == Spec => []LogReportsAnswer
<1>1. PipelineInv => LogReportsAnswer
  BY DEF PipelineInv
<1> QED
  BY <1>1, PipelineInvariant, PTL

\* A request that reaches an operation leaves both of log_http's lines, though
\* its handler or its responder panics, and the others leave none.
THEOREM RoutedRequestsAreLogged == Spec => []RoutedIsLogged
<1>1. ASSUME PipelineInv PROVE RoutedIsLogged
  <2> SUFFICES ASSUME closed
               PROVE  (journal.started <=> Routed) /\ (journal.started <=> journal.finished)
    BY DEF RoutedIsLogged
  <2>1. Len(entered) = 0 /\ stage = "closed"
    BY <1>1 DEF closed, PipelineInv, ControlInv, DepthInv
  <2>2. Routed <=> route \in Document
    <3>1. NoRoute.id = None
      BY DEF NoRoute
    <3>2. route \in Document => route.id # None
      BY DocumentIDs DEF None
    <3> QED
      BY <1>1, <3>1, <3>2 DEF Routed, PipelineInv, ControlInv, RouteInv
  <2>3. Len(left) <= 2 <=> route \in Document
    <3>1. PICK n : n = Len(left)
      OBVIOUS
    <3>2. (n <= 2 => route \in Document) /\ (route \in Document => n = 0)
      BY <1>1, <2>1, <3>1 DEF PipelineInv, ControlInv, RouteInv
    <3>3. n = 0 => n <= 2
      BY ONLY TRUE
    <3> QED
      BY <3>1, <3>2, <3>3
  <2> QED
    BY <1>1, <2>1, <2>2, <2>3 DEF PipelineInv, ControlInv, JournalInv
<1> QED
  BY <1>1, PipelineInvariant, PTL

\* Every request is answered, and every answer carries the server's name and
\* the request's identifier, whichever frame has written it.
THEOREM AnswersAreMarked == Spec => []AnswersCarryHeaders
<1>1. ASSUME PipelineInv PROVE AnswersCarryHeaders
  <2> SUFFICES ASSUME closed
               PROVE  AnswersCarryHeaders
    BY DEF AnswersCarryHeaders
  <2>1. w.wire.status # 0
    BY <1>1 DEF closed, PipelineInv, WriterInv, MessageInv
  <2>2. Identified(w.wire.headers) /\ "X-Server" \in DOMAIN w.wire.headers
    BY <1>1, <2>1 DEF PipelineInv, WriterInv, HeadersInv
  <2> QED
    BY <2>1, <2>2 DEF AnswersCarryHeaders, Identified, RequestID
<1> QED
  BY <1>1, PipelineInvariant, PTL

\* A client that gets a whole answer gets one message, under the status that
\* was meant for it.
THEOREM OneMessageAnswers == Spec => []WholeAnswerIsOneMessage
<1>1. PipelineInv => WholeAnswerIsOneMessage
  BY DEF PipelineInv, WriterInv, MessageInv, WholeAnswerIsOneMessage, closed
<1> QED
  BY <1>1, PipelineInvariant, PTL

\* A bound request is answered by the service exactly when Run has assigned the
\* operation's handler: the cache, filled before the router, holds every one.
THEOREM WiredServe == Spec => []ServedByService
<1>1. PipelineInv => ServedByService
  BY DEF PipelineInv, AnswerInv, ServedByService, closed
<1> QED
  BY <1>1, PipelineInvariant, PTL
-----------------------------------------------------------------------------
(* Answers and the document                                                  *)

Kinds == {"string", "Signature", "SignatureDevice", "SignatureDeviceResponse",
          "SignatureResponse", "SignatureDeviceListResponse", "SignatureListResponse"}

\* A responder among those of an operation whose answers the document names so.
LEMMA AnswerNamed ==
  ASSUME NEW status, NEW model, NEW errors, status \notin errors,
         NEW e \in {Responder(status, model)} \cup Errors(errors)
  PROVE  /\ e.status \in DOMAIN Answers(status, model, errors)
         /\ Answers(status, model, errors)[e.status] = e.payload
         /\ e.payload \in {model, "string"}
<1>1. DOMAIN Answers(status, model, errors) = {status} \cup errors
  BY DEF Answers
<1>2. CASE e = Responder(status, model)
  <2>1. e.status = status /\ e.payload = model
    BY <1>2 DEF Responder
  <2> QED
    BY <2>1 DEF Answers
<1>3. CASE e \in Errors(errors)
  <2>1. PICK s \in errors : e = Responder(s, "string")
    BY <1>3 DEF Errors
  <2>2. e.status = s /\ e.payload = "string"
    BY <2>1 DEF Responder
  <2> QED
    BY <2>1, <2>2 DEF Answers
<1> QED
  BY <1>2, <1>3

\* The status and the payload of a responder are the document's.
LEMMA RespondersDocumented ==
  ASSUME NEW op \in Document, NEW responder \in Responders(op.id)
  PROVE  /\ responder.status \in DOMAIN op.responses
         /\ op.responses[responder.status] = responder.payload
         /\ responder.payload \in Kinds
         /\ responder.payload = "SignatureDeviceResponse" => IsCreateSignatureDevice(op)
<1>1. CASE IsListSignatureDevices(op)
  <2>1. op.id = "ListSignatureDevices" /\ op.responses = Answers(200, "SignatureDeviceListResponse", {500})
    BY <1>1 DEF IsListSignatureDevices, IsOperation
  <2>2. responder \in {Responder(200, "SignatureDeviceListResponse")} \cup Errors({500})
    BY <2>1 DEF Responders, ListSignatureDevicesResponders
  <2>3. 200 \notin {500}
    OBVIOUS
  <2>4. /\ responder.status \in DOMAIN op.responses
        /\ op.responses[responder.status] = responder.payload
        /\ responder.payload \in {"SignatureDeviceListResponse", "string"}
    BY <2>1, <2>2, <2>3, AnswerNamed
  <2>5. responder.payload = "SignatureDeviceResponse" => IsCreateSignatureDevice(op)
    BY <1>1, <2>4
  <2> QED
    BY <2>4, <2>5 DEF Kinds
<1>2. CASE IsCreateSignatureDevice(op)
  <2>1. op.id = "CreateSignatureDevice" /\ op.responses = Answers(201, "SignatureDeviceResponse", {400, 409, 500})
    BY <1>2 DEF IsCreateSignatureDevice, IsOperation
  <2>2. responder \in {Responder(201, "SignatureDeviceResponse")} \cup Errors({400, 409, 500})
    BY <2>1 DEF Responders, CreateSignatureDeviceResponders
  <2>3. 201 \notin {400, 409, 500}
    OBVIOUS
  <2>4. /\ responder.status \in DOMAIN op.responses
        /\ op.responses[responder.status] = responder.payload
        /\ responder.payload \in {"SignatureDeviceResponse", "string"}
    BY <2>1, <2>2, <2>3, AnswerNamed
  <2>5. responder.payload = "SignatureDeviceResponse" => IsCreateSignatureDevice(op)
    BY <1>2, <2>4
  <2> QED
    BY <2>4, <2>5 DEF Kinds
<1>3. CASE IsGetSignatureDevice(op)
  <2>1. op.id = "GetSignatureDevice" /\ op.responses = Answers(200, "SignatureDevice", {404, 500})
    BY <1>3 DEF IsGetSignatureDevice, IsOperation
  <2>2. responder \in {Responder(200, "SignatureDevice")} \cup Errors({404, 500})
    BY <2>1 DEF Responders, GetSignatureDeviceResponders
  <2>3. 200 \notin {404, 500}
    OBVIOUS
  <2>4. /\ responder.status \in DOMAIN op.responses
        /\ op.responses[responder.status] = responder.payload
        /\ responder.payload \in {"SignatureDevice", "string"}
    BY <2>1, <2>2, <2>3, AnswerNamed
  <2>5. responder.payload = "SignatureDeviceResponse" => IsCreateSignatureDevice(op)
    BY <1>3, <2>4
  <2> QED
    BY <2>4, <2>5 DEF Kinds
<1>4. CASE IsListDeviceSignatures(op)
  <2>1. op.id = "ListDeviceSignatures" /\ op.responses = Answers(200, "SignatureListResponse", {404, 500})
    BY <1>4 DEF IsListDeviceSignatures, IsOperation
  <2>2. responder \in {Responder(200, "SignatureListResponse")} \cup Errors({404, 500})
    BY <2>1 DEF Responders, ListDeviceSignaturesResponders
  <2>3. 200 \notin {404, 500}
    OBVIOUS
  <2>4. /\ responder.status \in DOMAIN op.responses
        /\ op.responses[responder.status] = responder.payload
        /\ responder.payload \in {"SignatureListResponse", "string"}
    BY <2>1, <2>2, <2>3, AnswerNamed
  <2>5. responder.payload = "SignatureDeviceResponse" => IsCreateSignatureDevice(op)
    BY <1>4, <2>4
  <2> QED
    BY <2>4, <2>5 DEF Kinds
<1>5. CASE IsSignTransaction(op)
  <2>1. op.id = "SignTransaction" /\ op.responses = Answers(201, "SignatureResponse", {400, 404, 500})
    BY <1>5 DEF IsSignTransaction, IsOperation
  <2>2. responder \in {Responder(201, "SignatureResponse")} \cup Errors({400, 404, 500})
    BY <2>1 DEF Responders, SignTransactionResponders
  <2>3. 201 \notin {400, 404, 500}
    OBVIOUS
  <2>4. /\ responder.status \in DOMAIN op.responses
        /\ op.responses[responder.status] = responder.payload
        /\ responder.payload \in {"SignatureResponse", "string"}
    BY <2>1, <2>2, <2>3, AnswerNamed
  <2>5. responder.payload = "SignatureDeviceResponse" => IsCreateSignatureDevice(op)
    BY <1>5, <2>4
  <2> QED
    BY <2>4, <2>5 DEF Kinds
<1>6. CASE IsGetDeviceSignature(op)
  <2>1. op.id = "GetDeviceSignature" /\ op.responses = Answers(200, "Signature", {404, 500})
    BY <1>6 DEF IsGetDeviceSignature, IsOperation
  <2>2. responder \in {Responder(200, "Signature")} \cup Errors({404, 500})
    BY <2>1 DEF Responders, GetDeviceSignatureResponders
  <2>3. 200 \notin {404, 500}
    OBVIOUS
  <2>4. /\ responder.status \in DOMAIN op.responses
        /\ op.responses[responder.status] = responder.payload
        /\ responder.payload \in {"Signature", "string"}
    BY <2>1, <2>2, <2>3, AnswerNamed
  <2>5. responder.payload = "SignatureDeviceResponse" => IsCreateSignatureDevice(op)
    BY <1>6, <2>4
  <2> QED
    BY <2>4, <2>5 DEF Kinds
<1> QED
  BY <1>1, <1>2, <1>3, <1>4, <1>5, <1>6, DocumentOperations

\* What RefusedOnlyForZeros calls a zero in an item.
HoldsZero(item) == \E name \in DOMAIN item : item[name] \in {ZeroString, ZeroInt64}

LEMMA DeviceModelConforms ==
  ASSUME NEW item \in DeviceModels
  PROVE  /\ Conforms(item, SignatureDeviceSchema)
         /\ ValidateSignatureDevice(item) <=> ~HoldsZero(item)
<1>1. PICK dev \in StoredDevices : item = newSignatureDeviceModel(dev)
  BY DEF DeviceModels
<1>2. /\ DOMAIN item = {"id", "algorithm", "label", "signature_counter", "last_signature",
                        "public_key_pem"}
      /\ item.id \in UUIDPattern /\ item.algorithm \in AlgorithmEnum
      /\ item.label \in {"", "text"} /\ item.signature_counter \in Integers64
      /\ item.last_signature = "text" /\ item.public_key_pem = "text"
  BY <1>1 DEF StoredDevices, newSignatureDeviceModel
<1>3. Conforms(item, SignatureDeviceSchema)
  <2>1. PICK schema : schema = SignatureDeviceSchema
    OBVIOUS
  <2>2. /\ schema.required = DOMAIN item
        /\ DOMAIN schema.properties = DOMAIN item
        /\ schema.properties["algorithm"] = {"ECC", "RSA"}
        /\ schema.properties["id"] = UUIDs
        /\ schema.properties["label"] = Strings
        /\ schema.properties["last_signature"] = Strings
        /\ schema.properties["public_key_pem"] = Strings
        /\ schema.properties["signature_counter"] = Integers64
    BY <1>2, <2>1 DEF SignatureDeviceSchema, Schema
  <2>3. \A name \in DOMAIN item : item[name] \in schema.properties[name]
    BY <1>2, <2>2 DEF UUIDPattern, UUIDs, AlgorithmEnum, Strings
  <2> QED
    BY <2>1, <2>2, <2>3 DEF Conforms
<1>4. HoldsZero(item) <=> item.label = "" \/ item.signature_counter = "0"
  BY <1>2 DEF HoldsZero, ZeroString, ZeroInt64, UUIDPattern, AlgorithmEnum, Integers64
<1>5. ValidateSignatureDevice(item) <=> item.label # "" /\ item.signature_counter # "0"
  BY <1>2 DEF ValidateSignatureDevice, ValidateAlgorithm, ValidateID, RequiredString, Required,
     IsUUID, UUIDs, UUIDPattern, AlgorithmEnum, Integers64, ZeroString, ZeroInt64
<1> QED
  BY <1>3, <1>4, <1>5

LEMMA SignatureModelConforms ==
  ASSUME NEW item \in SignatureModels
  PROVE  /\ Conforms(item, SignatureSchema)
         /\ ValidateSignature(item) <=> ~HoldsZero(item)
<1>1. PICK sig \in StoredSignatures : item = newSignatureModel(sig)
  BY DEF SignatureModels
<1>2. /\ DOMAIN item = {"id", "device_id", "counter", "signature", "signed_data"}
      /\ item.id \in UUIDPattern /\ item.device_id \in UUIDPattern
      /\ item.counter \in Integers64
      /\ item.signature = "text" /\ item.signed_data = "text"
  BY <1>1 DEF StoredSignatures, newSignatureModel
<1>3. Conforms(item, SignatureSchema)
  <2>1. PICK schema : schema = SignatureSchema
    OBVIOUS
  <2>2. /\ schema.required = DOMAIN item
        /\ DOMAIN schema.properties = DOMAIN item
        /\ schema.properties["id"] = UUIDs /\ schema.properties["device_id"] = UUIDs
        /\ schema.properties["signature"] = Strings
        /\ schema.properties["signed_data"] = Strings
        /\ schema.properties["counter"] = Integers64
    BY <1>2, <2>1 DEF SignatureSchema, Schema
  <2>3. \A name \in DOMAIN item : item[name] \in schema.properties[name]
    BY <1>2, <2>2 DEF UUIDPattern, UUIDs, Strings
  <2> QED
    BY <2>1, <2>2, <2>3 DEF Conforms
<1>4. HoldsZero(item) <=> item.counter = "0"
  BY <1>2 DEF HoldsZero, ZeroString, ZeroInt64, UUIDPattern, Integers64
<1>5. ValidateSignature(item) <=> item.counter # "0"
  BY <1>2 DEF ValidateSignature, ValidateID, RequiredString, Required,
     IsUUID, UUIDs, UUIDPattern, Integers64, ZeroString, ZeroInt64
<1> QED
  BY <1>3, <1>4, <1>5

\* When an answer of that kind is refused by a client that validates it.
RefusedForZero(payload, kind) ==
  CASE kind = "string" -> TRUE
    [] kind \in {"SignatureDeviceListResponse", "SignatureListResponse"} ->
         \A i \in DOMAIN payload : ~HoldsZero(payload[i])
    [] OTHER -> ~HoldsZero(payload)

LEMMA PayloadsConform ==
  ASSUME NEW kind \in Kinds, NEW params,
         kind = "SignatureDeviceResponse" => params.body.id \in UUIDPattern,
         NEW payload \in Payloads(kind, params)
  PROVE  /\ AnswerConforms(payload, kind)
         /\ ValidateAnswer(payload, kind) <=> RefusedForZero(payload, kind)
<1>1. CASE kind = "string"
  BY <1>1 DEF Payloads, AnswerConforms, Strings, ValidateAnswer, RefusedForZero
<1>2. CASE kind = "SignatureDevice"
  <2>1. payload \in DeviceModels
    BY <1>2 DEF Payloads
  <2> QED
    BY <1>2, <2>1, DeviceModelConforms DEF AnswerConforms, ValidateAnswer, RefusedForZero
<1>3. CASE kind = "Signature"
  <2>1. payload \in SignatureModels
    BY <1>3 DEF Payloads
  <2> QED
    BY <1>3, <2>1, SignatureModelConforms DEF AnswerConforms, ValidateAnswer, RefusedForZero
<1>4. CASE kind = "SignatureDeviceResponse"
  <2>1. payload = [id |-> params.body.id, public_key_pem |-> "text"]
    BY <1>4 DEF Payloads
  <2>2. /\ DOMAIN payload = {"id", "public_key_pem"}
        /\ payload.id \in UUIDPattern /\ payload.public_key_pem = "text"
    BY <1>4, <2>1
  <2>3. Conforms(payload, SignatureDeviceResponseSchema)
    <3>1. PICK schema : schema = SignatureDeviceResponseSchema
      OBVIOUS
    <3>2. /\ schema.required = DOMAIN payload /\ DOMAIN schema.properties = DOMAIN payload
          /\ schema.properties["id"] = UUIDs
          /\ schema.properties["public_key_pem"] = Strings
      BY <2>2, <3>1 DEF SignatureDeviceResponseSchema, Schema
    <3>3. \A name \in DOMAIN payload : payload[name] \in schema.properties[name]
      BY <2>2, <3>2 DEF UUIDPattern, UUIDs, Strings
    <3> QED
      BY <3>1, <3>2, <3>3 DEF Conforms
  <2>4. ~HoldsZero(payload) /\ ValidateSignatureDeviceResponse(payload)
    BY <2>2 DEF HoldsZero, ValidateSignatureDeviceResponse, ValidateID, Required,
       RequiredString, IsUUID, UUIDs, UUIDPattern, ZeroString, ZeroInt64
  <2> QED
    BY <1>4, <2>3, <2>4 DEF AnswerConforms, ValidateAnswer, RefusedForZero
<1>5. CASE kind = "SignatureResponse"
  <2>1. payload = [signature |-> "text", signed_data |-> "text"]
    BY <1>5 DEF Payloads
  <2>2. /\ DOMAIN payload = {"signature", "signed_data"}
        /\ payload.signature = "text" /\ payload.signed_data = "text"
    BY <2>1
  <2>3. Conforms(payload, SignatureResponseSchema)
    <3>1. PICK schema : schema = SignatureResponseSchema
      OBVIOUS
    <3>2. /\ schema.required = DOMAIN payload /\ DOMAIN schema.properties = DOMAIN payload
          /\ schema.properties["signature"] = Strings
          /\ schema.properties["signed_data"] = Strings
      BY <2>2, <3>1 DEF SignatureResponseSchema, Schema
    <3>3. \A name \in DOMAIN payload : payload[name] \in schema.properties[name]
      BY <2>2, <3>2 DEF Strings
    <3> QED
      BY <3>1, <3>2, <3>3 DEF Conforms
  <2>4. ~HoldsZero(payload) /\ ValidateSignatureResponse(payload)
    BY <2>2 DEF HoldsZero, ValidateSignatureResponse, RequiredString, ZeroString, ZeroInt64
  <2> QED
    BY <1>5, <2>3, <2>4 DEF AnswerConforms, ValidateAnswer, RefusedForZero
<1>6. CASE kind = "SignatureDeviceListResponse"
  <2>1. payload = << >> \/ \E item \in DeviceModels : payload = <<item>>
    BY <1>6 DEF Payloads
  <2>2. \A i \in DOMAIN payload : payload[i] \in DeviceModels
    BY <2>1
  <2>3. \A i \in DOMAIN payload : /\ Conforms(payload[i], SignatureDeviceSchema)
                                  /\ ValidateSignatureDevice(payload[i])
                                       <=> ~HoldsZero(payload[i])
    BY <2>2, DeviceModelConforms
  <2> QED
    BY <1>6, <2>3 DEF AnswerConforms, SignatureDeviceListItems, ValidateAnswer,
       ValidateSignatureDeviceListResponse, RefusedForZero
<1>7. CASE kind = "SignatureListResponse"
  <2>1. payload = << >> \/ \E item \in SignatureModels : payload = <<item>>
    BY <1>7 DEF Payloads
  <2>2. \A i \in DOMAIN payload : payload[i] \in SignatureModels
    BY <2>1
  <2>3. \A i \in DOMAIN payload : /\ Conforms(payload[i], SignatureSchema)
                                  /\ ValidateSignature(payload[i])
                                       <=> ~HoldsZero(payload[i])
    BY <2>2, SignatureModelConforms
  <2> QED
    BY <1>7, <2>3 DEF AnswerConforms, SignatureListItems, ValidateAnswer,
       ValidateSignatureListResponse, RefusedForZero
<1> QED
  BY <1>1, <1>2, <1>3, <1>4, <1>5, <1>6, <1>7 DEF Kinds

\* Binding accepts no identifier of a new device that the pattern refuses.
LEMMA BoundDeviceID ==
  ASSUME NEW op, IsCreateSignatureDevice(op), NEW r, BindErrors(op, r) = << >>
  PROVE  Params(op, r).body.id \in UUIDPattern
<1>1. op.id = "CreateSignatureDevice" /\ op.body = "CreateSignatureDeviceRequest"
  BY DEF IsCreateSignatureDevice, IsOperation
<1>2. \A code : <<code>> # << >>
  OBVIOUS
<1>3. BindRequestErrors(op, r) = << >>
  BY <1>2, Zenon DEF BindErrors
<1>4. BodyErrors("CreateSignatureDeviceRequest", r.body, CreateSignatureDeviceRequest) = << >>
  BY <1>1, <1>3 DEF BindRequestErrors, CreateSignatureDeviceErrors
<1>5. PICK m : m = Decode(r.body.object, CreateSignatureDeviceRequest)
  OBVIOUS
<1>6. ValidateRequest("CreateSignatureDeviceRequest", m)
  BY <1>2, <1>4, <1>5, Zenon DEF BodyErrors
<1>7. m.id \in UUIDPattern
  BY <1>6 DEF ValidateRequest, ValidateCreateSignatureDeviceRequest, ValidateNewID,
     MatchesPattern
<1>8. Params(op, r).body = m
  BY <1>1, <1>5 DEF Params
<1> QED
  BY <1>7, <1>8

\* What the service answers, by the invariant.
LEMMA ServiceAnswers ==
  ASSUME PipelineInv, answer.by = "service"
  PROVE  /\ answer.status \in DOMAIN route.responses
         /\ AnswerConforms(answer.payload, route.responses[answer.status])
         /\ ValidateAnswer(answer.payload, route.responses[answer.status])
              <=> RefusedForZero(answer.payload, route.responses[answer.status])
<1>1. bound.given
  BY DEF PipelineInv, AnswerInv
<1>2. /\ Len(left) = 0 /\ bound = Params(route, request)
      /\ BindErrors(route, request) = << >>
  BY <1>1 DEF PipelineInv, BoundInv
<1>3. route \in Document
  BY <1>2 DEF PipelineInv, ControlInv, RouteInv
<1>4. PICK responder \in Responders(route.id) :
        /\ answer.status = responder.status
        /\ answer.payload \in Payloads(responder.payload, bound)
  BY DEF PipelineInv, AnswerInv
<1>5. PICK kind : kind = responder.payload
  OBVIOUS
<1>6. /\ answer.status \in DOMAIN route.responses
      /\ route.responses[answer.status] = kind
      /\ kind \in Kinds
      /\ kind = "SignatureDeviceResponse" => IsCreateSignatureDevice(route)
  BY <1>3, <1>4, <1>5, RespondersDocumented
<1>7. kind = "SignatureDeviceResponse" => bound.body.id \in UUIDPattern
  BY <1>2, <1>6, BoundDeviceID
<1>8. answer.payload \in Payloads(kind, bound)
  BY <1>4, <1>5
<1> QED
  BY <1>6, <1>7, <1>8, PayloadsConform

\* What a handler answers is in the document: its status is one of the
\* operation's, and its payload conforms to the schema of that status.
THEOREM ServiceKeepsTheDocument == Spec => []HandlerAnswersConform
<1>1. PipelineInv => HandlerAnswersConform
  BY ServiceAnswers DEF HandlerAnswersConform
<1> QED
  BY <1>1, PipelineInvariant, PTL

\* The generated Validate refuses an answer of the service exactly when a
\* required value in it is the zero value of its type.
THEOREM ZerosAreRefused == Spec => []RefusedOnlyForZeros
<1>1. PipelineInv => RefusedOnlyForZeros
  BY ServiceAnswers DEF RefusedOnlyForZeros, RefusedForZero, HoldsZero
<1> QED
  BY <1>1, PipelineInvariant, PTL
-----------------------------------------------------------------------------
(* Binding and the document                                                  *)

LEMMA NoErrors ==
  /\ \A code : <<code>> # << >>
  /\ \A s, u \in Seq(Refusals) : s \o u = << >> <=> s = << >> /\ u = << >>
<1>1. \A code : <<code>> # << >>
  OBVIOUS
<1>2. ASSUME NEW s \in Seq(Refusals), NEW u \in Seq(Refusals)
      PROVE  s \o u = << >> <=> s = << >> /\ u = << >>
  <2>1. /\ s \o u \in Seq(Refusals) /\ Len(s \o u) = Len(s) + Len(u)
        /\ Len(s) \in Nat /\ Len(u) \in Nat
    OBVIOUS
  <2>2. \A q \in Seq(Refusals) : q = << >> <=> Len(q) = 0
    OBVIOUS
  <2>3. Len(s) + Len(u) = 0 <=> Len(s) = 0 /\ Len(u) = 0
    BY <2>1
  <2> QED
    BY <2>1, <2>2, <2>3
<1> QED
  BY <1>1, <1>2

LEMMA IDAccepted ==
  ASSUME NEW value
  PROVE  IDErrors(value) = << >> <=> value \in UUIDPattern
<1>1. MatchesPattern(value) /\ IsUUID(value) <=> value \in UUIDPattern
  BY DEF MatchesPattern, IsUUID, UUIDs
<1> QED
  BY <1>1, NoErrors, Zenon DEF IDErrors

\* The bodies of the two requests: what is decoded and validated is what the
\* schema allows of a trimmed object.
LEMMA CreateBodyAccepted ==
  ASSUME NEW body, body.kind \in {"none", "blank", "malformed", "object"}
  PROVE  BodyErrors("CreateSignatureDeviceRequest", body, CreateSignatureDeviceRequest) = << >>
           <=> /\ body.kind = "object"
               /\ Conforms(Trimmed(body.object, CreateSignatureDeviceRequestSchema),
                           CreateSignatureDeviceRequestSchema)
<1>1. PICK object, schema, zero :
        /\ object = body.object /\ schema = CreateSignatureDeviceRequestSchema
        /\ zero = CreateSignatureDeviceRequest
  OBVIOUS
<1>2. /\ schema.required = {"id", "algorithm"}
      /\ DOMAIN schema.properties = {"algorithm", "id", "label"}
      /\ schema.properties["algorithm"] = {"ECC", "RSA"}
      /\ schema.properties["id"] = UUIDs \cap UUIDPattern
      /\ schema.properties["label"] = Strings \ {""}
  BY <1>1 DEF CreateSignatureDeviceRequestSchema, Schema
<1>3. /\ DOMAIN zero = {"algorithm", "id", "label"}
      /\ zero["algorithm"] = "" /\ zero["id"] = "" /\ zero["label"] = ""
  BY <1>1 DEF CreateSignatureDeviceRequest, ZeroString
<1>4. PICK m, trimmed : m = Decode(object, zero) /\ trimmed = Trimmed(object, schema)
  OBVIOUS
<1>5. /\ m.algorithm = IF "algorithm" \in DOMAIN object THEN object["algorithm"] ELSE ""
      /\ m.id = IF "id" \in DOMAIN object THEN object["id"] ELSE ""
      /\ m.label = IF "label" \in DOMAIN object THEN object["label"] ELSE ""
  BY <1>3, <1>4 DEF Decode
<1>6. /\ DOMAIN trimmed = {name \in DOMAIN object \cap {"algorithm", "id", "label"} :
                             object[name] # "" \/ name \in {"id", "algorithm"}}
      /\ \A name \in DOMAIN trimmed : trimmed[name] = object[name]
  BY <1>2, <1>4 DEF Trimmed
<1>7. ValidateRequest("CreateSignatureDeviceRequest", m)
        <=> m.algorithm \in {"ECC", "RSA"} /\ m.id \in UUIDPattern
  BY DEF ValidateRequest, ValidateCreateSignatureDeviceRequest, ValidateAlgorithm,
     ValidateNewID, ValidateNewLabel, RequiredString, Required, MinLengthOne, MatchesPattern,
     IsUUID, AlgorithmEnum, UUIDs, UUIDPattern, ZeroString, ZeroInt64
<1>8. CanDecode(object, zero)
        <=> \A name \in DOMAIN object \cap {"algorithm", "id", "label"} :
              object[name] \in Strings
  BY <1>3 DEF CanDecode
<1>9. Conforms(trimmed, schema)
        <=> /\ "id" \in DOMAIN trimmed /\ trimmed["id"] \in UUIDPattern
            /\ "algorithm" \in DOMAIN trimmed /\ trimmed["algorithm"] \in {"ECC", "RSA"}
            /\ "label" \in DOMAIN trimmed => trimmed["label"] \in Strings \ {""}
  <2>1. DOMAIN trimmed \subseteq {"algorithm", "id", "label"}
    BY <1>6
  <2> QED
    BY <1>2, <2>1 DEF Conforms, UUIDs
<1>10. Conforms(trimmed, schema)
         <=> CanDecode(object, zero) /\ ValidateRequest("CreateSignatureDeviceRequest", m)
  <2>1. /\ "" \in Strings /\ "" \notin UUIDPattern /\ "" \notin {"ECC", "RSA"}
        /\ UUIDPattern \subseteq Strings /\ {"ECC", "RSA"} \subseteq Strings
    BY DEF UUIDPattern, Strings
  <2>2. ASSUME Conforms(trimmed, schema)
        PROVE  CanDecode(object, zero) /\ ValidateRequest("CreateSignatureDeviceRequest", m)
    <3>1. /\ "id" \in DOMAIN object /\ object["id"] \in UUIDPattern
          /\ "algorithm" \in DOMAIN object /\ object["algorithm"] \in {"ECC", "RSA"}
      BY <1>6, <1>9, <2>2
    <3>2. "label" \in DOMAIN object => object["label"] \in Strings
      <4>1. "label" \in DOMAIN object /\ object["label"] # "" => "label" \in DOMAIN trimmed
        BY <1>6
      <4> QED
        BY <1>6, <1>9, <2>1, <2>2, <4>1
    <3>3. CanDecode(object, zero)
      BY <1>8, <2>1, <3>1, <3>2
    <3> QED
      BY <1>5, <1>7, <3>1, <3>3
  <2>3. ASSUME CanDecode(object, zero), ValidateRequest("CreateSignatureDeviceRequest", m)
        PROVE  Conforms(trimmed, schema)
    <3>1. /\ "id" \in DOMAIN object /\ object["id"] \in UUIDPattern
          /\ "algorithm" \in DOMAIN object /\ object["algorithm"] \in {"ECC", "RSA"}
      BY <1>5, <1>7, <2>1, <2>3
    <3>2. /\ "id" \in DOMAIN trimmed /\ trimmed["id"] \in UUIDPattern
          /\ "algorithm" \in DOMAIN trimmed /\ trimmed["algorithm"] \in {"ECC", "RSA"}
      BY <1>6, <2>1, <3>1, ZenonT(60)
    <3>3. "label" \in DOMAIN trimmed => trimmed["label"] \in Strings \ {""}
      BY <1>6, <1>8, <2>3
    <3> QED
      BY <1>9, <3>2, <3>3
  <2> QED
    BY <2>2, <2>3
<1>11. BodyErrors("CreateSignatureDeviceRequest", body, zero) = << >>
         <=> /\ body.kind \notin {"none", "blank"}
             /\ ~(body.kind = "malformed" \/ ~CanDecode(body.object, zero))
             /\ ValidateRequest("CreateSignatureDeviceRequest", Decode(body.object, zero))
  BY NoErrors, ZenonT(60) DEF BodyErrors
<1> QED
  BY <1>1, <1>4, <1>10, <1>11

LEMMA SignBodyAccepted ==
  ASSUME NEW body, body.kind \in {"none", "blank", "malformed", "object"}
  PROVE  BodyErrors("SignTransactionRequest", body, SignTransactionRequest) = << >>
           <=> /\ body.kind = "object"
               /\ Conforms(Trimmed(body.object, SignTransactionRequestSchema),
                           SignTransactionRequestSchema)
<1>1. PICK object, schema, zero :
        /\ object = body.object /\ schema = SignTransactionRequestSchema
        /\ zero = SignTransactionRequest
  OBVIOUS
<1>2. /\ schema.required = {"data"} /\ DOMAIN schema.properties = {"data"}
      /\ schema.properties["data"] = Strings \ {""}
  BY <1>1 DEF SignTransactionRequestSchema, Schema
<1>3. DOMAIN zero = {"data"} /\ zero["data"] = ""
  BY <1>1 DEF SignTransactionRequest, ZeroString
<1>4. PICK m, trimmed : m = Decode(object, zero) /\ trimmed = Trimmed(object, schema)
  OBVIOUS
<1>5. m.data = IF "data" \in DOMAIN object THEN object["data"] ELSE ""
  BY <1>3, <1>4 DEF Decode
<1>6. /\ DOMAIN trimmed = DOMAIN object \cap {"data"}
      /\ \A name \in DOMAIN trimmed : trimmed[name] = object[name]
  BY <1>2, <1>4 DEF Trimmed
<1>7. ValidateRequest("SignTransactionRequest", m) <=> m.data # ""
  BY DEF ValidateRequest, ValidateSignTransactionRequest, RequiredString, MinLengthOne,
     ZeroString
<1>8. CanDecode(object, zero)
        <=> \A name \in DOMAIN object \cap {"data"} : object[name] \in Strings
  BY <1>3 DEF CanDecode
<1>9. Conforms(trimmed, schema) <=> "data" \in DOMAIN trimmed /\ trimmed["data"] \in Strings \ {""}
  <2>1. DOMAIN trimmed \subseteq {"data"}
    BY <1>6
  <2> QED
    BY <1>2, <2>1 DEF Conforms
<1>10. Conforms(trimmed, schema)
         <=> CanDecode(object, zero) /\ ValidateRequest("SignTransactionRequest", m)
  BY <1>5, <1>6, <1>7, <1>8, <1>9
<1>11. BodyErrors("SignTransactionRequest", body, zero) = << >>
         <=> /\ body.kind \notin {"none", "blank"}
             /\ ~(body.kind = "malformed" \/ ~CanDecode(body.object, zero))
             /\ ValidateRequest("SignTransactionRequest", Decode(body.object, zero))
  BY NoErrors, ZenonT(60) DEF BodyErrors
<1> QED
  BY <1>1, <1>4, <1>10, <1>11

\* The segments of a path.
LEMMA OneSegment ==
  ASSUME NEW path, NEW a, path = <<a>>
  PROVE  {path[i] : i \in DOMAIN path} = {a}
<1>1. DOMAIN path = 1..1 /\ path[1] = a
  OBVIOUS
<1>2. \A i : i \in 1..1 <=> i = 1
  OBVIOUS
<1> QED
  BY <1>1, <1>2

LEMMA TwoSegments ==
  ASSUME NEW path, NEW a, NEW b, path = <<a, b>>
  PROVE  {path[i] : i \in DOMAIN path} = {a, b}
<1>1. DOMAIN path = 1..2 /\ path[1] = a /\ path[2] = b
  OBVIOUS
<1>2. \A i : i \in 1..2 <=> i = 1 \/ i = 2
  OBVIOUS
<1> QED
  BY <1>1, <1>2

LEMMA ThreeSegments ==
  ASSUME NEW path, NEW a, NEW b, NEW c, path = <<a, b, c>>
  PROVE  {path[i] : i \in DOMAIN path} = {a, b, c}
<1>1. DOMAIN path = 1..3 /\ path[1] = a /\ path[2] = b /\ path[3] = c
  OBVIOUS
<1>2. \A i : i \in 1..3 <=> i = 1 \/ i = 2 \/ i = 3
  OBVIOUS
<1> QED
  BY <1>1, <1>2

LEMMA FourSegments ==
  ASSUME NEW path, NEW a, NEW b, NEW c, NEW d, path = <<a, b, c, d>>
  PROVE  {path[i] : i \in DOMAIN path} = {a, b, c, d}
<1>1. DOMAIN path = 1..4 /\ path[1] = a /\ path[2] = b /\ path[3] = c /\ path[4] = d
  OBVIOUS
<1>2. \A i : i \in 1..4 <=> i = 1 \/ i = 2 \/ i = 3 \/ i = 4
  OBVIOUS
<1> QED
  BY <1>1, <1>2

\* The parameters of an operation, and the schema of its body.
LEMMA DocumentParameters ==
  ASSUME NEW op \in Document
  PROVE  \/ /\ op.id = "ListSignatureDevices"
            /\ ParametersOf(op) = {} /\ op.body = "none"
         \/ /\ op.id = "CreateSignatureDevice"
            /\ ParametersOf(op) = {} /\ op.body = "CreateSignatureDeviceRequest"
         \/ /\ op.id = "GetSignatureDevice"
            /\ ParametersOf(op) = {"{deviceId}"} /\ op.body = "none"
         \/ /\ op.id = "ListDeviceSignatures"
            /\ ParametersOf(op) = {"{deviceId}"} /\ op.body = "none"
         \/ /\ op.id = "SignTransaction"
            /\ ParametersOf(op) = {"{deviceId}"} /\ op.body = "SignTransactionRequest"
         \/ /\ op.id = "GetDeviceSignature"
            /\ ParametersOf(op) = {"{deviceId}", "{signatureId}"} /\ op.body = "none"
<1>1. CASE IsListSignatureDevices(op)
  <2>1. op.id = "ListSignatureDevices" /\ op.body = "none" /\ op.path = <<"devices">>
    BY <1>1 DEF IsListSignatureDevices, IsOperation
  <2>2. {op.path[i] : i \in DOMAIN op.path} = {"devices"}
    <3>1. PICK path, a : /\ path = op.path
                       /\ a = "devices"
      OBVIOUS
    <3>2. path = <<a>>
      BY <2>1, <3>1
    <3>3. {path[i] : i \in DOMAIN path} = {a}
      BY <3>2, OneSegment
    <3> QED
      BY <3>1, <3>3
  <2>3. ParametersOf(op) = {}
    BY <2>2 DEF ParametersOf, PathParameters
  <2> QED
    BY <2>1, <2>3
<1>2. CASE IsCreateSignatureDevice(op)
  <2>1. op.id = "CreateSignatureDevice" /\ op.body = "CreateSignatureDeviceRequest" /\ op.path = <<"devices">>
    BY <1>2 DEF IsCreateSignatureDevice, IsOperation
  <2>2. {op.path[i] : i \in DOMAIN op.path} = {"devices"}
    <3>1. PICK path, a : /\ path = op.path
                       /\ a = "devices"
      OBVIOUS
    <3>2. path = <<a>>
      BY <2>1, <3>1
    <3>3. {path[i] : i \in DOMAIN path} = {a}
      BY <3>2, OneSegment
    <3> QED
      BY <3>1, <3>3
  <2>3. ParametersOf(op) = {}
    BY <2>2 DEF ParametersOf, PathParameters
  <2> QED
    BY <2>1, <2>3
<1>3. CASE IsGetSignatureDevice(op)
  <2>1. op.id = "GetSignatureDevice" /\ op.body = "none" /\ op.path = <<"devices", "{deviceId}">>
    BY <1>3 DEF IsGetSignatureDevice, IsOperation
  <2>2. {op.path[i] : i \in DOMAIN op.path} = {"devices", "{deviceId}"}
    <3>1. PICK path, a, b : /\ path = op.path
                          /\ a = "devices" /\ b = "{deviceId}"
      OBVIOUS
    <3>2. path = <<a, b>>
      BY <2>1, <3>1
    <3>3. {path[i] : i \in DOMAIN path} = {a, b}
      BY <3>2, TwoSegments
    <3> QED
      BY <3>1, <3>3
  <2>3. ParametersOf(op) = {"{deviceId}"}
    BY <2>2 DEF ParametersOf, PathParameters
  <2> QED
    BY <2>1, <2>3
<1>4. CASE IsListDeviceSignatures(op)
  <2>1. op.id = "ListDeviceSignatures" /\ op.body = "none" /\ op.path = <<"devices", "{deviceId}", "signatures">>
    BY <1>4 DEF IsListDeviceSignatures, IsOperation
  <2>2. {op.path[i] : i \in DOMAIN op.path} = {"devices", "{deviceId}", "signatures"}
    <3>1. PICK path, a, b, c : /\ path = op.path
                             /\ a = "devices" /\ b = "{deviceId}" /\ c = "signatures"
      OBVIOUS
    <3>2. path = <<a, b, c>>
      BY <2>1, <3>1
    <3>3. {path[i] : i \in DOMAIN path} = {a, b, c}
      BY <3>2, ThreeSegments
    <3> QED
      BY <3>1, <3>3
  <2>3. ParametersOf(op) = {"{deviceId}"}
    BY <2>2 DEF ParametersOf, PathParameters
  <2> QED
    BY <2>1, <2>3
<1>5. CASE IsSignTransaction(op)
  <2>1. op.id = "SignTransaction" /\ op.body = "SignTransactionRequest" /\ op.path = <<"devices", "{deviceId}", "signatures">>
    BY <1>5 DEF IsSignTransaction, IsOperation
  <2>2. {op.path[i] : i \in DOMAIN op.path} = {"devices", "{deviceId}", "signatures"}
    <3>1. PICK path, a, b, c : /\ path = op.path
                             /\ a = "devices" /\ b = "{deviceId}" /\ c = "signatures"
      OBVIOUS
    <3>2. path = <<a, b, c>>
      BY <2>1, <3>1
    <3>3. {path[i] : i \in DOMAIN path} = {a, b, c}
      BY <3>2, ThreeSegments
    <3> QED
      BY <3>1, <3>3
  <2>3. ParametersOf(op) = {"{deviceId}"}
    BY <2>2 DEF ParametersOf, PathParameters
  <2> QED
    BY <2>1, <2>3
<1>6. CASE IsGetDeviceSignature(op)
  <2>1. op.id = "GetDeviceSignature" /\ op.body = "none" /\ op.path = <<"devices", "{deviceId}", "signatures", "{signatureId}">>
    BY <1>6 DEF IsGetDeviceSignature, IsOperation
  <2>2. {op.path[i] : i \in DOMAIN op.path} = {"devices", "{deviceId}", "signatures", "{signatureId}"}
    <3>1. PICK path, a, b, c, d : /\ path = op.path
                                /\ a = "devices" /\ b = "{deviceId}" /\ c = "signatures" /\ d = "{signatureId}"
      OBVIOUS
    <3>2. path = <<a, b, c, d>>
      BY <2>1, <3>1
    <3>3. {path[i] : i \in DOMAIN path} = {a, b, c, d}
      BY <3>2, FourSegments
    <3> QED
      BY <3>1, <3>3
  <2>3. ParametersOf(op) = {"{deviceId}", "{signatureId}"}
    BY <2>2 DEF ParametersOf, PathParameters
  <2> QED
    BY <2>1, <2>3
<1> QED
  BY <1>1, <1>2, <1>3, <1>4, <1>5, <1>6, DocumentOperations

\* BindRequest of every operation finds no error in a request whose body, once
\* trimmed, and identifiers the document allows, and in no other.
LEMMA RequestAccepted ==
  ASSUME NEW op \in Document, NEW r,
         r.body.kind \in {"none", "blank", "malformed", "object"}
  PROVE  BindRequestErrors(op, r) = << >> <=> TakenBody(op, r.body) /\ AcceptableIDs(op, r)
<1> DEFINE device == IDOf(op, "{deviceId}", r)
           signature == IDOf(op, "{signatureId}", r)
<1>1. /\ DeviceIDErrors(op, r) = << >> <=> device \in UUIDPattern
      /\ SignatureIDErrors(op, r) = << >> <=> signature \in UUIDPattern
  BY IDAccepted DEF DeviceIDErrors, SignatureIDErrors
<1>2. /\ ParametersOf(op) = {} => AcceptableIDs(op, r)
      /\ ParametersOf(op) = {"{deviceId}"} => (AcceptableIDs(op, r) <=> device \in UUIDPattern)
      /\ ParametersOf(op) = {"{deviceId}", "{signatureId}"} =>
           (AcceptableIDs(op, r) <=> device \in UUIDPattern /\ signature \in UUIDPattern)
  BY DEF AcceptableIDs
<1> HIDE DEF device, signature
<1>3. op.body = "none" => TakenBody(op, r.body)
  BY DEF TakenBody
<1>4. CASE op.id = "ListSignatureDevices"
  <2>1. BindRequestErrors(op, r) = << >>
    BY <1>4 DEF BindRequestErrors, ListSignatureDevicesErrors
  <2>2. ParametersOf(op) = {} /\ op.body = "none"
    BY <1>4, DocumentParameters
  <2> QED
    BY <1>2, <1>3, <2>1, <2>2
<1>5. CASE op.id = "CreateSignatureDevice"
  <2>1. BindRequestErrors(op, r) =
          BodyErrors("CreateSignatureDeviceRequest", r.body, CreateSignatureDeviceRequest)
    BY <1>5 DEF BindRequestErrors, CreateSignatureDeviceErrors
  <2>2. ParametersOf(op) = {} /\ op.body = "CreateSignatureDeviceRequest"
    BY <1>5, DocumentParameters
  <2>3. TakenBody(op, r.body)
          <=> /\ r.body.kind = "object"
              /\ Conforms(Trimmed(r.body.object, CreateSignatureDeviceRequestSchema),
                          CreateSignatureDeviceRequestSchema)
    BY <2>2 DEF TakenBody, RequestSchema
  <2>4. BindRequestErrors(op, r) = << >> <=> TakenBody(op, r.body)
    BY <2>1, <2>3, CreateBodyAccepted
  <2> QED
    BY <1>2, <2>2, <2>4
<1>6. CASE op.id = "GetSignatureDevice"
  <2>1. BindRequestErrors(op, r) = DeviceIDErrors(op, r)
    BY <1>6 DEF BindRequestErrors, GetSignatureDeviceErrors
  <2>2. ParametersOf(op) = {"{deviceId}"} /\ op.body = "none"
    BY <1>6, DocumentParameters
  <2> QED
    BY <1>1, <1>2, <1>3, <2>1, <2>2
<1>7. CASE op.id = "ListDeviceSignatures"
  <2>1. BindRequestErrors(op, r) = DeviceIDErrors(op, r)
    BY <1>7 DEF BindRequestErrors, ListDeviceSignaturesErrors
  <2>2. ParametersOf(op) = {"{deviceId}"} /\ op.body = "none"
    BY <1>7, DocumentParameters
  <2> QED
    BY <1>1, <1>2, <1>3, <2>1, <2>2
<1>8. CASE op.id = "SignTransaction"
  <2>1. PICK s, u : /\ s = BodyErrors("SignTransactionRequest", r.body, SignTransactionRequest)
                    /\ u = DeviceIDErrors(op, r)
    OBVIOUS
  <2>2. s \in Seq(Refusals) /\ u \in Seq(Refusals)
    BY <2>1, BodyRefusals, IDRefusals DEF DeviceIDErrors
  <2>3. BindRequestErrors(op, r) = s \o u
    BY <1>8, <2>1 DEF BindRequestErrors, SignTransactionErrors
  <2>4. ParametersOf(op) = {"{deviceId}"} /\ op.body = "SignTransactionRequest"
    BY <1>8, DocumentParameters
  <2>5. TakenBody(op, r.body)
          <=> /\ r.body.kind = "object"
              /\ Conforms(Trimmed(r.body.object, SignTransactionRequestSchema),
                          SignTransactionRequestSchema)
    BY <2>4 DEF TakenBody, RequestSchema
  <2>6. s = << >> <=> TakenBody(op, r.body)
    BY <2>1, <2>5, SignBodyAccepted
  <2>7. s \o u = << >> <=> s = << >> /\ u = << >>
    BY <2>2, NoErrors
  <2>8. u = << >> <=> AcceptableIDs(op, r)
    BY <1>1, <1>2, <2>1, <2>4
  <2> QED
    BY <2>3, <2>6, <2>7, <2>8
<1>9. CASE op.id = "GetDeviceSignature"
  <2>1. PICK s, u : s = DeviceIDErrors(op, r) /\ u = SignatureIDErrors(op, r)
    OBVIOUS
  <2>2. s \in Seq(Refusals) /\ u \in Seq(Refusals)
    BY <2>1, IDRefusals DEF DeviceIDErrors, SignatureIDErrors
  <2>3. BindRequestErrors(op, r) = s \o u
    BY <1>9, <2>1 DEF BindRequestErrors, GetDeviceSignatureErrors
  <2>4. ParametersOf(op) = {"{deviceId}", "{signatureId}"} /\ op.body = "none"
    BY <1>9, DocumentParameters
  <2>5. s \o u = << >> <=> s = << >> /\ u = << >>
    BY <2>2, NoErrors
  <2>6. s = << >> /\ u = << >> <=> AcceptableIDs(op, r)
    BY <1>1, <1>2, <2>1, <2>4
  <2> QED
    BY <1>3, <2>3, <2>4, <2>5, <2>6
<1> QED
  BY <1>4, <1>5, <1>6, <1>7, <1>8, <1>9, DocumentIDs

\* What an object loses by being trimmed does not matter to a schema.
LEMMA TrimmedConforms ==
  ASSUME NEW object, NEW schema, Conforms(object, schema)
  PROVE  Conforms(Trimmed(object, schema), schema)
<1>1. PICK trimmed : trimmed = Trimmed(object, schema)
  OBVIOUS
<1>2. /\ DOMAIN trimmed = {name \in DOMAIN object \cap DOMAIN schema.properties :
                             object[name] # "" \/ name \in schema.required}
      /\ \A name \in DOMAIN trimmed : trimmed[name] = object[name]
  BY <1>1 DEF Trimmed
<1>3. /\ schema.required \subseteq DOMAIN object
      /\ DOMAIN object \subseteq DOMAIN schema.properties
      /\ \A name \in DOMAIN object : object[name] \in schema.properties[name]
  BY DEF Conforms
<1>4. schema.required \subseteq DOMAIN trimmed
  BY <1>2, <1>3
<1>5. \A name \in DOMAIN trimmed : trimmed[name] \in schema.properties[name]
  BY <1>2, <1>3
<1> QED
  BY <1>1, <1>2, <1>4, <1>5 DEF Conforms

LEMMA BindingAccepts ==
  ASSUME NEW op \in Document, NEW r \in Requests
  PROVE  BindErrors(op, r) = << >>
           <=> Negotiated(r) /\ (Acceptable(op, r) \/ Overlooked(op, r))
<1>1. r.body.kind \in {"none", "blank", "malformed", "object"}
  BY PipelineAssumption
<1>2. BindRequestErrors(op, r) = << >> <=> TakenBody(op, r.body) /\ AcceptableIDs(op, r)
  BY <1>1, RequestAccepted
<1>3. AcceptableBody(op, r.body) => TakenBody(op, r.body)
  BY TrimmedConforms DEF AcceptableBody, TakenBody
<1>4. TakenBody(op, r.body) /\ AcceptableIDs(op, r)
        <=> Acceptable(op, r) \/ Overlooked(op, r)
  BY <1>3 DEF Acceptable, Overlooked
<1>5. r.contentType = "application/json" => r.contentType \in DOMAIN Api.consumers
  BY ApiCodecs
<1>6. BindErrors(op, r) = << >>
        <=> /\ ~(r.body.kind # "none" /\ r.contentType # "application/json")
            /\ ~(r.body.kind # "none" /\ r.contentType \notin DOMAIN Api.consumers)
            /\ ~(r.body.kind = "none" /\ r.accept # "application/json")
            /\ BindRequestErrors(op, r) = << >>
  BY NoErrors, ZenonT(60) DEF BindErrors
<1>7. Negotiated(r) <=> /\ r.body.kind # "none" => r.contentType = "application/json"
                        /\ r.body.kind = "none" => r.accept = "application/json"
  BY DEF Negotiated
<1> QED
  BY <1>2, <1>4, <1>5, <1>6, <1>7

\* The code generated for parameters and models, against the document: a handler
\* is given every request the document allows and, of the others, exactly those
\* whose body has a name too many or an empty optional value.
THEOREM BindingTakesAllowedOrOverlooked == Spec => []HandledIffAllowedOrOverlooked
<1>1. ASSUME PipelineInv PROVE HandledIffAllowedOrOverlooked
  <2> DEFINE allowed == Acceptable(route, request) \/ Overlooked(route, request)
  <2>1. ASSUME bound.given PROVE Negotiated(request) /\ allowed
    <3>1. Len(left) = 0 /\ BindErrors(route, request) = << >>
      BY <1>1, <2>1 DEF PipelineInv, BoundInv
    <3>2. route \in Document /\ request \in Requests
      BY <1>1, <3>1 DEF PipelineInv, ControlInv, RouteInv
    <3> QED
      BY <3>1, <3>2, BindingAccepts
  <2>2. ASSUME closed, Routed, Negotiated(request), allowed
        PROVE  bound.given
    <3>1. NoRoute.id = None
      BY DEF NoRoute
    <3>2. route \in Document /\ request \in Requests
      BY <1>1, <2>2, <3>1 DEF Routed, PipelineInv, ControlInv, RouteInv
    <3>3. Len(left) = 0
      BY <1>1, <2>2, <3>2 DEF closed, PipelineInv, ControlInv, RouteInv
    <3>4. BindErrors(route, request) = << >>
      BY <2>2, <3>2, BindingAccepts
    <3> QED
      BY <1>1, <3>3, <3>4 DEF PipelineInv, BoundInv
  <2> QED
    BY <2>1, <2>2 DEF HandledIffAllowedOrOverlooked
<1> QED
  BY <1>1, PipelineInvariant, PTL
-----------------------------------------------------------------------------
(* Types                                                                     *)

LEMMA SameElements ==
  ASSUME NEW T, NEW s \in Seq(T), NEW u \in Seq(T), Len(s) = Len(u),
         \A i \in 1..Len(s) : s[i] = u[i]
  PROVE  s = u
OBVIOUS

LEMMA PrefixByElements ==
  ASSUME NEW T, NEW s \in Seq(T), NEW u \in Seq(T), Len(s) \in 0..Len(u),
         \A i \in 1..Len(s) : s[i] = u[i]
  PROVE  IsPrefix(s, u)
<1>1. PICK a, b : a = SubSeq(s, 1, Len(s)) /\ b = SubSeq(u, 1, Len(s))
  OBVIOUS
<1>2. Len(s) \in 0..Len(s)
  OBVIOUS
<1>3. a \in Seq(T) /\ Len(a) = Len(s) /\ \A i \in 1..Len(s) : a[i] = s[i]
  BY <1>1, <1>2, Shortened
<1>4. b \in Seq(T) /\ Len(b) = Len(s) /\ \A i \in 1..Len(s) : b[i] = u[i]
  BY <1>1, Shortened
<1>5. a = b
  BY <1>3, <1>4, SameElements
<1> QED
  BY <1>1, <1>5 DEF IsPrefix

LEMMA Reversed ==
  ASSUME NEW T, NEW s \in Seq(T)
  PROVE  /\ Reverse(s) \in Seq(T) /\ Len(Reverse(s)) = Len(s)
         /\ \A i \in 1..Len(s) : Reverse(s)[i] = s[(Len(s) - i) + 1]
BY DEF Reverse

LEMMA SuffixByElements ==
  ASSUME NEW T, NEW s \in Seq(T), NEW u \in Seq(T), Len(s) \in 0..Len(u),
         \A i \in 1..Len(s) : s[i] = u[i + Len(u) - Len(s)]
  PROVE  IsSuffix(s, u)
<1>1. PICK a, b : a = Reverse(s) /\ b = Reverse(u)
  OBVIOUS
<1>2. PICK m \in Nat, n \in Nat : m = Len(s) /\ n = Len(u)
  OBVIOUS
<1>3. a \in Seq(T) /\ Len(a) = m /\ \A i \in 1..m : a[i] = s[(m - i) + 1]
  BY <1>1, <1>2, Reversed
<1>4. b \in Seq(T) /\ Len(b) = n /\ \A i \in 1..n : b[i] = u[(n - i) + 1]
  BY <1>1, <1>2, Reversed
<1>5. m \in 0..n
  BY <1>2
<1>6. \A i \in 1..m : a[i] = b[i]
  <2> TAKE i \in 1..m
  <2>1. (m - i) + 1 \in 1..m /\ i \in 1..n /\ ((m - i) + 1) + n - m = (n - i) + 1
    BY ONLY <1>2, <1>5, i \in 1..m
  <2>2. s[(m - i) + 1] = u[((m - i) + 1) + n - m]
    BY <1>2, <2>1
  <2> QED
    BY <1>3, <1>4, <2>1, <2>2
<1>7. IsPrefix(a, b)
  BY <1>3, <1>4, <1>5, <1>6, PrefixByElements
<1> QED
  BY <1>1, <1>7 DEF IsSuffix

\* The variables stay in their types, and the stack and the rest of the chain
\* are parts of the chain that ConfigureAPI has built.
THEOREM PipelineTypes == Spec => []TypeOK
<1>1. ASSUME PipelineInv PROVE TypeOK
  <2>1. FramesInv /\ DepthInv /\ RouteInv /\ BoundInv /\ AnswerInv /\ WriterInv
    BY <1>1 DEF PipelineInv, ControlInv
  <2>2. PICK c : c = Api.chain
    OBVIOUS
  <2>3. c \in Seq(Frames) /\ Len(c) = 8
    BY <2>2, ApiChain
  <2>4. Len(entered) \in 0..8 /\ Len(left) \in 0..8
    BY <2>1, FramesByDepth
  <2>5. /\ entered \in Seq(Frames) /\ left \in Seq(Frames)
        /\ \A i \in 1..Len(entered) : entered[i] = c[i]
        /\ \A i \in 1..Len(left) : left[i] = c[i + 8 - Len(left)]
    BY <2>1, <2>2 DEF FramesInv
  <2>6. IsPrefix(entered, c)
    BY <2>3, <2>4, <2>5, PrefixByElements
  <2>7. IsSuffix(left, c)
    BY <2>3, <2>4, <2>5, SuffixByElements
  <2>8. route.id \in OperationIDs \cup {None}
    BY <2>1 DEF RouteInv, NoRoute, OperationIDs
  <2>9. /\ answer.by \in Authors /\ answer.status \in Nat /\ answer.size \in Sizes \cup {0}
    BY <2>1 DEF AnswerInv
  <2>10. /\ w.serverWritten \in BOOLEAN /\ w.wire.broken \in BOOLEAN
         /\ w.wire.status \in Nat /\ w.log.status \in Nat /\ w.log.size \in Nat
    BY <2>1 DEF WriterInv, WriterShape
  <2>11. Len(w.log.body) <= maxLoggedBody
    <3>1. CASE Len(left) <= 2
      BY <2>1, <3>1 DEF WriterInv, LogInv, LogAgrees
    <3>2. CASE ~(Len(left) <= 2)
      <4>1. w.log.body = << >>
        BY <2>1, <3>2 DEF WriterInv, LogInv, NewWriter
      <4> QED
        BY <4>1, PipelineAssumption
    <3> QED
      BY <3>1, <3>2
  <2>12. request \in Requests /\ bound.given \in BOOLEAN
    BY <1>1 DEF PipelineInv, BoundInv
  <2> QED
    BY <2>1, <2>2, <2>6, <2>7, <2>8, <2>9, <2>10, <2>11, <2>12 DEF TypeOK, DepthInv, Authors
<1> QED
  BY <1>1, PipelineInvariant, PTL
-----------------------------------------------------------------------------
(* Counting: what an induction over the natural numbers needs, from the      *)
(* library's theorem on minimal elements                                     *)

\* The natural numbers that a predicate leaves out have a least one.
LEMMA Least ==
  ASSUME NEW T \in SUBSET Nat, T # {}
  PROVE  \E x \in T : \A y \in T : x <= y
<1>1. PICK R : R = OpToRel(<, Nat)
  OBVIOUS
<1>2. IsWellFoundedOn(R, Nat)
  BY <1>1, NatLessThanWellFounded
<1>3. PICK x \in T : \A y \in T : ~ (<<y, x>> \in R)
  BY <1>2, WFMin
<1>4. \A m \in Nat, n \in Nat : <<n, m>> \in R <=> n < m
  BY <1>1 DEF OpToRel
<1>5. ASSUME NEW y \in T PROVE x <= y
  <2>1. ~ (<<y, x>> \in R) /\ x \in Nat /\ y \in Nat
    BY <1>3
  <2>2. ~ (y < x)
    BY <1>4, <2>1
  <2> QED
    BY <2>1, <2>2
<1> QED
  BY <1>5

LEMMA CountsUp ==
  ASSUME NEW S, 0 \in S, \A k \in Nat : k \in S => k + 1 \in S
  PROVE  Nat \subseteq S
<1> SUFFICES ASSUME Nat \ S # {} PROVE FALSE
  OBVIOUS
<1>1. PICK x \in Nat \ S : \A y \in Nat \ S : x <= y
  BY Least
<1>2. x # 0 /\ x - 1 \in Nat /\ x - 1 \in S
  BY <1>1
<1> QED
  BY <1>1, <1>2

LEMMA Greatest ==
  ASSUME NEW k \in Nat, NEW u \in SUBSET (1..k), u # {}
  PROVE  Max(u) \in u /\ \A y \in u : Max(u) >= y
<1> DEFINE T == {k - y : y \in u}
<1>1. T \in SUBSET Nat /\ T # {}
  <2>1. \A y \in u : k - y \in Nat
    OBVIOUS
  <2>2. T \subseteq Nat
    BY <2>1
  <2>3. PICK y \in u : TRUE
    OBVIOUS
  <2>4. k - y \in T
    BY <2>3
  <2> QED
    BY <2>2, <2>4
<1>2. PICK d \in T : \A e \in T : d <= e
  BY <1>1, Least
<1>3. PICK x \in u : d = k - x
  BY <1>2
<1>4. ASSUME NEW y \in u PROVE x >= y
  <2>1. k - y \in T /\ x \in Int /\ y \in Int
    OBVIOUS
  <2>2. d <= k - y
    BY <1>2, <2>1
  <2> QED
    BY <1>3, <2>1, <2>2
<1> QED
  BY <1>4 DEF Max

-----------------------------------------------------------------------------
(* The generated URL builders                                                *)

\* One step of path.Join.
JoinStep(done, segment) ==
  CASE segment \in {"", "."} -> done
    [] segment = ".."        -> IF done = << >> THEN << >> ELSE Front(done)
    [] OTHER                 -> Append(done, segment)

\* The function the fold of Join is made of, over the first k segments of s.
Joined(s, k, g) ==
  g = [u \in SUBSET (1..k) |-> IF u = {} THEN << >>
                               ELSE LET x == Max(u) IN JoinStep(g[u \ {x}], s[x])]

LEMMA JoinedExists ==
  ASSUME NEW s, NEW n \in Nat
  PROVE  \E g : Joined(s, n, g)
<1> DEFINE K == {k \in Nat : \E g : Joined(s, k, g)}
<1>1. 0 \in K
  <2>1. 1..0 = {} /\ SUBSET {} = {{}}
    OBVIOUS
  <2>2. Joined(s, 0, [u \in SUBSET (1..0) |-> << >>])
    BY <2>1 DEF Joined
  <2> QED
    BY <2>2
<1>2. ASSUME NEW k \in Nat, k \in K PROVE k + 1 \in K
  <2>1. PICK g : Joined(s, k, g)
    BY <1>2
  <2> DEFINE h == [u \in SUBSET (1..(k + 1)) |->
                     IF k + 1 \in u THEN JoinStep(g[u \ {k + 1}], s[k + 1]) ELSE g[u]]
             F == [u \in SUBSET (1..(k + 1)) |->
                     IF u = {} THEN << >>
                     ELSE LET x == Max(u) IN JoinStep(h[u \ {x}], s[x])]
  <2>2. \A u \in SUBSET (1..k) : u \in SUBSET (1..(k + 1)) /\ k + 1 \notin u /\ h[u] = g[u]
    OBVIOUS
  <2>3. ASSUME NEW u \in SUBSET (1..(k + 1)) PROVE h[u] = F[u]
    <3>1. CASE u = {}
      <4>1. {} \in SUBSET (1..k)
        OBVIOUS
      <4>2. g[{}] = << >>
        BY <2>1, <4>1 DEF Joined
      <4>3. h[{}] = g[{}]
        BY <2>2, <4>1
      <4> QED
        BY <3>1, <4>2, <4>3
    <3>2. CASE k + 1 \in u
      <4>1. u # {} /\ u \ {k + 1} \in SUBSET (1..k)
        BY <3>2
      <4>2. Max(u) \in u /\ \A y \in u : Max(u) >= y
        <5>1. PICK m \in Nat : m = k + 1
          OBVIOUS
        <5>2. u \in SUBSET (1..m)
          BY <5>1
        <5> QED
          BY ONLY <4>1, <5>2, m \in Nat, Greatest
      <4>3. Max(u) = k + 1
        <5>1. Max(u) \in 1..(k + 1) /\ Max(u) >= k + 1
          BY <3>2, <4>2
        <5> QED
          BY <5>1
      <4>4. h[u \ {k + 1}] = g[u \ {k + 1}]
        BY <2>2, <4>1
      <4>5. F[u] = JoinStep(h[u \ {k + 1}], s[k + 1])
        BY <4>1, <4>3
      <4>6. h[u] = JoinStep(g[u \ {k + 1}], s[k + 1])
        BY <3>2
      <4> QED
        BY <4>4, <4>5, <4>6
    <3>3. CASE u # {} /\ k + 1 \notin u
      <4>1. u \in SUBSET (1..k)
        BY <3>3
      <4>2. u \ {Max(u)} \in SUBSET (1..k)
        BY <4>1
      <4>3. g[u] = JoinStep(g[u \ {Max(u)}], s[Max(u)])
        BY <2>1, <3>3, <4>1 DEF Joined
      <4>4. h[u] = g[u] /\ h[u \ {Max(u)}] = g[u \ {Max(u)}]
        BY <2>2, <4>1, <4>2
      <4>5. F[u] = JoinStep(h[u \ {Max(u)}], s[Max(u)])
        BY <3>3
      <4> QED
        BY <4>3, <4>4, <4>5
    <3> QED
      BY <3>1, <3>2, <3>3
  <2>4. h = F
    BY <2>3
  <2>5. Joined(s, k + 1, h)
    BY <2>4 DEF Joined
  <2> QED
    BY <2>5
<1>3. Nat \subseteq K
  BY <1>1, <1>2, CountsUp
<1> QED
  BY <1>3

\* Join works through the segments from the left.
LEMMA JoinedByStep ==
  ASSUME NEW s, NEW n \in Nat, NEW g, Joined(s, n, g)
  PROVE  /\ g[1..0] = << >>
         /\ \A k \in 0..(n - 1) : g[1..(k + 1)] = JoinStep(g[1..k], s[k + 1])
<1>1. g[1..0] = << >>
  BY DEF Joined
<1>2. ASSUME NEW k \in 0..(n - 1) PROVE g[1..(k + 1)] = JoinStep(g[1..k], s[k + 1])
  <2>1. 1..(k + 1) \in SUBSET (1..n) /\ 1..(k + 1) # {} /\ k + 1 \in 1..(k + 1)
    OBVIOUS
  <2>2. Max(1..(k + 1)) = k + 1
    <3>1. PICK u : u = 1..(k + 1)
      OBVIOUS
    <3>2. Max(u) \in u /\ \A y \in u : Max(u) >= y
      BY <2>1, <3>1, Greatest
    <3>3. Max(u) >= k + 1 /\ Max(u) \in 1..(k + 1)
      BY <2>1, <3>1, <3>2
    <3> QED
      BY <3>1, <3>3
  <2>3. (1..(k + 1)) \ {k + 1} = 1..k
    OBVIOUS
  <2>4. g[1..(k + 1)] = JoinStep(g[(1..(k + 1)) \ {Max(1..(k + 1))}], s[Max(1..(k + 1))])
    BY <2>1 DEF Joined
  <2> QED
    BY <2>2, <2>3, <2>4
<1> QED
  BY <1>1, <1>2

LEMMA JoinIsJoined ==
  ASSUME NEW T, NEW base \in Seq(T), NEW path \in Seq(T)
  PROVE  \E g : /\ Joined(base \o path, Len(base) + Len(path), g)
                /\ Join(base, path) = g[1..(Len(base) + Len(path))]
<1>1. PICK s : s = base \o path
  OBVIOUS
<1>2. PICK n \in Nat : n = Len(base) + Len(path)
  OBVIOUS
<1>3. DOMAIN s = 1..n
  BY <1>1, <1>2
<1> DEFINE F(g) == [u \in SUBSET DOMAIN s |->
                      IF u = {} THEN << >>
                      ELSE LET x == Max(u) IN JoinStep(g[u \ {x}], s[x])]
           iter == CHOOSE g : g = F(g)
<1>4. Join(base, path) = iter[DOMAIN s]
  BY <1>1 DEF Join, FoldLeft, MapThenFoldSet, JoinStep
<1>5. \E g : g = F(g)
  <2>1. PICK g : Joined(s, n, g)
    BY JoinedExists
  <2>2. g = F(g)
    BY <1>3, <2>1 DEF Joined
  <2> QED
    BY <2>2
<1>6. iter = F(iter)
  BY <1>5
<1> HIDE DEF iter
<1>7. Joined(s, n, iter)
  BY <1>3, <1>6 DEF Joined
<1> QED
  BY <1>1, <1>2, <1>3, <1>4, <1>7

\* A segment that Join keeps as it is.
Plain(segment) == segment \notin {"", ".", ".."}

\* Two joins go the same way as far as their segments are the same.
LEMMA JoinedAlike ==
  ASSUME NEW s, NEW m \in Nat, NEW g, Joined(s, m, g),
         NEW t, NEW n \in Nat, NEW h, Joined(t, n, h),
         m <= n, \A i \in 1..m : s[i] = t[i]
  PROVE  g[1..m] = h[1..m]
<1> DEFINE K == {k \in Nat : k <= m => g[1..k] = h[1..k]}
<1>1. 0 \in K
  BY JoinedByStep
<1>2. ASSUME NEW k \in Nat, k \in K PROVE k + 1 \in K
  <2> SUFFICES ASSUME k + 1 <= m PROVE g[1..(k + 1)] = h[1..(k + 1)]
    OBVIOUS
  <2>1. k \in 0..(m - 1) /\ k \in 0..(n - 1) /\ k <= m /\ k + 1 \in 1..m
    OBVIOUS
  <2>2. g[1..(k + 1)] = JoinStep(g[1..k], s[k + 1])
    BY <2>1, JoinedByStep
  <2>3. h[1..(k + 1)] = JoinStep(h[1..k], t[k + 1])
    BY <2>1, JoinedByStep
  <2> QED
    BY <1>2, <2>1, <2>2, <2>3
<1>3. Nat \subseteq K
  BY <1>1, <1>2, CountsUp
<1> QED
  BY <1>3

\* From a base that leads nowhere, a path of plain segments is joined as it is.
LEMMA JoinFromRoot ==
  ASSUME NEW T, NEW base \in Seq(T), NEW path \in Seq(T),
         Join(base, << >>) = << >>,
         \A i \in 1..Len(path) : Plain(path[i])
  PROVE  Join(base, path) = path
<1>1. PICK m \in Nat, n \in Nat : m = Len(base) /\ n = Len(path)
  OBVIOUS
<1>2. PICK s, t : s = base \o << >> /\ t = base \o path
  OBVIOUS
<1>3. PICK e : e = << >>
  OBVIOUS
<1>4. PICK g : Joined(s, m, g) /\ Join(base, << >>) = g[1..m]
  <2>1. PICK g : /\ Joined(base \o e, Len(base) + Len(e), g)
                 /\ Join(base, e) = g[1..(Len(base) + Len(e))]
    <3>1. e \in Seq(T)
      BY <1>3
    <3> QED
      BY <3>1, JoinIsJoined
  <2>2. Len(base) + Len(e) = m /\ base \o e = s
    BY <1>1, <1>2, <1>3
  <2> QED
    BY <1>3, <2>1, <2>2
<1>5. PICK h : Joined(t, m + n, h) /\ Join(base, path) = h[1..(m + n)]
  BY <1>1, <1>2, JoinIsJoined
<1>6. h[1..m] = << >>
  <2>1. \A i \in 1..m : s[i] = t[i]
    BY <1>1, <1>2
  <2>2. m + n \in Nat /\ m <= m + n
    OBVIOUS
  <2>3. g[1..m] = h[1..m]
    BY <1>4, <1>5, <2>1, <2>2, JoinedAlike
  <2> QED
    BY <1>4, <2>3
<1> DEFINE K == {k \in Nat : k <= n => h[1..(m + k)] = SubSeq(path, 1, k)}
<1>7. 0 \in K
  <2>1. m + 0 = m /\ SubSeq(path, 1, 0) = << >>
    OBVIOUS
  <2> QED
    BY <1>6, <2>1
<1>8. ASSUME NEW k \in Nat, k \in K PROVE k + 1 \in K
  <2> SUFFICES ASSUME k + 1 <= n PROVE h[1..(m + (k + 1))] = SubSeq(path, 1, k + 1)
    OBVIOUS
  <2>1. m + k \in 0..((m + n) - 1) /\ m + n \in Nat /\ (m + k) + 1 = m + (k + 1)
    OBVIOUS
  <2>2. h[1..((m + k) + 1)] = JoinStep(h[1..(m + k)], t[(m + k) + 1])
    BY <1>5, <2>1, JoinedByStep
  <2>3. k + 1 \in 1..Len(path) /\ t[m + (k + 1)] = path[k + 1]
    BY <1>1, <1>2
  <2>4. Plain(path[k + 1])
    BY <2>3
  <2>5. h[1..(m + k)] = SubSeq(path, 1, k)
    BY <1>8
  <2>6. JoinStep(SubSeq(path, 1, k), path[k + 1]) = Append(SubSeq(path, 1, k), path[k + 1])
    BY <2>4 DEF JoinStep, Plain
  <2>7. SubSeq(path, 1, k + 1) = Append(SubSeq(path, 1, k), path[k + 1])
    BY <2>3
  <2> QED
    BY <2>1, <2>2, <2>3, <2>5, <2>6, <2>7
<1> HIDE DEF K
<1>9. n \in K
  BY <1>7, <1>8, CountsUp
<1>10. n <= n
  OBVIOUS
<1>11. h[1..(m + n)] = SubSeq(path, 1, n)
  BY <1>9, <1>10 DEF K
<1>12. SubSeq(path, 1, n) = path
  BY <1>1
<1> QED
  BY <1>5, <1>11, <1>12

\* path.Clean leaves such a path alone.
LEMMA PlainIsClean ==
  ASSUME NEW T, NEW path \in Seq(T), \A i \in 1..Len(path) : Plain(path[i])
  PROVE  Clean(path) = path
<1>1. PICK e : e = << >>
  OBVIOUS
<1>2. e \in Seq(T) /\ Len(e) + Len(e) = 0
  BY <1>1
<1>3. PICK g : Joined(e \o e, 0, g) /\ Join(e, e) = g[1..0]
  BY <1>2, JoinIsJoined
<1>4. Join(e, << >>) = << >>
  BY <1>1, <1>3, JoinedByStep
<1>5. Join(e, path) = path
  BY <1>2, <1>4, JoinFromRoot
<1> QED
  BY <1>1, <1>5 DEF Clean

\* A sequence of sequences of one element each is flattened to those elements.
LEMMA FirstSegment ==
  ASSUME NEW T, NEW r \in Seq(T), Len(r) # 0
  PROVE  SubSeq(r, 1, 1) = <<r[1]>>
<1>1. 1 \in 1..Len(r)
  OBVIOUS
<1>2. PICK x \in T : x = r[1]
  BY <1>1
<1>3. PICK a, b : a = SubSeq(r, 1, 1) /\ b = <<x>>
  OBVIOUS
<1>4. a \in Seq(T) /\ Len(a) = 1 /\ a[1] = x
  BY <1>1, <1>2, <1>3
<1>5. b \in Seq(T) /\ Len(b) = 1 /\ b[1] = x
  BY <1>3
<1>6. a = b
  BY <1>4, <1>5
<1> QED
  BY <1>2, <1>3, <1>6

LEMMA FlattenSingles ==
  ASSUME NEW T, NEW r \in Seq(T), NEW seqs, DOMAIN seqs = 1..Len(r), Len(seqs) = Len(r),
         seqs = [i \in 1..Len(r) |-> <<r[i]>>]
  PROVE  FlattenSeq(seqs) = r
<1>1. PICK n \in Nat : n = Len(r)
  OBVIOUS
<1>0. CASE n = 0
  <2>1. r = << >> /\ seqs = << >>
    BY <1>0, <1>1
  <2> QED
    BY <1>0, <1>1, <2>1 DEF FlattenSeq
<1> SUFFICES ASSUME n # 0 PROVE FlattenSeq(seqs) = r
  BY <1>0
<1> DEFINE F(f) == [i \in 1..Len(seqs) |-> IF i = 1 THEN seqs[i] ELSE f[i - 1] \o seqs[i]]
           flatten == CHOOSE f : f = F(f)
           g == [i \in 1..n |-> SubSeq(r, 1, i)]
<1>2. FlattenSeq(seqs) = flatten[n]
  BY <1>1 DEF FlattenSeq
<1>3. Len(seqs) = n /\ \A i \in 1..n : seqs[i] = <<r[i]>>
  BY <1>1
<1>4. g = F(g)
  <2>1. ASSUME NEW i \in 1..n PROVE g[i] = F(g)[i]
    <3>1. CASE i = 1
      <4>1. SubSeq(r, 1, 1) = <<r[1]>>
        BY <1>1, FirstSegment
      <4> QED
        BY <1>3, <3>1, <4>1
    <3>2. CASE i # 1
      <4>1. i - 1 \in 1..n /\ i \in 1..Len(r)
        BY <1>1, <3>2
      <4>2. SubSeq(r, 1, i) = SubSeq(r, 1, i - 1) \o <<r[i]>>
        BY <3>2, <4>1
      <4>3. F(g)[i] = g[i - 1] \o <<r[i]>>
        BY <1>3, <3>2
      <4>4. g[i - 1] = SubSeq(r, 1, i - 1)
        BY <4>1
      <4> QED
        BY <4>2, <4>3, <4>4
    <3> QED
      BY <3>1, <3>2
  <2> QED
    BY <1>3, <2>1
<1>5. flatten = F(flatten)
  BY <1>4
<1> HIDE DEF flatten
<1> DEFINE K == {k \in Nat : k \in 1..n => flatten[k] = SubSeq(r, 1, k)}
<1>6. 0 \in K
  OBVIOUS
<1>7. ASSUME NEW k \in Nat, k \in K PROVE k + 1 \in K
  <2> SUFFICES ASSUME k + 1 \in 1..n PROVE flatten[k + 1] = SubSeq(r, 1, k + 1)
    OBVIOUS
  <2>1. CASE k = 0
    <3>1. SubSeq(r, 1, 1) = <<r[1]>>
      BY <1>1, FirstSegment
    <3>2. flatten[1] = <<r[1]>>
      BY <1>3, <1>5, <2>1
    <3> QED
      BY <2>1, <3>1, <3>2
  <2>2. CASE k # 0
    <3>1. k \in 1..n /\ k + 1 # 1 /\ (k + 1) - 1 = k /\ k + 1 \in 1..Len(r)
      BY <1>1, <2>2
    <3>2. SubSeq(r, 1, k + 1) = SubSeq(r, 1, k) \o <<r[k + 1]>>
      BY <3>1
    <3>3. flatten[k + 1] = flatten[(k + 1) - 1] \o seqs[k + 1]
      BY <1>3, <1>5, <3>1
    <3> QED
      BY <1>3, <1>7, <3>1, <3>2, <3>3
  <2> QED
    BY <2>1, <2>2
<1>8. flatten[n] = SubSeq(r, 1, n)
  <2>1. Nat \subseteq K
    BY <1>6, <1>7, CountsUp
  <2>2. n \in Nat /\ n \in 1..n
    BY <1>1
  <2> QED
    BY <2>1, <2>2
<1>9. SubSeq(r, 1, n) = r
  BY <1>1
<1> QED
  BY <1>2, <1>8, <1>9

LEMMA Replaced ==
  ASSUME NEW T, NEW path \in Seq(T), NEW name, NEW v \in T,
         NEW id, id = <<v>>
  PROVE  /\ ReplaceSegments(path, name, id) \in Seq(T)
         /\ Len(ReplaceSegments(path, name, id)) = Len(path)
         /\ \A i \in 1..Len(path) :
              ReplaceSegments(path, name, id)[i] = IF path[i] = name THEN v ELSE path[i]
<1>1. PICK r : r = [i \in 1..Len(path) |-> IF path[i] = name THEN v ELSE path[i]]
  OBVIOUS
<1>2. r \in Seq(T) /\ Len(r) = Len(path)
  <2>1. \A i \in 1..Len(path) : r[i] \in T
    BY <1>1
  <2>2. Len(path) \in Nat
    OBVIOUS
  <2> QED
    BY <1>1, <2>1, <2>2
<1>3. PICK seqs : seqs = [i \in DOMAIN path |-> IF path[i] = name THEN id ELSE <<path[i]>>]
  OBVIOUS
<1>4. DOMAIN path = 1..Len(path)
  OBVIOUS
<1>5. seqs = [i \in 1..Len(r) |-> <<r[i]>>]
  BY <1>1, <1>2, <1>3, <1>4
<1>6. DOMAIN seqs = 1..Len(r) /\ Len(seqs) = Len(r)
  <2>1. Len(r) \in Nat
    BY <1>2
  <2> QED
    BY <1>5, <2>1
<1>7. FlattenSeq(seqs) = r
  BY <1>2, <1>5, <1>6, FlattenSingles
<1>8. ReplaceSegments(path, name, id) = r
  BY <1>3, <1>7 DEF ReplaceSegments
<1> QED
  BY <1>1, <1>2, <1>8

Segments == {"devices", "signatures", "{deviceId}", "{signatureId}"}

LEMMA DocumentPaths ==
  ASSUME NEW op \in Document
  PROVE  op.path \in Seq(Segments) /\ Len(op.path) \in 1..4 /\ op.path[1] = "devices"
<1>1. PICK a, b, c, d :
        a = "devices" /\ b = "{deviceId}" /\ c = "signatures" /\ d = "{signatureId}"
  OBVIOUS
<1>2. a \in Segments /\ b \in Segments /\ c \in Segments /\ d \in Segments
  BY <1>1 DEF Segments
<1>3. PICK p : p = op.path
  OBVIOUS
<1>4. p = <<a>> \/ p = <<a, b>> \/ p = <<a, b, c>> \/ p = <<a, b, c, d>>
  <2>1. IsListSignatureDevices(op) \/ IsCreateSignatureDevice(op) => p = <<a>>
    BY <1>1, <1>3 DEF IsListSignatureDevices, IsCreateSignatureDevice, IsOperation
  <2>2. IsGetSignatureDevice(op) => p = <<a, b>>
    BY <1>1, <1>3 DEF IsGetSignatureDevice, IsOperation
  <2>3. IsListDeviceSignatures(op) \/ IsSignTransaction(op) => p = <<a, b, c>>
    BY <1>1, <1>3 DEF IsListDeviceSignatures, IsSignTransaction, IsOperation
  <2>4. IsGetDeviceSignature(op) => p = <<a, b, c, d>>
    BY <1>1, <1>3 DEF IsGetDeviceSignature, IsOperation
  <2> QED
    BY <2>1, <2>2, <2>3, <2>4, DocumentOperations
<1>5. p \in Seq(Segments) /\ Len(p) \in 1..4 /\ p[1] = a
  <2>1. CASE p = <<a>>
    BY <1>2, <2>1
  <2>2. CASE p = <<a, b>>
    BY <1>2, <2>2
  <2>3. CASE p = <<a, b, c>>
    BY <1>2, <2>3
  <2>4. CASE p = <<a, b, c, d>>
    BY <1>2, <2>4
  <2> QED
    BY <1>4, <2>1, <2>2, <2>3, <2>4
<1> QED
  BY <1>1, <1>3, <1>5

\* Its identifier tells an operation, which CHOOSE therefore finds.
LEMMA SameID ==
  ASSUME NEW op \in Document, NEW other \in Document, op.id = other.id
  PROVE  op = other
<1>1. PICK a : a = Operation("ListSignatureDevices", "GET", <<"devices">>,
                        "none", Answers(200, "SignatureDeviceListResponse", {500}))
  OBVIOUS
<1>2. PICK b : b = Operation("CreateSignatureDevice", "POST", <<"devices">>,
                        "CreateSignatureDeviceRequest", Answers(201, "SignatureDeviceResponse", {400, 409, 500}))
  OBVIOUS
<1>3. PICK c : c = Operation("GetSignatureDevice", "GET", <<"devices", "{deviceId}">>,
                        "none", Answers(200, "SignatureDevice", {404, 500}))
  OBVIOUS
<1>4. PICK d : d = Operation("ListDeviceSignatures", "GET", <<"devices", "{deviceId}", "signatures">>,
                        "none", Answers(200, "SignatureListResponse", {404, 500}))
  OBVIOUS
<1>5. PICK e : e = Operation("SignTransaction", "POST", <<"devices", "{deviceId}", "signatures">>,
                        "SignTransactionRequest", Answers(201, "SignatureResponse", {400, 404, 500}))
  OBVIOUS
<1>6. PICK f : f = Operation("GetDeviceSignature", "GET", <<"devices", "{deviceId}", "signatures", "{signatureId}">>,
                        "none", Answers(200, "Signature", {404, 500}))
  OBVIOUS
<1>7. /\ DevicesPath = {a, b} /\ DevicePath = {c}
      /\ SignaturesPath = {d, e} /\ SignaturePath = {f}
  <2>1. DevicesPath = {a, b}
    BY <1>1, <1>2 DEF DevicesPath
  <2>2. DevicePath = {c}
    BY <1>3 DEF DevicePath
  <2>3. SignaturesPath = {d, e}
    BY <1>4, <1>5, ZenonT(60) DEF SignaturesPath
  <2>4. SignaturePath = {f}
    BY <1>6 DEF SignaturePath
  <2> QED
    BY <2>1, <2>2, <2>3, <2>4
<1>8. Document = {a, b, c, d, e, f}
  BY <1>7 DEF Document
<1>9. a.id = "ListSignatureDevices"
  BY <1>1 DEF Operation
<1>10. b.id = "CreateSignatureDevice"
  BY <1>2 DEF Operation
<1>11. c.id = "GetSignatureDevice"
  BY <1>3 DEF Operation
<1>12. d.id = "ListDeviceSignatures"
  BY <1>4 DEF Operation
<1>13. e.id = "SignTransaction"
  BY <1>5 DEF Operation
<1>14. f.id = "GetDeviceSignature"
  BY <1>6 DEF Operation
<1> QED
  BY ONLY op \in Document, other \in Document, op.id = other.id, <1>8, <1>9, <1>10, <1>11, <1>12,
     <1>13, <1>14

\* What tells the operations of the document from each other.
Tells(o) ==
  \/ o.id = "ListSignatureDevices" /\ o.method = "GET" /\ Len(o.path) = 1
  \/ o.id = "CreateSignatureDevice" /\ o.method = "POST" /\ Len(o.path) = 1
  \/ o.id = "GetSignatureDevice" /\ o.method = "GET" /\ Len(o.path) = 2
  \/ o.id = "ListDeviceSignatures" /\ o.method = "GET" /\ Len(o.path) = 3
  \/ o.id = "SignTransaction" /\ o.method = "POST" /\ Len(o.path) = 3
  \/ o.id = "GetDeviceSignature" /\ o.method = "GET" /\ Len(o.path) = 4

LEMMA DocumentTells ==
  ASSUME NEW op \in Document
  PROVE  Tells(op)
<1>1. CASE IsListSignatureDevices(op)
  BY <1>1 DEF IsListSignatureDevices, IsOperation, Tells
<1>2. CASE IsCreateSignatureDevice(op)
  BY <1>2 DEF IsCreateSignatureDevice, IsOperation, Tells
<1>3. CASE IsGetSignatureDevice(op)
  BY <1>3 DEF IsGetSignatureDevice, IsOperation, Tells
<1>4. CASE IsListDeviceSignatures(op)
  BY <1>4 DEF IsListDeviceSignatures, IsOperation, Tells
<1>5. CASE IsSignTransaction(op)
  BY <1>5 DEF IsSignTransaction, IsOperation, Tells
<1>6. CASE IsGetDeviceSignature(op)
  BY <1>6 DEF IsGetDeviceSignature, IsOperation, Tells
<1> QED
  BY <1>1, <1>2, <1>3, <1>4, <1>5, <1>6, DocumentOperations

LEMMA MethodAndLength ==
  ASSUME NEW op \in Document, NEW other \in Document,
         op.method = other.method, Len(op.path) = Len(other.path)
  PROVE  op = other
<1>1. PICK n \in 1..4 : n = Len(op.path)
  BY DocumentPaths
<1>2. Tells(op) /\ Tells(other)
  BY DocumentTells
<1>3. op.id = other.id
  <2>1. CASE op.id = "ListSignatureDevices" /\ op.method = "GET" /\ n = 1
    BY <1>1, <1>2, <2>1 DEF Tells
  <2>2. CASE op.id = "CreateSignatureDevice" /\ op.method = "POST" /\ n = 1
    BY <1>1, <1>2, <2>2 DEF Tells
  <2>3. CASE op.id = "GetSignatureDevice" /\ op.method = "GET" /\ n = 2
    BY <1>1, <1>2, <2>3 DEF Tells
  <2>4. CASE op.id = "ListDeviceSignatures" /\ op.method = "GET" /\ n = 3
    BY <1>1, <1>2, <2>4 DEF Tells
  <2>5. CASE op.id = "SignTransaction" /\ op.method = "POST" /\ n = 3
    BY <1>1, <1>2, <2>5 DEF Tells
  <2>6. CASE op.id = "GetDeviceSignature" /\ op.method = "GET" /\ n = 4
    BY <1>1, <1>2, <2>6 DEF Tells
  <2> QED
    BY <1>1, <1>2, <2>1, <2>2, <2>3, <2>4, <2>5, <2>6 DEF Tells
<1> QED
  BY <1>3, SameID

LEMMA OperationByID ==
  ASSUME NEW op \in Document
  PROVE  OperationOf(op.id) = op
<1>1. PICK i : i = op.id
  OBVIOUS
<1>2. \E o \in Document : o.id = i
  BY <1>1
<1>3. OperationOf(i) \in Document /\ OperationOf(i).id = i
  BY <1>2 DEF OperationOf
<1> QED
  BY <1>1, <1>3, SameID

\* The value a builder holds for a parameter.
Value(b, name) == IF name = "{deviceId}" THEN b.deviceId ELSE b.signatureId

\* A template with the identifiers in the place of the parameters.
Filled(b, template) ==
  [i \in 1..Len(template) |->
     IF template[i] \in PathParameters THEN Value(b, template[i])[1] ELSE template[i]]

\* The segments that can stand in a URL a builder makes.
Words(b) == Segments \cup UUIDPattern \cup Range(b.basePath)

LEMMA FilledSegments ==
  ASSUME NEW b, NEW op \in Document,
         \A name \in ParametersOf(op) : Allowed(Value(b, name))
  PROVE  /\ Filled(b, op.path) \in Seq(Words(b))
         /\ Len(Filled(b, op.path)) = Len(op.path)
         /\ \A i \in 1..Len(op.path) : Plain(Filled(b, op.path)[i])
         /\ Filled(b, op.path)[1] = "devices"
<1>1. PICK p, n : p = op.path /\ n = Len(p)
  OBVIOUS
<1>2. p \in Seq(Segments) /\ n \in 1..4 /\ p[1] = "devices"
  BY <1>1, DocumentPaths
<1>3. PICK q : q = Filled(b, op.path)
  OBVIOUS
<1>4. q = [i \in 1..n |-> IF p[i] \in PathParameters THEN Value(b, p[i])[1] ELSE p[i]]
  BY <1>1, <1>3 DEF Filled
<1>5. ASSUME NEW i \in 1..n PROVE q[i] \in Words(b) /\ Plain(q[i])
  <2>1. p[i] \in Segments
    BY <1>1, <1>2
  <2>2. CASE p[i] \in PathParameters
    <3>1. DOMAIN op.path = 1..n
      BY <1>1, <1>2
    <3>2. p[i] \in ParametersOf(op)
      BY <1>1, <2>2, <3>1 DEF ParametersOf
    <3>3. Value(b, p[i])[1] \in UUIDPattern
      BY <3>2 DEF Allowed
    <3>4. q[i] \in UUIDPattern
      BY <1>4, <2>2, <3>3
    <3> QED
      BY <3>4 DEF Words, Plain, UUIDPattern
  <2>3. CASE p[i] \notin PathParameters
    <3>1. q[i] = p[i]
      BY <1>4, <2>3
    <3> QED
      BY <2>1, <3>1 DEF Words, Plain, Segments
  <2> QED
    BY <2>2, <2>3
<1>6. q \in Seq(Words(b)) /\ Len(q) = n
  <2>1. \A i \in 1..n : q[i] \in Words(b)
    BY <1>5
  <2> QED
    BY <1>2, <1>4, <2>1
<1>7. q[1] = "devices"
  <2>1. 1 \in 1..n /\ p[1] \notin PathParameters
    BY <1>2 DEF PathParameters
  <2> QED
    BY <1>2, <1>4, <2>1
<1> QED
  BY <1>1, <1>3, <1>5, <1>6, <1>7

\* A placeholder is replaced by what the builder holds for it.
LEMMA OneIdentifier ==
  ASSUME NEW id, IsPath(id), Allowed(id)
  PROVE  id = <<id[1]>>
<1>1. PICK T : id \in Seq(T)
  BY DEF IsPath
<1>2. Len(id) = 1
  BY DEF Allowed
<1>3. PICK x : x = id[1]
  OBVIOUS
<1>4. id = <<x>>
  BY <1>1, <1>2, <1>3
<1> QED
  BY <1>3, <1>4

LEMMA UrlPath == \A path : Url(path).path = path
BY DEF Url

\* The operations by the parameters of their paths.
LEMMA ShapeByParameters ==
  ASSUME NEW op \in Document
  PROVE  /\ ParametersOf(op) = {} => IsListSignatureDevices(op) \/ IsCreateSignatureDevice(op)
         /\ ParametersOf(op) = {"{deviceId}"} =>
              IsGetSignatureDevice(op) \/ IsListDeviceSignatures(op) \/ IsSignTransaction(op)
         /\ ParametersOf(op) = {"{deviceId}", "{signatureId}"} => IsGetDeviceSignature(op)
<1>1. /\ IsListSignatureDevices(op) => op.id = "ListSignatureDevices"
      /\ IsCreateSignatureDevice(op) => op.id = "CreateSignatureDevice"
  BY DEF IsListSignatureDevices, IsCreateSignatureDevice, IsOperation
<1>2. /\ IsGetSignatureDevice(op) => op.id = "GetSignatureDevice"
      /\ IsListDeviceSignatures(op) => op.id = "ListDeviceSignatures"
      /\ IsSignTransaction(op) => op.id = "SignTransaction"
  BY DEF IsGetSignatureDevice, IsListDeviceSignatures, IsSignTransaction, IsOperation
<1>3. IsGetDeviceSignature(op) => op.id = "GetDeviceSignature"
  BY DEF IsGetDeviceSignature, IsOperation
<1>4. \A a, b : a # b => {a} # {} /\ {a, b} # {} /\ {a, b} # {a}
  <2>1. \A a, b : a \in {a} /\ b \in {a, b} /\ (b \in {a} => b = a)
    OBVIOUS
  <2> QED
    BY <2>1
<1>5. PICK ps : ps = ParametersOf(op)
  OBVIOUS
<1>6. /\ op.id \in {"ListSignatureDevices", "CreateSignatureDevice"} => ps = {}
      /\ op.id \in {"GetSignatureDevice", "ListDeviceSignatures", "SignTransaction"} =>
           ps = {"{deviceId}"}
      /\ op.id = "GetDeviceSignature" => ps = {"{deviceId}", "{signatureId}"}
  BY <1>5, DocumentParameters
<1> QED
  BY <1>1, <1>2, <1>3, <1>4, <1>5, <1>6, DocumentOperations

\* The path of a URL that was built is the template of the operation with the
\* identifiers filled in.
LEMMA BuiltPath ==
  ASSUME NEW b, NEW op \in Document, b.op = op.id,
         IsPath(b.basePath), IsPath(b.deviceId), IsPath(b.signatureId),
         Join(b.basePath, << >>) = << >>,
         \A name \in ParametersOf(op) : Allowed(Value(b, name))
  PROVE  BuildOf(b).path = Filled(b, op.path)
<1>1. PICK base, p, q : base = b.basePath /\ p = op.path /\ q = Filled(b, op.path)
  OBVIOUS
<1>2. base \in Seq(Words(b))
  <2>1. PICK S : S = Range(base)
    OBVIOUS
  <2>2. base \in Seq(S) /\ S \subseteq Words(b)
    BY <1>1, <2>1 DEF IsPath, Words
  <2> QED
    BY <2>2
<1>3. /\ q \in Seq(Words(b)) /\ Len(q) = Len(p)
      /\ \A i \in 1..Len(q) : Plain(q[i])
  BY <1>1, FilledSegments
<1>4. Join(base, q) = q
  BY <1>1, <1>2, <1>3, JoinFromRoot
<1>5. p \in Seq(Segments) /\ Len(p) \in 1..4
  BY <1>1, DocumentPaths
<1>6. q = [i \in 1..Len(p) |-> IF p[i] \in PathParameters THEN Value(b, p[i])[1] ELSE p[i]]
  BY <1>1 DEF Filled
<1>7. DOMAIN p = 1..Len(p)
  BY <1>5
<1>8. p \in Seq(Words(b)) /\ UUIDPattern \subseteq Words(b)
  <2>1. Segments \subseteq Words(b) /\ UUIDPattern \subseteq Words(b)
    BY DEF Words
  <2>2. p \in Seq(Words(b))
    BY <1>5, <2>1
  <2> QED
    BY <2>1, <2>2
<1>9. CASE ParametersOf(op) = {}
  <2>1. \A i \in 1..Len(p) : p[i] \notin PathParameters
    BY <1>1, <1>7, <1>9 DEF ParametersOf
  <2>2. q = p
    <3>1. \A i \in 1..Len(p) : q[i] = p[i]
      BY <1>6, <2>1
    <3> QED
      BY <1>3, <1>8, <3>1, SameElements
  <2>3. IsListSignatureDevices(op) \/ IsCreateSignatureDevice(op)
    BY <1>9, ShapeByParameters
  <2>4. p = <<"devices">> /\ b.op \in {"ListSignatureDevices", "CreateSignatureDevice"}
    BY <1>1, <2>3 DEF IsOperation, IsListSignatureDevices, IsCreateSignatureDevice
  <2>5. BuildOf(b) = Url(Join(base, <<"devices">>))
    BY <1>1, <2>4 DEF BuildOf, ListSignatureDevicesURL, CreateSignatureDeviceURL
  <2> QED
    BY <1>1, <1>4, <2>2, <2>4, <2>5, UrlPath
<1>10. PICK D, S : D = "{deviceId}" /\ S = "{signatureId}"
  OBVIOUS
<1>11. /\ Value(b, D) = b.deviceId /\ Value(b, S) = b.signatureId
       /\ PathParameters = {D, S} /\ D # S
       /\ D \notin UUIDPattern /\ S \notin UUIDPattern
  BY <1>10 DEF Value, PathParameters, UUIDPattern
<1>12. PICK v, x : v = b.deviceId[1] /\ x = b.signatureId[1]
  OBVIOUS
<1>13. Empty[1] = ""
  BY DEF Empty
<1>14. /\ b.deviceId = Empty => v \notin UUIDPattern
       /\ b.signatureId = Empty => x \notin UUIDPattern
  BY <1>12, <1>13 DEF UUIDPattern
<1>15. CASE ParametersOf(op) = {"{deviceId}"}
  <2>1. ParametersOf(op) = {D}
    BY <1>15, <1>10
  <2>2. Allowed(b.deviceId) /\ b.deviceId = <<v>> /\ v \in UUIDPattern
    <3>1. Allowed(b.deviceId)
      BY <1>11, <2>1
    <3> QED
      BY <1>12, <3>1, OneIdentifier DEF Allowed
  <2>3. b.deviceId # Empty
    BY <1>14, <2>2
  <2>4. \A i \in 1..Len(p) : p[i] \in PathParameters <=> p[i] = D
    BY <1>1, <1>7, <1>11, <2>1 DEF ParametersOf
  <2>5. PICK r : r = WithDeviceID(b, p)
    OBVIOUS
  <2>6. /\ r \in Seq(Words(b)) /\ Len(r) = Len(p)
        /\ \A i \in 1..Len(p) : r[i] = IF p[i] = D THEN v ELSE p[i]
    <3>1. r = ReplaceSegments(p, D, b.deviceId)
      BY <1>10, <2>5 DEF WithDeviceID
    <3> QED
      BY <1>8, <2>2, <3>1, Replaced
  <2>7. r = q
    <3>1. \A i \in 1..Len(p) : r[i] = q[i]
      BY <1>6, <1>12, <1>11, <2>4, <2>6
    <3> QED
      BY <1>3, <2>6, <3>1, SameElements
  <2>8. \/ IsGetSignatureDevice(op) \/ IsListDeviceSignatures(op) \/ IsSignTransaction(op)
    BY <1>15, ShapeByParameters
  <2>9. BuildOf(b) = Url(Join(base, r))
    <3>1. CASE IsGetSignatureDevice(op)
      <4>1. p = <<"devices", "{deviceId}">> /\ b.op = "GetSignatureDevice"
        BY <1>1, <3>1, ZenonT(60) DEF IsGetSignatureDevice, IsOperation
      <4>2. BuildOf(b) = GetSignatureDeviceURL(b)
        BY <4>1 DEF BuildOf
      <4> QED
        BY <1>1, <2>3, <2>5, <4>1, <4>2 DEF GetSignatureDeviceURL
    <3>2. CASE IsListDeviceSignatures(op)
      <4>1. p = <<"devices", "{deviceId}", "signatures">> /\ b.op = "ListDeviceSignatures"
        BY <1>1, <3>2, ZenonT(60) DEF IsListDeviceSignatures, IsOperation
      <4>2. BuildOf(b) = ListDeviceSignaturesURL(b)
        BY <4>1 DEF BuildOf
      <4> QED
        BY <1>1, <2>3, <2>5, <4>1, <4>2 DEF ListDeviceSignaturesURL
    <3>3. CASE IsSignTransaction(op)
      <4>1. p = <<"devices", "{deviceId}", "signatures">> /\ b.op = "SignTransaction"
        BY <1>1, <3>3, ZenonT(60) DEF IsSignTransaction, IsOperation
      <4>2. BuildOf(b) = SignTransactionURL(b)
        BY <4>1 DEF BuildOf
      <4> QED
        BY <1>1, <2>3, <2>5, <4>1, <4>2 DEF SignTransactionURL
    <3> QED
      BY <2>8, <3>1, <3>2, <3>3
  <2> QED
    BY <1>1, <1>4, <2>7, <2>9, UrlPath
<1>16. CASE ParametersOf(op) = {"{deviceId}", "{signatureId}"}
  <2>1. ParametersOf(op) = {D, S}
    BY <1>16, <1>10
  <2>2. /\ b.deviceId = <<v>> /\ v \in UUIDPattern
        /\ b.signatureId = <<x>> /\ x \in UUIDPattern
    <3>1. Allowed(b.deviceId) /\ Allowed(b.signatureId)
      BY <1>11, <2>1
    <3> QED
      BY <1>12, <3>1, OneIdentifier DEF Allowed
  <2>3. b.deviceId # Empty /\ b.signatureId # Empty
    BY <1>14, <2>2
  <2>4. PICK r : r = WithDeviceID(b, p)
    OBVIOUS
  <2>5. PICK u : u = WithSignatureID(b, r)
    OBVIOUS
  <2>6. /\ r \in Seq(Words(b)) /\ Len(r) = Len(p)
        /\ \A i \in 1..Len(p) : r[i] = IF p[i] = D THEN v ELSE p[i]
    <3>1. r = ReplaceSegments(p, D, b.deviceId)
      BY <1>10, <2>4 DEF WithDeviceID
    <3> QED
      BY <1>8, <2>2, <3>1, Replaced
  <2>7. /\ u \in Seq(Words(b)) /\ Len(u) = Len(p)
        /\ \A i \in 1..Len(p) : u[i] = IF r[i] = S THEN x ELSE r[i]
    <3>1. u = ReplaceSegments(r, S, b.signatureId)
      BY <1>10, <2>5 DEF WithSignatureID
    <3>2. /\ u \in Seq(Words(b)) /\ Len(u) = Len(r)
          /\ \A i \in 1..Len(r) : u[i] = IF r[i] = S THEN x ELSE r[i]
      BY <1>8, <2>2, <2>6, <3>1, Replaced
    <3> QED
      BY <2>6, <3>2
  <2>8. u = q
    <3>1. ASSUME NEW i \in 1..Len(p) PROVE u[i] = q[i]
      <4>1. /\ r[i] = IF p[i] = D THEN v ELSE p[i]
            /\ u[i] = IF r[i] = S THEN x ELSE r[i]
            /\ q[i] = IF p[i] \in {D, S} THEN Value(b, p[i])[1] ELSE p[i]
        BY <1>6, <1>11, <2>6, <2>7
      <4>2. v # S
        BY <1>11, <2>2
      <4> QED
        BY <1>12, <1>11, <4>1, <4>2
    <3> QED
      BY <1>3, <2>7, <3>1, SameElements
  <2>9. IsGetDeviceSignature(op)
    BY <1>16, ShapeByParameters
  <2>10. /\ p = <<"devices", "{deviceId}", "signatures", "{signatureId}">>
         /\ b.op = "GetDeviceSignature"
    BY <1>1, <2>9, ZenonT(60) DEF IsGetDeviceSignature, IsOperation
  <2>11. BuildOf(b) = Url(Join(base, u))
    <3>1. BuildOf(b) = GetDeviceSignatureURL(b)
      BY <2>10 DEF BuildOf
    <3> QED
      BY <1>1, <2>3, <2>4, <2>5, <2>10, <3>1 DEF GetDeviceSignatureURL
  <2> QED
    BY <1>1, <1>4, <2>8, <2>11, UrlPath
<1> QED
  BY <1>9, <1>15, <1>16, DocumentParameters

-----------------------------------------------------------------------------
(* From a URL that was built to the handler                                  *)

\* What the router makes of the path, as long as the request lasts.
RoutingInv ==
  /\ route \in Document => route \in Routes(request.method, Clean(request.path))
  /\ stage # "enter" /\ route = NoRoute =>
       \/ Clean(request.path) \in {<<"swagger.json">>, <<"docs">>}
       \/ Routes(request.method, Clean(request.path)) = {}

LEMMA NoRouteServes == NoRoute \notin Document
<1>1. NoRoute.id = None
  BY DEF NoRoute
<1> QED
  BY <1>1, DocumentIDs DEF None

LEMMA RoutingInit ==
  ASSUME Init
  PROVE  RoutingInv
BY NoRouteServes DEF Init, RoutingInv

\* The steps that leave request and route alone.
LEMMA RoutingStays ==
  ASSUME RoutingInv, UNCHANGED <<request, route>>, stage = "enter" => stage' = "enter"
  PROVE  RoutingInv'
BY DEF RoutingInv

LEMMA StaticRouting ==
  ASSUME RoutingInv, NEW name, NEW path, Static(name, path),
         path \in {<<"swagger.json">>, <<"docs">>}
  PROVE  RoutingInv'
<1>1. UNCHANGED <<request, route>> /\ stage = "enter"
  BY DEF Static, At
<1>2. CASE Clean(request.path) = path
  BY <1>1, <1>2 DEF RoutingInv
<1>3. CASE Clean(request.path) # path
  <2>1. stage' = stage
    BY <1>3 DEF Static
  <2> QED
    BY <1>1, <2>1, RoutingStays
<1> QED
  BY <1>2, <1>3

LEMMA RoutingStep ==
  ASSUME ControlInv, RoutingInv, [Next]_vars
  PROVE  RoutingInv'
<1>1. CASE SetResponseHeader
  BY <1>1, RoutingStays DEF SetResponseHeader
<1>2. CASE RequestIDHandler
  BY <1>2, RoutingStays DEF RequestIDHandler
<1>3. CASE SpecDocument
  BY <1>3, StaticRouting DEF SpecDocument
<1>4. CASE SwaggerUI
  BY <1>4, StaticRouting DEF SwaggerUI
<1>5. CASE Router
  <2> DEFINE found == Routes(request.method, Clean(request.path))
  <2>1. request' = request
    BY <1>5 DEF Router
  <2>2. CASE found # {}
    <3>1. route' \in found /\ stage' = stage /\ stage = "enter"
      BY <1>5, <2>2 DEF Router, At
    <3> QED
      BY <2>1, <3>1 DEF RoutingInv
  <2>3. CASE found = {}
    <3>1. route' = route
      BY <1>5, <2>3 DEF Router
    <3> QED
      BY <2>1, <2>3, <3>1 DEF RoutingInv
  <2> QED
    BY <2>2, <2>3
<1>6. CASE LogHTTP
  BY <1>6, RoutingStays DEF LogHTTP
<1>7. CASE Recovery
  BY <1>7, RoutingStays DEF Recovery
<1>8. CASE Bind
  <2>1. route \in Document
    <3>1. Len(left) = 1
      BY <1>8, PushedAt DEF Bind, Enters
    <3> QED
      BY <3>1 DEF ControlInv, RouteInv
  <2>2. UNCHANGED <<request, route>>
    BY <1>8 DEF Bind
  <2> QED
    BY <2>1, <2>2, NoRouteServes DEF RoutingInv
<1>9. CASE Handle
  BY <1>9, RoutingStays DEF Handle
<1>10. CASE HandlerPanics
  BY <1>10, RoutingStays DEF HandlerPanics
<1>11. CASE WriteStatus
  BY <1>11, RoutingStays DEF WriteStatus
<1>12. CASE WriteBody
  BY <1>12, RoutingStays DEF WriteBody
<1>13. CASE Unwind
  BY <1>13, RoutingStays DEF Unwind
<1>14. CASE Return
  BY <1>14, RoutingStays DEF Return
<1>15. CASE UNCHANGED vars
  BY <1>15, RoutingStays DEF vars
<1> QED
  BY <1>1, <1>2, <1>3, <1>4, <1>5, <1>6, <1>7, <1>8, <1>9, <1>10, <1>11, <1>12, <1>13,
     <1>14, <1>15
  DEF Next, Served

LEMMA RoutingInvariant == Spec => [](PipelineInv /\ RoutingInv)
<1>1. Init => RoutingInv
  BY RoutingInit
<1>2. PipelineInv /\ RoutingInv /\ [Next]_vars => RoutingInv'
  BY RoutingStep DEF PipelineInv
<1> QED
  BY <1>1, <1>2, PipelineInvariant, PTL DEF Spec

\* Where a template that was filled in leads.
LEMMA FilledRoutes ==
  ASSUME NEW b, NEW op \in Document, NEW path, path = Filled(b, op.path),
         \A name \in ParametersOf(op) : Allowed(Value(b, name))
  PROVE  /\ Clean(path) = path
         /\ Routes(op.method, path) = {op}
         /\ path \notin {<<"swagger.json">>, <<"docs">>}
         /\ \A name \in ParametersOf(op) : ParameterValue(op, name, path) = Value(b, name)[1]
<1>1. PICK p : p = op.path
  OBVIOUS
<1>2. p \in Seq(Segments) /\ Len(p) \in 1..4
  BY <1>1, DocumentPaths
<1>3. path \in Seq(Words(b)) /\ Len(path) = Len(p) /\ path[1] = "devices"
  BY <1>1, FilledSegments
<1>4. DOMAIN p = 1..Len(p)
  BY <1>2
<1>5. Clean(path) = path
  <2>1. \A i \in 1..Len(path) : Plain(path[i])
    BY <1>1, <1>3, FilledSegments
  <2> QED
    BY <1>3, <2>1, PlainIsClean
<1>6. \A i \in 1..Len(p) :
        path[i] = IF p[i] \in PathParameters THEN Value(b, p[i])[1] ELSE p[i]
  BY <1>1 DEF Filled
<1>7. PathMatches(op.path, path)
  BY <1>1, <1>3, <1>4, <1>6 DEF PathMatches
<1>8. Routes(op.method, path) = {op}
  <2>1. op \in Routes(op.method, path)
    BY <1>7 DEF Routes
  <2>2. ASSUME NEW o \in Routes(op.method, path) PROVE o = op
    <3>1. o \in Document /\ o.method = op.method /\ Len(o.path) = Len(path)
      BY <2>2 DEF Routes, PathMatches
    <3> QED
      BY <1>1, <1>3, <3>1, MethodAndLength
  <2> QED
    BY <2>1, <2>2
<1>9. path \notin {<<"swagger.json">>, <<"docs">>}
  BY <1>3
<1>10. ASSUME NEW name \in ParametersOf(op)
       PROVE  ParameterValue(op, name, path) = Value(b, name)[1]
  <2>1. name \in PathParameters /\ \E i \in DOMAIN p : p[i] = name
    BY <1>1 DEF ParametersOf
  <2>2. PICK i : i = CHOOSE j \in DOMAIN p : p[j] = name
    OBVIOUS
  <2>3. i \in DOMAIN p /\ p[i] = name
    BY <2>1, <2>2
  <2>4. ParameterValue(op, name, path) = path[i]
    BY <1>1, <2>2 DEF ParameterValue
  <2> QED
    BY <1>4, <1>6, <2>1, <2>3, <2>4
<1> QED
  BY <1>5, <1>8, <1>9, <1>10

\* A request whose URL a builder has made from identifiers the document allows
\* reaches the builder's own operation with those identifiers: the templates,
\* path.Join, the router and the binding fit together for any base path that
\* leads nowhere.
THEOREM BuiltUrlsRouteBack == Spec => []BuiltUrlRoutesBack
<1>1. ASSUME PipelineInv, RoutingInv, HandledIffAllowedOrOverlooked PROVE BuiltUrlRoutesBack
  <2> DEFINE b == request.built
             op == OperationOf(b.op)
  <2> SUFFICES ASSUME closed, b # NoBuilder, Join(b.basePath, << >>) = << >>,
                      \A name \in DOMAIN Values(b) : Allowed(Values(b)[name])
               PROVE  /\ route = op /\ bound.given
                      /\ bound.ids = [name \in DOMAIN Values(b) |-> Values(b)[name][1]]
    BY DEF BuiltUrlRoutesBack
  <2>1. request \in Requests
    BY <1>1 DEF PipelineInv
  <2>2. MadeFrom(b, request)
    BY <2>1, BuiltAssumption
  <2>3. op \in Document /\ op.id = b.op
    <3>1. PICK o \in Document : o.id = b.op
      BY <2>2 DEF MadeFrom, OperationIDs
    <3> QED
      BY <3>1, OperationByID
  <2>4. /\ DOMAIN Values(b) = ParametersOf(op)
        /\ \A name \in ParametersOf(op) : Values(b)[name] = Value(b, name)
    BY DEF Values, Value
  <2>5. \A name \in ParametersOf(op) : Allowed(Value(b, name))
    BY <2>4
  <2>6. request.path = Filled(b, op.path)
    BY <2>2, <2>3, <2>5, BuiltPath DEF MadeFrom
  <2>7. /\ Clean(request.path) = request.path
        /\ Routes(op.method, request.path) = {op}
        /\ request.path \notin {<<"swagger.json">>, <<"docs">>}
        /\ \A name \in ParametersOf(op) :
             ParameterValue(op, name, request.path) = Value(b, name)[1]
    BY <2>3, <2>5, <2>6, FilledRoutes
  <2>8. request.method = op.method
    BY <2>2 DEF MadeFrom
  <2>9. route = op
    <3>1. route = NoRoute \/ route \in Document
      BY <1>1 DEF PipelineInv, ControlInv, RouteInv
    <3>2. route # NoRoute
      BY <1>1, <2>7, <2>8 DEF RoutingInv, closed
    <3> QED
      BY <1>1, <2>7, <2>8, <3>1, <3>2 DEF RoutingInv
  <2>10. Acceptable(route, request)
    <3>1. AcceptableBody(op, request.body)
      BY <2>2 DEF MadeFrom
    <3>2. AcceptableIDs(op, request)
      BY <2>5, <2>7 DEF AcceptableIDs, IDOf, Allowed
    <3> QED
      BY <2>9, <3>1, <3>2 DEF Acceptable
  <2>11. bound.given
    <3>1. Routed
      BY <2>3, <2>9, DocumentIDs DEF Routed, None
    <3>2. Negotiated(request)
      BY <2>2 DEF MadeFrom
    <3> QED
      BY <1>1, <2>10, <3>1, <3>2 DEF HandledIffAllowedOrOverlooked
  <2>12. bound = Params(op, request)
    BY <1>1, <2>9, <2>11 DEF PipelineInv, BoundInv
  <2>13. bound.ids = [name \in ParametersOf(op) |-> ParameterValue(op, name, request.path)]
    BY <2>7, <2>12 DEF Params, IDOf
  <2>14. bound.ids = [name \in DOMAIN Values(b) |-> Values(b)[name][1]]
    BY <2>4, <2>7, <2>13
  <2> QED
    BY <2>9, <2>11, <2>14
<1> QED
  BY <1>1, RoutingInvariant, BindingTakesAllowedOrOverlooked, PTL
==============================================================================
