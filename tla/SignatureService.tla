-------------------------- MODULE SignatureService -------------------------
(***************************************************************************)
(* The handlers of internal/service over the in-memory repository.  Every  *)
(* request is served by a goroutine of its own; a step is what a handler   *)
(* does between two points where another goroutine may observe or delay    *)
(* it.  Key generation runs before the repository lock is taken, the rest  *)
(* of a handler inside it, and the response is written after it.           *)
(***************************************************************************)
EXTENDS InMemStorage, FiniteSets

CONSTANTS
  Data,           \* the payloads clients ask to sign
  SignatureIDs,   \* the signature identifiers clients ask for
  Calls,          \* the calls clients make, some of AllCalls
  Wired           \* the operations whose handler Run assigns

Operations == {"CreateSignatureDevice", "SignTransaction",
               "GetSignatureDevice", "ListSignatureDevices",
               "ListDeviceSignatures", "GetDeviceSignature"}

\* The assignments of Run.  GetDeviceSignatureHandler is not among them, so the
\* generated default answers for it.
ServerWiring == Operations \ {"GetDeviceSignature"}

AllCalls ==
       [op : {"CreateSignatureDevice"}, id : DeviceIDs, alg : Algorithms]
  \cup [op : {"SignTransaction"}, id : DeviceIDs, data : Data]
  \cup [op : {"GetSignatureDevice", "ListDeviceSignatures"}, id : DeviceIDs]
  \cup [op : {"ListSignatureDevices"}]
  \cup [op : {"GetDeviceSignature"}, id : DeviceIDs, sig : SignatureIDs]

ASSUME CallsAssumption == Calls \subseteq AllCalls
ASSUME WiredAssumption == Wired \subseteq Operations

VARIABLES
  pc,         \* where request r's goroutine stands
  req,        \* the bound parameters of request r
  keyPair,    \* the private key request r generated
  info,       \* the SignatureDeviceInfo request r read
  signature,  \* the signature request r computed
  resp,       \* the response of request r
  issued      \* history: per device, who had what signed, in storage order

handlerVars == <<req, keyPair, info, signature, resp>>
vars == <<mu, devices, signatures, pc, req, keyPair, info, signature, resp, issued>>

Goto(r, label) == pc' = [pc EXCEPT ![r] = label]
Respond(r, answer) == resp' = [resp EXCEPT ![r] = answer]

Init ==
  /\ NewStorage
  /\ pc = [r \in Requests |-> "idle"]
  /\ req = [r \in Requests |-> None]
  /\ keyPair = [r \in Requests |-> None]
  /\ info = [r \in Requests |-> None]
  /\ signature = [r \in Requests |-> None]
  /\ resp = [r \in Requests |-> None]
  /\ issued = [id \in DeviceIDs |-> << >>]
-----------------------------------------------------------------------------
\* A valid request reaches its handler.
Accept(r) ==
  /\ pc[r] = "idle"
  /\ \E call \in Calls :
       /\ call.op \in Wired
       /\ req' = [req EXCEPT ![r] = call]
       /\ Goto(r, IF call.op = "CreateSignatureDevice" THEN "generate" ELSE "begin")
  /\ UNCHANGED <<storageVars, keyPair, info, signature, resp, issued>>

\* A valid request for an operation left to the generated default handler.
NotImplemented(r) ==
  /\ pc[r] = "idle"
  /\ \E call \in Calls :
       /\ call.op \notin Wired
       /\ req' = [req EXCEPT ![r] = call]
  /\ Respond(r, [status |-> 501])
  /\ Goto(r, "return")
  /\ UNCHANGED <<storageVars, keyPair, info, signature, issued>>

\* CreateSignatureDevice generates the keys outside the lock.
GenerateKeyPair(r) ==
  /\ pc[r] = "generate"
  /\ \/ /\ req[r].alg \in Signers
        /\ keyPair' = [keyPair EXCEPT ![r] = NewKey(req[r].alg, r)]
        /\ Goto(r, "begin")
        /\ UNCHANGED resp
     \/ /\ Respond(r, [status |-> FailureStatus(req[r].alg)])
        /\ Goto(r, "return")
        /\ UNCHANGED keyPair
  /\ UNCHANGED <<storageVars, req, info, signature, issued>>

FirstStep(op) ==
  CASE op = "CreateSignatureDevice" -> "create"
    [] op = "SignTransaction"       -> "getInfo"
    [] OTHER                        -> "read"

BeginTx(r) ==
  /\ pc[r] = "begin"
  /\ Lock(r)
  /\ Goto(r, FirstStep(req[r].op))
  /\ UNCHANGED <<devices, signatures, handlerVars, issued>>

\* Mutated form of Create: the map is written before the key is looked up.
CreateOverwriting(r) ==
  /\ pc[r] = "create"
  /\ CreateNewSignatureDevice(req[r].id, req[r].alg, keyPair[r])
  /\ Goto(r, "commit")
  /\ UNCHANGED <<mu, signatures, handlerVars, issued>>

Create(r) ==
  /\ pc[r] = "create"
  /\ \/ /\ Found(req[r].id)
        /\ Respond(r, [status |-> 409])
        /\ Goto(r, "rollback")
        /\ UNCHANGED devices
     \/ /\ ~Found(req[r].id)
        /\ CreateNewSignatureDevice(req[r].id, req[r].alg, keyPair[r])
        /\ Goto(r, "commit")
        /\ UNCHANGED resp
  /\ UNCHANGED <<mu, signatures, req, keyPair, info, signature, issued>>

\* Mutated forms of GetInfo: a wrong status; a retry until the device exists.
GetInfoWrongStatus(r) ==
  /\ pc[r] = "getInfo"
  /\ \/ /\ ~Found(req[r].id)
        /\ Respond(r, [status |-> 409])
        /\ Goto(r, "rollback")
        /\ UNCHANGED info
     \/ /\ Found(req[r].id)
        /\ info' = [info EXCEPT ![r] = DeviceInfo(req[r].id)]
        /\ Goto(r, "sign")
        /\ UNCHANGED resp
  /\ UNCHANGED <<storageVars, req, keyPair, signature, issued>>
GetInfoRetrying(r) ==
  /\ pc[r] = "getInfo"
  /\ \/ /\ ~Found(req[r].id)
        /\ Unlock
        /\ Goto(r, "begin")
        /\ UNCHANGED info
     \/ /\ Found(req[r].id)
        /\ info' = [info EXCEPT ![r] = DeviceInfo(req[r].id)]
        /\ Goto(r, "sign")
        /\ UNCHANGED mu
  /\ UNCHANGED <<devices, signatures, req, keyPair, signature, resp, issued>>

GetInfo(r) ==
  /\ pc[r] = "getInfo"
  /\ \/ /\ ~Found(req[r].id)
        /\ Respond(r, [status |-> 404])
        /\ Goto(r, "rollback")
        /\ UNCHANGED info
     \/ /\ Found(req[r].id)
        /\ info' = [info EXCEPT ![r] = DeviceInfo(req[r].id)]
        /\ Goto(r, "sign")
        /\ UNCHANGED resp
  /\ UNCHANGED <<storageVars, req, keyPair, signature, issued>>

\* The local securedData of SignTransaction.
SecuredDataOf(r) ==
  SecuredData(info[r].SignatureCounter, req[r].data, info[r].LastSignature)

\* GetSigner and Sign: they touch nothing shared, and may fail.
SignData(r) ==
  /\ pc[r] = "sign"
  /\ \/ /\ CanSign(info[r].Algorithm, info[r].PrivateKey)
        /\ signature' = [signature EXCEPT ![r] =
                           SignatureOf(info[r].PrivateKey, SecuredDataOf(r), r)]
        /\ Goto(r, "addSignature")
        /\ UNCHANGED resp
     \/ /\ Respond(r, [status |-> FailureStatus(info[r].Algorithm)])
        /\ Goto(r, "rollback")
        /\ UNCHANGED signature
  /\ UNCHANGED <<storageVars, req, keyPair, info, issued>>

StoreSignature(r) ==
  /\ pc[r] = "addSignature"
  /\ AddSignature(req[r].id, Base64(signature[r]))
  /\ issued' = [issued EXCEPT ![req[r].id] =
                  Append(@, [by         |-> r,
                             signedData |-> SecuredDataOf(r),
                             signature  |-> Base64(signature[r])])]
  /\ Goto(r, "commit")
  /\ UNCHANGED <<mu, signatures, handlerVars>>

\* newSignatureDeviceModel: what a client is shown of a device.
DeviceModel(dev) ==
  [ID               |-> dev.ID,
   Algorithm        |-> dev.Algorithm,
   SignatureCounter |-> dev.SignatureCounter,
   LastSignature    |-> dev.LastSignature,
   PublicKeyPem     |-> dev.PublicKeyPem]

Positions(sigs, sigID) == {i \in DOMAIN sigs : sigs[i].ID = sigID}

\* The first signature of the device with that id.
SignatureAnswer(id, sigID) ==
  LET sigs  == SignaturesOf(id)
      found == Positions(sigs, sigID)
  IN  IF found = {} THEN [status |-> 404]
      ELSE [status |-> 200,
            item   |-> sigs[CHOOSE i \in found : \A j \in found : i <= j]]

\* What the four reading handlers answer.  The list of devices is sorted by its
\* unique key, so that the map id -> device says all of it.
ReadAnswer(call) ==
  IF call.op = "ListSignatureDevices"
  THEN [status |-> 200,
        items  |-> [id \in DOMAIN devices |-> DeviceModel(devices[id])]]
  ELSE IF ~Found(call.id) THEN [status |-> 404]
  ELSE CASE call.op = "GetSignatureDevice" ->
              [status |-> 200, item |-> DeviceModel(devices[call.id])]
         [] call.op = "ListDeviceSignatures" ->
              [status |-> 200, items |-> SignaturesOf(call.id)]
         [] call.op = "GetDeviceSignature" -> SignatureAnswer(call.id, call.sig)

\* The body of a reading handler; its deferred Rollback comes next.
Read(r) ==
  /\ pc[r] = "read"
  /\ Respond(r, ReadAnswer(req[r]))
  /\ Goto(r, "rollback")
  /\ UNCHANGED <<storageVars, req, keyPair, info, signature, issued>>

\* Mutated form of CommitResponse: the device is read again for the payload.
CommitResponseReread(r) ==
  IF req[r].op = "CreateSignatureDevice"
  THEN [status       |-> 201,
        ID           |-> req[r].id,
        PublicKeyPem |-> devices[req[r].id].PublicKeyPem]
  ELSE [status     |-> 201,
        Signature  |-> devices[req[r].id].LastSignature,
        SignedData |-> SecuredData(devices[req[r].id].SignatureCounter, req[r].data,
                                   devices[req[r].id].LastSignature)]

\* The 201 payloads of CreateSignatureDevice and SignTransaction.
CommitResponse(r) ==
  IF req[r].op = "CreateSignatureDevice"
  THEN [status       |-> 201,
        ID           |-> req[r].id,
        PublicKeyPem |-> PublicKeyPEM(keyPair[r])]
  ELSE [status     |-> 201,
        Signature  |-> Base64(signature[r]),
        SignedData |-> SecuredDataOf(r)]

\* The handler returns: its locals are gone.
ForgetLocals(r) ==
  /\ keyPair' = [keyPair EXCEPT ![r] = None]
  /\ info' = [info EXCEPT ![r] = None]
  /\ signature' = [signature EXCEPT ![r] = None]

Commit(r) ==
  /\ pc[r] = "commit"
  /\ Unlock
  /\ Respond(r, CommitResponse(r))
  /\ ForgetLocals(r)
  /\ Goto(r, "return")
  /\ UNCHANGED <<devices, signatures, req, issued>>

\* Mutated form of Rollback: an early return that forgets to unlock.
RollbackForgotten(r) ==
  /\ pc[r] = "rollback"
  /\ ForgetLocals(r)
  /\ Goto(r, "return")
  /\ UNCHANGED <<mu, devices, signatures, req, resp, issued>>

Rollback(r) ==
  /\ pc[r] = "rollback"
  /\ Unlock
  /\ ForgetLocals(r)
  /\ Goto(r, "return")
  /\ UNCHANGED <<devices, signatures, req, resp, issued>>

\* The response reaches the client.
Deliver(r) ==
  /\ pc[r] = "return"
  /\ Goto(r, "done")
  /\ UNCHANGED <<storageVars, handlerVars, issued>>

\* Every request was answered: nothing is left to do.
AllDone ==
  /\ \A r \in Requests : pc[r] = "done"
  /\ UNCHANGED vars

HandlerStep(r) ==
  \/ GenerateKeyPair(r)
  \/ Create(r)
  \/ GetInfo(r)
  \/ SignData(r)
  \/ StoreSignature(r)
  \/ Read(r)
  \/ Commit(r)
  \/ Rollback(r)

Next ==
  \/ \E r \in Requests :
       Accept(r) \/ NotImplemented(r) \/ BeginTx(r) \/ HandlerStep(r) \/ Deliver(r)
  \/ AllDone

Spec == Init /\ [][Next]_vars

\* A runnable goroutine runs, and sync.RWMutex hands itself over to a waiter
\* it has starved.  Nothing makes a client send a request or read an answer.
Fairness ==
  /\ \A r \in Requests : WF_vars(HandlerStep(r))
  /\ \A r \in Requests : SF_vars(BeginTx(r))

FairSpec == Spec /\ Fairness
-----------------------------------------------------------------------------
(***************************************************************************)
(* Properties.                                                             *)
(***************************************************************************)
Critical == {"create", "getInfo", "sign", "addSignature", "read",
             "commit", "rollback"}
Labels == {"idle", "generate", "begin", "return", "done"} \cup Critical
Answered == {"return", "done"}

Keys == [alg : Algorithms, owner : Requests]

IsSequence(s) == s \in Seq({s[i] : i \in DOMAIN s})

DeviceShape(d, id) ==
  /\ DOMAIN d = DeviceFields
  /\ d.ID = id
  /\ d.PrivateKey \in Keys
  /\ d.SignatureCounter \in Int64

StorageTypeOK ==
  /\ mu \in Requests \cup {None}
  /\ devices = [id \in DOMAIN devices |-> devices[id]]
  /\ DOMAIN devices \subseteq DeviceIDs
  /\ \A id \in DOMAIN devices : DeviceShape(devices[id], id)
  /\ signatures = EmptyMap

HandlersTypeOK ==
  /\ pc \in [Requests -> Labels]
  /\ req \in [Requests -> Calls \cup {None}]
  /\ keyPair \in [Requests -> Keys \cup {None}]
  /\ info = [r \in Requests |-> info[r]]
  /\ signature = [r \in Requests |-> signature[r]]
  /\ resp = [r \in Requests |-> resp[r]]

IssuedTypeOK ==
  /\ issued = [id \in DeviceIDs |-> issued[id]]
  /\ \A id \in DeviceIDs : IsSequence(issued[id])

\* Every variable keeps its shape: the device map holds well-formed devices
\* under their own ids, the signature map stays nil, and the history of a
\* device is a sequence.
TypeOK == StorageTypeOK /\ HandlersTypeOK /\ IssuedTypeOK

\* The repository lock is held exactly by the request inside a transaction:
\* no path of a handler returns with the lock, runs a repository operation
\* without it, or unlocks it for another request.
LockDiscipline == \A r \in Requests : (mu = r) <=> (pc[r] \in Critical)

\* What a sign request read of the device before signing is still true when it
\* stores the signature: no other request changed the device meanwhile.
FreshInfo ==
  \A r \in Requests : pc[r] \in {"sign", "addSignature"} =>
    /\ Found(req[r].id)
    /\ info[r] = DeviceInfo(req[r].id)

\* The counter and the link the signature after the first n ones must carry.
CounterAfter(id, n) ==
  IF n = 0 THEN 0 ELSE Inc64(issued[id][n].signedData.counter)
LinkAfter(id, n) ==
  IF n = 0 THEN Base64(id) ELSE issued[id][n].signature

\* The signatures of a device form one chain: each was made over the counter
\* and the signature that precede it (the counter as an int64 counts, which is
\* CounterCountsSignatures' subject), the first over 0 and the base64 of the
\* id, each verifies under the public key the device was created with, and the
\* device's own counter and last signature are the end of the chain.
ChainIntact ==
  \A id \in DeviceIDs :
    /\ issued[id] # << >> => Found(id)
    /\ \A i \in DOMAIN issued[id] :
         /\ issued[id][i].signedData.counter = CounterAfter(id, i - 1)
         /\ issued[id][i].signedData.last = LinkAfter(id, i - 1)
         /\ Verifies(devices[id].PublicKeyPem, issued[id][i].signedData,
                     issued[id][i].signature.base64)
    /\ Found(id) =>
         /\ devices[id].SignatureCounter = CounterAfter(id, Len(issued[id]))
         /\ devices[id].LastSignature = LinkAfter(id, Len(issued[id]))

\* swagger.yaml and models/signature_device.go: signature_counter is the "Number
\* of signatures produced by this device", however many those are.
CounterCountsSignatures ==
  \A id \in DOMAIN devices : devices[id].SignatureCounter = Len(issued[id])

EntriesOf(r) ==
  UNION {{<<id, i>> : i \in {j \in DOMAIN issued[id] : issued[id][j].by = r}}
         : id \in DeviceIDs}

\* A sign request answered 201 has stored exactly one signature, on its device
\* and with the signature and signed data of the answer; a request with any
\* other answer, or none yet, has stored none.
ExactlyOnce ==
  \A r \in Requests :
    IF /\ pc[r] \in Answered
       /\ req[r].op = "SignTransaction"
       /\ resp[r].status = 201
    THEN \E i \in DOMAIN issued[req[r].id] :
           /\ EntriesOf(r) = {<<req[r].id, i>>}
           /\ issued[req[r].id][i].signature = resp[r].Signature
           /\ issued[req[r].id][i].signedData = resp[r].SignedData
    ELSE pc[r] # "commit" => EntriesOf(r) = {}

CreateCall(r, id) ==
  pc[r] # "idle" /\ req[r].op = "CreateSignatureDevice" /\ req[r].id = id

\* Of the requests that create one id, at most one is answered 201, its answer
\* carries the public key the device signs under, and it is the one that
\* generated the device's key; a 409 is given only for an id that exists.
CreateOnce ==
  \A id \in DeviceIDs :
    /\ \A r \in Requests : CreateCall(r, id) /\ pc[r] \in Answered =>
         /\ resp[r].status = 201 =>
              /\ Found(id)
              /\ resp[r].PublicKeyPem = devices[id].PublicKeyPem
              /\ devices[id].PrivateKey.owner = r
         /\ resp[r].status = 409 => Found(id)
    /\ Found(id) =>
         LET creator == devices[id].PrivateKey.owner
         IN  /\ CreateCall(creator, id)
             /\ pc[creator] \in Answered => resp[creator].status = 201

\* A device that a client is shown is one the device really was: its key, and a
\* counter and last signature that belong together in its chain.
ReadsAreSnapshots ==
  \A r \in Requests :
    pc[r] \in Answered /\ req[r].op = "GetSignatureDevice" /\ resp[r].status = 200 =>
      LET shown == resp[r].item
      IN  /\ Found(shown.ID) /\ shown.ID = req[r].id
          /\ shown.PublicKeyPem = devices[shown.ID].PublicKeyPem
          /\ \E n \in 0 .. Len(issued[shown.ID]) :
               /\ shown.SignatureCounter = CounterAfter(shown.ID, n)
               /\ shown.LastSignature = LinkAfter(shown.ID, n)

\* The statuses the OpenAPI document gives each operation.
Documented(op) ==
  CASE op = "CreateSignatureDevice" -> {201, 400, 409, 500}
    [] op = "SignTransaction"       -> {201, 400, 404, 500}
    [] op = "ListSignatureDevices"  -> {200, 500}
    [] OTHER                        -> {200, 404, 500}

\* Every answer has a status the OpenAPI document lists for its operation.
DocumentedStatus ==
  \A r \in Requests :
    pc[r] \in Answered => resp[r].status \in Documented(req[r].op)

\* The list of a device's signatures, at the moment it is made, is the list of
\* the signatures the device has issued, in creation order.
ListReturnsIssuedSignatures ==
  \A r \in Requests :
    pc[r] = "rollback" /\ req[r].op = "ListDeviceSignatures" /\ resp[r].status = 200 =>
      /\ Len(resp[r].items) = Len(issued[req[r].id])
      /\ \A i \in DOMAIN resp[r].items :
           resp[r].items[i].Signature = issued[req[r].id][i].signature

\* A device is never removed nor given another key or algorithm, and its
\* counter moves, by one, exactly when its last signature is replaced by a
\* signature made over it.
DeviceIdentity(d) == <<d.ID, d.Algorithm, d.PrivateKey, d.PublicKeyPem>>
DeviceStep(id) ==
  /\ id \in DOMAIN devices'
  /\ DeviceIdentity(devices'[id]) = DeviceIdentity(devices[id])
  /\ \/ devices'[id] = devices[id]
     \/ /\ devices'[id].SignatureCounter = Inc64(devices[id].SignatureCounter)
        /\ devices'[id].LastSignature.base64.message.last = devices[id].LastSignature
DeviceHistory == [][\A id \in DOMAIN devices : DeviceStep(id)]_vars

\* Every request that reaches a handler is given a response: the lock is always
\* freed again and no waiter is passed over for ever.
HandlersReturn ==
  \A r \in Requests : pc[r] \notin {"idle", "done"} ~> pc[r] \in Answered
=============================================================================
