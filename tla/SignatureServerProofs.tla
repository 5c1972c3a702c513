------------------------ MODULE SignatureServerProofs -----------------------
(*****************************************************************************)
(* What restarts and panics leave of the lock: only a panic of the signing   *)
(* library leaves it behind, and then nothing moves until the next life.     *)
(* What they leave of the devices: every answered signature is archived, the *)
(* signatures of a key are one chain over all lives, and a key verifies the  *)
(* signatures of its own life only.                                          *)
(*****************************************************************************)
EXTENDS SignatureServer, SignatureChainProofs, FiniteSetTheorems

Labelled == pc \in [Requests -> Labels \cup {"lost"}]

ServerTypeOK ==
  /\ Labelled
  /\ mu \in Requests \cup {None}
  /\ panicked \subseteq Requests
  /\ life \in Nat
  /\ req = [r \in Requests |-> req[r]]

\* What makes LockLeaksOnlyBySigning inductive: who is inside a transaction
\* holds the lock, who signs has a sign request, and a handler that panicked
\* does nothing more.
LeakInv ==
  /\ ServerTypeOK
  /\ \A r \in Requests : pc[r] \in Critical => mu = r
  /\ \A r \in Requests :
       pc[r] \in {"getInfo", "sign", "addSignature"} => req[r].op = "SignTransaction"
  /\ \A r \in panicked : pc[r] \in Answered
  /\ LockLeaksOnlyBySigning

\* The steps of a handler, by what they do to the lock.
Elsewhere(r) ==
  /\ \A q \in Requests \ {r} : pc'[q] = pc[q] /\ req'[q] = req[q]
  /\ Labelled'
  /\ req' = [q \in Requests |-> req'[q]]
Outside(r) ==
  /\ pc[r] \in {"idle", "generate", "return"}
  /\ pc'[r] \notin Critical
  /\ pc[r] \in Answered => pc'[r] \in Answered /\ req'[r] = req[r]
  /\ UNCHANGED storageVars
Enters(r) ==
  /\ pc[r] = "begin" /\ pc'[r] = FirstStep(req[r].op)
  /\ mu = None /\ mu' = r
  /\ UNCHANGED <<devices, signatures, req>>
Inside(r) ==
  /\ pc[r] \in Critical /\ pc'[r] \in Critical
  /\ pc'[r] \in {"getInfo", "sign", "addSignature"} => pc[r] \in {"getInfo", "sign"}
  /\ UNCHANGED <<mu, req>>
Leaves(r) ==
  /\ pc[r] \in Critical /\ pc'[r] = "return"
  /\ mu' = None
  /\ UNCHANGED <<devices, signatures, req>>
Shape(r) == Elsewhere(r) /\ (Outside(r) \/ Enters(r) \/ Inside(r) \/ Leaves(r))

LEMMA StepShape ==
  ASSUME ServerTypeOK, NEW r \in Requests, ServiceStep(r)
  PROVE  Shape(r)
<1> USE DEF ServerTypeOK, Labelled, Shape, Elsewhere, Goto
<1>1. CASE Accept(r)
  BY <1>1 DEF Accept, Outside, Critical, Labels, Answered
<1>2. CASE NotImplemented(r)
  BY <1>2 DEF NotImplemented, Outside, Critical, Labels, Answered
<1>3. CASE GenerateKeyPair(r)
  BY <1>3 DEF GenerateKeyPair, Outside, Critical, Labels, Answered
<1>4. CASE BeginTx(r)
  BY <1>4 DEF BeginTx, Lock, handlerVars, Enters, FirstStep, Critical, Labels
<1>5. CASE Create(r)
  BY <1>5 DEF Create, Inside, Critical, Labels
<1>6. CASE GetInfo(r)
  BY <1>6 DEF GetInfo, storageVars, Inside, Critical, Labels
<1>7. CASE SignData(r)
  BY <1>7 DEF SignData, storageVars, Inside, Critical, Labels
<1>8. CASE StoreSignature(r)
  BY <1>8 DEF StoreSignature, handlerVars, Inside, Critical, Labels
<1>9. CASE Read(r)
  BY <1>9 DEF Read, storageVars, Inside, Critical, Labels
<1>10. CASE Commit(r)
  BY <1>10 DEF Commit, Unlock, Leaves, Critical, Labels
<1>11. CASE Rollback(r)
  BY <1>11 DEF Rollback, Unlock, Leaves, Critical, Labels
<1>12. CASE Deliver(r)
  BY <1>12 DEF Deliver, handlerVars, Outside, Critical, Labels, Answered
<1> QED
  BY <1>1, <1>2, <1>3, <1>4, <1>5, <1>6, <1>7, <1>8, <1>9, <1>10, <1>11, <1>12
  DEF ServiceStep, HandlerStep

LEMMA InitLeakInv == ServerInit => LeakInv
BY NoneAssumption
DEF ServerInit, Init, NewStorage, LeakInv, ServerTypeOK, Labelled, Labels, Critical,
    LockLeaksOnlyBySigning

LEMMA LeakInvServe ==
  ASSUME LeakInv, NEW r \in Requests, Serve(r)
  PROVE  LeakInv'
<1>1. Shape(r) /\ panicked' = panicked /\ life' = life
  BY StepShape DEF LeakInv, Serve
<1> USE DEF Shape, Elsewhere, LeakInv, ServerTypeOK
<1>2. CASE Outside(r)
  BY <1>1, <1>2, NoneAssumption DEF Outside, storageVars, Labelled, Critical, Answered, LockLeaksOnlyBySigning
<1>3. CASE Enters(r)
  BY <1>1, <1>3, NoneAssumption DEF Enters, FirstStep, Labelled, Critical, Answered, LockLeaksOnlyBySigning
<1>4. CASE Inside(r)
  BY <1>1, <1>4, NoneAssumption DEF Inside, Labelled, Critical, Answered, LockLeaksOnlyBySigning
<1>5. CASE Leaves(r)
  BY <1>1, <1>5, NoneAssumption DEF Leaves, Labelled, Critical, Answered, LockLeaksOnlyBySigning
<1> QED
  BY <1>1, <1>2, <1>3, <1>4, <1>5

LEMMA LeakInvStep == LeakInv /\ [ServerNext]_allVars => LeakInv'
<1> SUFFICES ASSUME LeakInv, [ServerNext]_allVars PROVE LeakInv'
  OBVIOUS
<1>1. ASSUME NEW r \in Requests, Serve(r) PROVE LeakInv'
  BY <1>1, LeakInvServe
<1> USE DEF LeakInv, ServerTypeOK, Labelled, Labels, Critical, Answered, LockLeaksOnlyBySigning
<1>2. ASSUME NEW r \in Requests, KeyGenerationPanics(r) PROVE LeakInv'
  BY <1>2, NoneAssumption DEF KeyGenerationPanics, Recovered, Goto, storageVars
<1>3. ASSUME NEW r \in Requests, SigningPanics(r) PROVE LeakInv'
  BY <1>3, NoneAssumption DEF SigningPanics, Recovered, Goto, storageVars
<1>4. ASSUME Restart PROVE LeakInv'
  BY <1>4 DEF Restart
<1>5. ASSUME UNCHANGED allVars PROVE LeakInv'
  BY <1>5 DEF allVars, vars, serverVars
<1> QED
  BY <1>1, <1>2, <1>3, <1>4, <1>5 DEF ServerNext, AllOver

\* The lock of the storage is left behind by a panic of the signing library and
\* by nothing else, over any number of restarts and panics.
THEOREM OnlySigningLeaksTheLock == ServerSpec => []LockLeaksOnlyBySigning
<1>1. LeakInv => LockLeaksOnlyBySigning
  BY DEF LeakInv
<1> QED
  BY <1>1, InitLeakInv, LeakInvStep, PTL DEF ServerSpec

LEMMA LeakedStep ==
  ASSUME LeakInv, [ServerNext]_allVars, Leaked, life' = life
  PROVE  /\ UNCHANGED storageVars
         /\ \A q \in Requests : pc[q] = "begin" => pc'[q] = "begin"
<1>1. /\ mu \in Requests /\ mu # None
      /\ \A q \in Requests : pc[q] \notin Critical
  BY NoneAssumption DEF LeakInv, ServerTypeOK, Leaked, Answered, Critical
<1>2. ASSUME NEW r \in Requests, Serve(r)
      PROVE  /\ UNCHANGED storageVars
             /\ \A q \in Requests : pc[q] = "begin" => pc'[q] = "begin"
  <2>1. Shape(r)
    BY <1>2, StepShape DEF LeakInv, Serve
  <2> QED
    BY <1>1, <2>1 DEF Shape, Elsewhere, Outside, Enters, Inside, Leaves
<1>3. ASSUME NEW r \in Requests, KeyGenerationPanics(r) \/ SigningPanics(r)
      PROVE  /\ UNCHANGED storageVars
             /\ \A q \in Requests : pc[q] = "begin" => pc'[q] = "begin"
  BY <1>3 DEF LeakInv, ServerTypeOK, Labelled, KeyGenerationPanics, SigningPanics, Recovered, Goto
<1>4. ~Restart
  BY DEF Restart, LeakInv, ServerTypeOK
<1>5. ASSUME UNCHANGED allVars
      PROVE  /\ UNCHANGED storageVars
             /\ \A q \in Requests : pc[q] = "begin" => pc'[q] = "begin"
  BY <1>5 DEF allVars, vars, storageVars
<1> QED
  BY <1>2, <1>3, <1>4, <1>5 DEF ServerNext, AllOver

\* A lock left behind stays so: nobody reads or changes a device, and no waiting
\* request gets in, before the process is started again.
THEOREM LeakIsFinal == ServerSpec => NothingMovesOnceLeaked
<1>1. LeakInv /\ [ServerNext]_allVars
        => [Leaked /\ life' = life =>
              /\ UNCHANGED storageVars
              /\ \A r \in Requests : pc[r] = "begin" => pc'[r] = "begin"]_allVars
  BY LeakedStep
<1> QED
  BY <1>1, InitLeakInv, LeakInvStep, PTL DEF ServerSpec, NothingMovesOnceLeaked
-----------------------------------------------------------------------------
\* The archive holds a signature of that request and its life.
Kept(r, sig, data) ==
  \E a \in archive :
    /\ a.by = r /\ a.life = bornIn[r]
    /\ a.signature = sig /\ a.signedData = data

\* A 201 to a signing answers what was archived for it: who is served was accepted
\* in this life, a signing about to commit is in the archive with the signature and the
\* data it will answer, and one about to roll back has no 201.
ArchiveOf(r) ==
  /\ pc[r] \notin {"idle", "done", "lost"} => bornIn[r] = life
  /\ pc[r] \in {"create", "read"} => req[r].op # "SignTransaction"
  /\ req[r].op = "SignTransaction" =>
       /\ pc[r] = "commit" => Kept(r, Base64(signature[r]), SecuredDataOf(r))
       /\ pc[r] = "rollback" => resp[r].status # 201
       /\ pc[r] \in Answered /\ resp[r].status = 201 =>
            Kept(r, resp[r].Signature, resp[r].SignedData)

ArchiveTypeOK ==
  /\ resp = [r \in Requests |-> resp[r]]
  /\ keyPair = [r \in Requests |-> keyPair[r]]
  /\ info = [r \in Requests |-> info[r]]
  /\ signature = [r \in Requests |-> signature[r]]
  /\ bornIn = [r \in Requests |-> bornIn[r]]

ArchiveInv ==
  /\ LeakInv
  /\ ArchiveTypeOK
  /\ \A r \in Requests : ArchiveOf(r)

LEMMA InitArchiveInv == ServerInit => ArchiveInv
<1> SUFFICES ASSUME ServerInit PROVE ArchiveInv
  OBVIOUS
<1>1. ArchiveTypeOK
  BY DEF ServerInit, Init, ArchiveTypeOK
<1>2. ASSUME NEW r \in Requests PROVE ArchiveOf(r)
  BY DEF ServerInit, Init, ArchiveOf, Answered
<1> QED
  BY <1>1, <1>2, InitLeakInv DEF ArchiveInv

\* What a step of one request leaves alone of another.
Untouched(q) ==
  /\ pc'[q] = pc[q] /\ req'[q] = req[q] /\ resp'[q] = resp[q]
  /\ keyPair'[q] = keyPair[q] /\ info'[q] = info[q] /\ signature'[q] = signature[q]
  /\ bornIn'[q] = bornIn[q]

LEMMA ArchiveFrame ==
  ASSUME NEW q \in Requests, ArchiveOf(q), Untouched(q),
         archive \subseteq archive', life' = life
  PROVE  ArchiveOf(q)'
BY DEF ArchiveOf, Untouched, Kept, SecuredDataOf

LEMMA OthersUntouched ==
  ASSUME LeakInv, ArchiveTypeOK, NEW r \in Requests,
         Serve(r) \/ KeyGenerationPanics(r) \/ SigningPanics(r)
  PROVE  /\ ArchiveTypeOK'
         /\ \A q \in Requests \ {r} : Untouched(q)
         /\ archive \subseteq archive' /\ life' = life
<1> USE DEF LeakInv, ServerTypeOK, Labelled, ArchiveTypeOK, Untouched, Goto, Respond
<1>1. CASE KeyGenerationPanics(r) \/ SigningPanics(r)
  BY <1>1 DEF KeyGenerationPanics, SigningPanics, Recovered, ForgetLocals
<1>2. CASE Serve(r)
  <2>1. /\ archive \subseteq archive' /\ life' = life
        /\ bornIn' = [q \in Requests |-> bornIn'[q]]
        /\ \A q \in Requests \ {r} : bornIn'[q] = bornIn[q]
    BY <1>2 DEF Serve
  <2>2. CASE Accept(r)
    BY <2>1, <2>2 DEF Accept
  <2>3. CASE NotImplemented(r)
    BY <2>1, <2>3 DEF NotImplemented
  <2>4. CASE GenerateKeyPair(r)
    BY <2>1, <2>4 DEF GenerateKeyPair
  <2>5. CASE BeginTx(r)
    BY <2>1, <2>5 DEF BeginTx, handlerVars
  <2>6. CASE Create(r)
    BY <2>1, <2>6 DEF Create
  <2>7. CASE GetInfo(r)
    BY <2>1, <2>7 DEF GetInfo
  <2>8. CASE SignData(r)
    BY <2>1, <2>8 DEF SignData
  <2>9. CASE StoreSignature(r)
    BY <2>1, <2>9 DEF StoreSignature, handlerVars
  <2>10. CASE Read(r)
    BY <2>1, <2>10 DEF Read
  <2>11. CASE Commit(r)
    BY <2>1, <2>11 DEF Commit, ForgetLocals
  <2>12. CASE Rollback(r)
    BY <2>1, <2>12 DEF Rollback, ForgetLocals
  <2>13. CASE Deliver(r)
    BY <2>1, <2>13 DEF Deliver, handlerVars
  <2> QED
    BY <1>2, <2>2, <2>3, <2>4, <2>5, <2>6, <2>7, <2>8, <2>9, <2>10, <2>11, <2>12, <2>13
    DEF Serve, ServiceStep, HandlerStep
<1> QED
  BY <1>1, <1>2

LEMMA ArchiveOfServe ==
  ASSUME LeakInv, ArchiveTypeOK, NEW r \in Requests, ArchiveOf(r), Serve(r)
  PROVE  ArchiveOf(r)'
<1> USE DEF LeakInv, ServerTypeOK, Labelled, ArchiveTypeOK, ArchiveOf, Goto, Respond, Answered
<1>1. /\ archive \subseteq archive' /\ life' = life
      /\ bornIn'[r] = IF pc[r] = "idle" THEN life ELSE bornIn[r]
  BY DEF Serve
<1>2. CASE Accept(r)
  BY <1>1, <1>2 DEF Accept
<1>3. CASE NotImplemented(r)
  BY <1>1, <1>3 DEF NotImplemented
<1>4. CASE GenerateKeyPair(r)
  BY <1>1, <1>4 DEF GenerateKeyPair, FailureStatus
<1>5. CASE BeginTx(r)
  BY <1>1, <1>5 DEF BeginTx, FirstStep, handlerVars
<1>6. CASE Create(r)
  BY <1>1, <1>6 DEF Create
<1>7. CASE GetInfo(r)
  BY <1>1, <1>7 DEF GetInfo
<1>8. CASE SignData(r)
  BY <1>1, <1>8 DEF SignData, FailureStatus
<1>9. CASE StoreSignature(r)
  <2>1. /\ Entry(r) \in archive' /\ bornIn[r] = life
        /\ pc'[r] = "commit" /\ UNCHANGED <<req, info, signature>>
    BY <1>9 DEF StoreSignature, Serve, handlerVars
  <2>2. Kept(r, Base64(signature[r]), SecuredDataOf(r))'
    BY <1>1, <1>9, <2>1 DEF Kept, Entry, SecuredDataOf, StoreSignature
  <2> QED
    BY <1>1, <1>9, <2>1, <2>2 DEF StoreSignature
<1>10. CASE Read(r)
  BY <1>1, <1>10 DEF Read
<1>11. CASE Commit(r)
  <2>1. /\ pc'[r] = "return" /\ req' = req
        /\ resp'[r] = CommitResponse(r)
    BY <1>11 DEF Commit
  <2>2. ASSUME req[r].op = "SignTransaction"
        PROVE  Kept(r, resp[r].Signature, resp[r].SignedData)'
    <3>1. /\ resp'[r].Signature = Base64(signature[r])
          /\ resp'[r].SignedData = SecuredDataOf(r)
      BY <2>1, <2>2 DEF CommitResponse
    <3>2. Kept(r, Base64(signature[r]), SecuredDataOf(r))
      BY <1>11, <2>2 DEF Commit
    <3> QED
      BY <1>1, <1>11, <3>1, <3>2 DEF Kept, Commit
  <2> QED
    BY <1>1, <1>11, <2>1, <2>2 DEF Commit
<1>12. CASE Rollback(r)
  BY <1>1, <1>12 DEF Rollback
<1>13. CASE Deliver(r)
  BY <1>1, <1>13 DEF Deliver, handlerVars, Kept
<1> QED
  BY <1>2, <1>3, <1>4, <1>5, <1>6, <1>7, <1>8, <1>9, <1>10, <1>11, <1>12, <1>13
  DEF Serve, ServiceStep, HandlerStep

LEMMA ArchiveInvStep == ArchiveInv /\ [ServerNext]_allVars => ArchiveInv'
<1> SUFFICES ASSUME ArchiveInv, [ServerNext]_allVars PROVE ArchiveInv'
  OBVIOUS
<1>1. LeakInv'
  BY LeakInvStep DEF ArchiveInv
<1>2. ASSUME NEW r \in Requests, Serve(r) \/ KeyGenerationPanics(r) \/ SigningPanics(r)
      PROVE  ArchiveInv'
  <2>1. /\ ArchiveTypeOK' /\ archive \subseteq archive' /\ life' = life
        /\ \A q \in Requests \ {r} : Untouched(q)
    BY <1>2, OthersUntouched DEF ArchiveInv
  <2>2. \A q \in Requests \ {r} : ArchiveOf(q)'
    BY <2>1, ArchiveFrame DEF ArchiveInv
  <2>3. ArchiveOf(r)'
    <3>1. CASE Serve(r)
      BY <3>1, ArchiveOfServe DEF ArchiveInv
    <3>2. CASE KeyGenerationPanics(r) \/ SigningPanics(r)
      BY <3>2 DEF KeyGenerationPanics, SigningPanics, Recovered, Goto, Respond, ArchiveInv,
         ArchiveOf, ArchiveTypeOK, LeakInv, ServerTypeOK, Labelled, Answered
    <3> QED
      BY <1>2, <3>1, <3>2
  <2> QED
    BY <1>1, <2>1, <2>2, <2>3 DEF ArchiveInv
<1>3. ASSUME Restart PROVE ArchiveInv'
  <2>1. ArchiveTypeOK'
    BY <1>3 DEF Restart, ArchiveInv, ArchiveTypeOK
  <2>2. ASSUME NEW r \in Requests PROVE ArchiveOf(r)'
    BY <1>3 DEF Restart, ArchiveInv, ArchiveOf, Answered, Kept
  <2> QED
    BY <1>1, <2>1, <2>2 DEF ArchiveInv
<1>4. ASSUME UNCHANGED allVars PROVE ArchiveInv'
  BY <1>1, <1>4 DEF allVars, vars, serverVars, ArchiveInv, ArchiveTypeOK, ArchiveOf, Kept,
     SecuredDataOf
<1> QED
  BY <1>2, <1>3, <1>4 DEF ServerNext, AllOver

-----------------------------------------------------------------------------
(* The devices of one life                                                   *)

\* Who created a device did so in this life, and does not create again.
Inserted(r) == CreatesDevice(r) /\ pc[r] \in {"commit", "return", "done", "lost"}
OwnedBy(o, id) == o \in Requests /\ Inserted(o) /\ req[o].id = id /\ bornIn[o] = life

DevicesOK ==
  \A id \in DOMAIN devices :
    /\ DOMAIN devices[id] = DeviceFields
    /\ OwnedBy(devices[id].PrivateKey.owner, id)

\* What holds of the devices and of the requests at work on them, in every life
\* and whoever has panicked.
DeviceInv ==
  /\ ArchiveInv
  /\ DevicesOK
  /\ Locals
  /\ FreshInfo
  /\ KeysMatch
  /\ SignedRight

LEMMA InitDeviceInv == ServerInit => DeviceInv
<1> SUFFICES ASSUME ServerInit PROVE DeviceInv
  OBVIOUS
<1>1. DevicesOK /\ KeysMatch
  BY DEF ServerInit, Init, NewStorage, EmptyMap, DevicesOK, KeysMatch
<1>2. Locals /\ FreshInfo /\ SignedRight
  BY DEF ServerInit, Init, Locals, LocalsOf, FreshInfo, SignedRight
<1> QED
  BY <1>1, <1>2, InitArchiveInv DEF DeviceInv

\* The two writes, by what they do to the map.
Inserts(r) ==
  LET id == req[r].id
  IN  /\ pc[r] = "create" /\ pc'[r] = "commit" /\ CreatesDevice(r)
      /\ ~Found(id) /\ keyPair'[r] = keyPair[r]
      /\ DOMAIN devices' = DOMAIN devices \cup {id}
      /\ \A x \in DOMAIN devices : devices'[x] = devices[x]
      /\ DOMAIN devices'[id] = DeviceFields
      /\ devices'[id].PrivateKey = NewKey(req[r].alg, r)
      /\ devices'[id].PublicKeyPem = PublicKeyPEM(NewKey(req[r].alg, r))
      /\ devices'[id].SignatureCounter = 0
      /\ devices'[id].LastSignature = Base64(id)
      /\ archive' = archive

Stores(r) ==
  LET id == req[r].id
  IN  /\ pc[r] = "addSignature" /\ pc'[r] = "commit" /\ SignsData(r)
      /\ Found(id) /\ info[r] = DeviceInfo(id)
      /\ signature[r] = SignatureOf(devices[id].PrivateKey, SecuredDataOf(r), r)
      /\ info'[r] = info[r] /\ signature'[r] = signature[r]
      /\ DOMAIN devices' = DOMAIN devices
      /\ \A x \in DOMAIN devices : x # id => devices'[x] = devices[x]
      /\ DOMAIN devices'[id] = DeviceFields
      /\ devices'[id].PrivateKey = devices[id].PrivateKey
      /\ devices'[id].PublicKeyPem = devices[id].PublicKeyPem
      /\ devices'[id].SignatureCounter = Inc64(devices[id].SignatureCounter)
      /\ devices'[id].LastSignature = Base64(signature[r])
      /\ archive' = archive \cup {Entry(r)}

Keeps(r) == pc[r] # "addSignature" /\ devices' = devices /\ archive' = archive

LEMMA DevicesMove ==
  ASSUME DeviceInv, NEW r \in Requests, Serve(r)
  PROVE  Keeps(r) \/ Inserts(r) \/ Stores(r)
<1> USE DEF DeviceInv, ArchiveInv, LeakInv, ServerTypeOK, Labelled, ArchiveTypeOK
<1>1. CASE pc[r] = "create"
  <2>1. Create(r) /\ archive' = archive
    BY <1>1 DEF Serve, ServiceStep, HandlerStep, Accept, NotImplemented, BeginTx, Deliver,
       GenerateKeyPair, GetInfo, SignData, StoreSignature, Read, Commit, Rollback
  <2>2. CASE devices' = devices
    BY <1>1, <2>1, <2>2 DEF Keeps
  <2>3. CASE /\ ~Found(req[r].id) /\ pc'[r] = "commit"
             /\ CreateNewSignatureDevice(req[r].id, req[r].alg, keyPair[r])
    <3>1. CreatesDevice(r) /\ keyPair[r] = NewKey(req[r].alg, r) /\ keyPair'[r] = keyPair[r]
      BY <1>1, <2>1 DEF Locals, LocalsOf, Create
    <3> QED
      BY <1>1, <2>1, <2>3, <3>1
      DEF Inserts, CreateNewSignatureDevice, MapPut, Found, DeviceFields
  <2> QED
    BY <2>1, <2>2, <2>3 DEF Create, Goto
<1>2. CASE pc[r] = "addSignature"
  <2>1. StoreSignature(r) /\ archive' = archive \cup {Entry(r)}
    BY <1>2 DEF Serve, ServiceStep, HandlerStep, Accept, NotImplemented, BeginTx, Deliver,
       GenerateKeyPair, GetInfo, SignData, Create, Read, Commit, Rollback
  <2>2. /\ SignsData(r) /\ Found(req[r].id) /\ info[r] = DeviceInfo(req[r].id)
        /\ signature[r] = SignatureOf(info[r].PrivateKey, SecuredDataOf(r), r)
        /\ info[r].PrivateKey = devices[req[r].id].PrivateKey
    BY <1>2 DEF Locals, LocalsOf, FreshInfo, SignedRight, DeviceInfo
  <2>3. DOMAIN devices[req[r].id] = DeviceFields
    BY <2>2 DEF DevicesOK, Found
  <2>4. pc'[r] = "commit" /\ info'[r] = info[r] /\ signature'[r] = signature[r]
    BY <2>1 DEF StoreSignature, Goto, handlerVars
  <2>5. /\ DOMAIN devices' = DOMAIN devices
        /\ \A x \in DOMAIN devices : x # req[r].id => devices'[x] = devices[x]
        /\ devices'[req[r].id] =
             [devices[req[r].id] EXCEPT !.SignatureCounter = Inc64(@),
                                        !.LastSignature = Base64(signature[r])]
    BY <2>1, <2>2 DEF StoreSignature, AddSignature, MapPut, Found
  <2>6. /\ DOMAIN devices'[req[r].id] = DeviceFields
        /\ devices'[req[r].id].PrivateKey = devices[req[r].id].PrivateKey
        /\ devices'[req[r].id].PublicKeyPem = devices[req[r].id].PublicKeyPem
        /\ devices'[req[r].id].SignatureCounter = Inc64(devices[req[r].id].SignatureCounter)
        /\ devices'[req[r].id].LastSignature = Base64(signature[r])
    BY <2>3, <2>5 DEF DeviceFields
  <2> QED
    BY <1>2, <2>1, <2>2, <2>4, <2>5, <2>6 DEF Stores
<1>3. CASE pc[r] \notin {"create", "addSignature"}
  BY <1>3 DEF Serve, ServiceStep, HandlerStep, Accept, NotImplemented, BeginTx, Deliver,
     GenerateKeyPair, GetInfo, SignData, Create, StoreSignature, Read, Commit, Rollback,
     storageVars, Keeps
<1> QED
  BY <1>1, <1>2, <1>3

LEMMA LocalsServe ==
  ASSUME LeakInv, ArchiveTypeOK, NEW r \in Requests, LocalsOf(r), Serve(r)
  PROVE  LocalsOf(r)'
<1> USE DEF LeakInv, ServerTypeOK, Labelled, ArchiveTypeOK, LocalsOf, CreatesDevice, SignsData,
            Goto
<1>1. CASE Accept(r) \/ NotImplemented(r) \/ GenerateKeyPair(r)
  BY <1>1 DEF Accept, NotImplemented, GenerateKeyPair
<1>2. CASE BeginTx(r)
  BY <1>2 DEF BeginTx, FirstStep, handlerVars
<1>3. CASE Create(r) \/ GetInfo(r) \/ SignData(r)
  BY <1>3 DEF Create, GetInfo, SignData
<1>4. CASE StoreSignature(r) \/ Read(r) \/ Deliver(r)
  BY <1>4 DEF StoreSignature, Read, Deliver, handlerVars
<1>5. CASE Commit(r) \/ Rollback(r)
  BY <1>5 DEF Commit, Rollback
<1> QED
  BY <1>1, <1>2, <1>3, <1>4, <1>5 DEF Serve, ServiceStep, HandlerStep

\* A request that inserted its device stays one that did.
LEMMA InsertedServe ==
  ASSUME DeviceInv, NEW r \in Requests, Serve(r), NEW o \in Requests, Inserted(o)
  PROVE  Inserted(o)' /\ req'[o] = req[o] /\ bornIn'[o] = bornIn[o]
<1> USE DEF DeviceInv, ArchiveInv, LeakInv, ServerTypeOK, Labelled, ArchiveTypeOK
<1>1. life' = life /\ \A q \in Requests \ {r} : Untouched(q)
  BY OthersUntouched
<1>2. CASE o # r
  BY <1>1, <1>2 DEF Inserted, CreatesDevice, Untouched
<1>3. CASE o = r
  <2>1. pc[r] \in {"commit", "return", "done", "lost"}
    BY <1>3 DEF Inserted
  <2>2. Commit(r) \/ Deliver(r)
    BY <2>1 DEF Serve, ServiceStep, HandlerStep, Accept, NotImplemented, BeginTx, Deliver,
       GenerateKeyPair, GetInfo, SignData, Create, StoreSignature, Read, Commit, Rollback
  <2>3. pc'[r] \in {"return", "done"} /\ req' = req /\ bornIn' = bornIn
    BY <2>1, <2>2 DEF Commit, Deliver, handlerVars, Goto, Serve
  <2> QED
    BY <1>1, <1>3, <2>3 DEF Inserted, CreatesDevice
<1> QED
  BY <1>2, <1>3

LEMMA OwnerServe ==
  ASSUME DeviceInv, NEW r \in Requests, Serve(r), NEW o, NEW id, OwnedBy(o, id)
  PROVE  OwnedBy(o, id)'
BY InsertedServe DEF OwnedBy, Serve

LEMMA DeviceInvServe ==
  ASSUME DeviceInv, NEW r \in Requests, Serve(r), ArchiveInv'
  PROVE  DeviceInv'
<1>0. LeakInv /\ ArchiveTypeOK /\ ServerTypeOK /\ Labelled /\ (\A q \in Requests : ArchiveOf(q))
  BY DEF DeviceInv, ArchiveInv, LeakInv, ServerTypeOK
<1>1. life' = life /\ \A q \in Requests \ {r} : Untouched(q)
  BY <1>0, OthersUntouched
<1>2. Keeps(r) \/ Inserts(r) \/ Stores(r)
  BY DevicesMove
<1>3. Locals'
  <2>1. \A q \in Requests \ {r} : LocalsOf(q)'
    BY <1>1 DEF DeviceInv, Locals, LocalsOf, Untouched, CreatesDevice, SignsData
  <2> QED
    BY <1>0, <2>1, LocalsServe DEF DeviceInv, Locals
<1>4. \A q \in Requests \ {r} : pc[q] \in {"sign", "addSignature"} => devices' = devices
  BY <1>0, <1>2 DEF Keeps, Inserts, Stores, LeakInv, Critical
<1>5. pc'[r] \in {"sign", "addSignature"} => devices' = devices /\ (GetInfo(r) \/ SignData(r))
  BY <1>0 DEF Labelled, Goto, Serve, ServiceStep, HandlerStep, Accept, NotImplemented, BeginTx,
     FirstStep, Deliver, GenerateKeyPair, GetInfo, SignData, Create, StoreSignature, Read,
     Commit, Rollback, storageVars
<1>6. FreshInfo'
  <2>1. ASSUME NEW q \in Requests \ {r}, pc'[q] \in {"sign", "addSignature"}
        PROVE  Found(req[q].id)' /\ info'[q] = DeviceInfo(req[q].id)'
    BY <1>1, <1>4, <2>1 DEF DeviceInv, FreshInfo, Untouched, Found, DeviceInfo
  <2>2. ASSUME pc'[r] \in {"sign", "addSignature"}
        PROVE  Found(req[r].id)' /\ info'[r] = DeviceInfo(req[r].id)'
    BY <1>0, <1>5, <2>2 DEF DeviceInv, FreshInfo, GetInfo, SignData, Goto, Labelled, ArchiveTypeOK,
       Found, DeviceInfo
  <2> QED
    BY <2>1, <2>2 DEF FreshInfo
<1>7. SignedRight'
  <2>1. ASSUME NEW q \in Requests \ {r}, pc'[q] = "addSignature"
        PROVE  signature'[q] = SignatureOf(info[q].PrivateKey, SecuredDataOf(q), q)'
    BY <1>1, <2>1 DEF DeviceInv, SignedRight, Untouched, SecuredDataOf
  <2>2. ASSUME pc'[r] = "addSignature"
        PROVE  signature'[r] = SignatureOf(info[r].PrivateKey, SecuredDataOf(r), r)'
    BY <1>0, <1>5, <2>2 DEF GetInfo, SignData, Goto, Labelled, ArchiveTypeOK, SecuredDataOf
  <2> QED
    BY <2>1, <2>2 DEF SignedRight
<1>8. DevicesOK' /\ KeysMatch'
  <2>1. ASSUME NEW id \in DOMAIN devices
        PROVE  /\ id \in DOMAIN devices' /\ DOMAIN devices'[id] = DeviceFields
               /\ devices'[id].PrivateKey = devices[id].PrivateKey
               /\ devices'[id].PublicKeyPem = devices[id].PublicKeyPem
    BY <1>2 DEF DeviceInv, DevicesOK, Keeps, Inserts, Stores
  <2>2. ASSUME NEW id \in DOMAIN devices PROVE OwnedBy(devices[id].PrivateKey.owner, id)'
    <3>1. PICK o : o = devices[id].PrivateKey.owner
      OBVIOUS
    <3>2. OwnedBy(o, id)
      BY <3>1 DEF DeviceInv, DevicesOK
    <3>3. OwnedBy(o, id)' /\ devices'[id].PrivateKey.owner = o
      BY <2>1, <3>1, <3>2, OwnerServe
    <3> QED
      BY <3>3 DEF OwnedBy, Inserted, CreatesDevice
  <2>3. ASSUME NEW id \in DOMAIN devices', id \notin DOMAIN devices
        PROVE  /\ DOMAIN devices'[id] = DeviceFields
               /\ OwnedBy(devices[id].PrivateKey.owner, id)'
               /\ devices'[id].PublicKeyPem = PublicKeyPEM(devices'[id].PrivateKey)
    <3>1. Inserts(r) /\ id = req[r].id
      BY <1>2, <2>3 DEF Keeps, Inserts, Stores
    <3>2. bornIn[r] = life /\ bornIn' = bornIn /\ req' = req
      BY <1>0, <3>1 DEF Inserts, ArchiveOf, Serve, ServiceStep, HandlerStep, Accept,
         NotImplemented, BeginTx, Deliver, GenerateKeyPair, GetInfo, SignData, Create,
         StoreSignature, Read, Commit, Rollback
    <3>3. devices'[id].PrivateKey.owner = r
      BY <3>1 DEF Inserts, NewKey
    <3> QED
      BY <1>1, <3>1, <3>2, <3>3 DEF Inserts, OwnedBy, Inserted, CreatesDevice
  <2> QED
    BY <2>1, <2>2, <2>3 DEF DevicesOK, KeysMatch, DeviceInv
<1> QED
  BY <1>3, <1>6, <1>7, <1>8 DEF DeviceInv

LEMMA DeviceInvStep == DeviceInv /\ [ServerNext]_allVars => DeviceInv'
<1> SUFFICES ASSUME DeviceInv, [ServerNext]_allVars PROVE DeviceInv'
  OBVIOUS
<1>0. ArchiveInv'
  BY ArchiveInvStep DEF DeviceInv
<1>1. ASSUME NEW r \in Requests, Serve(r) PROVE DeviceInv'
  BY <1>0, <1>1, DeviceInvServe
<1>2. ASSUME NEW r \in Requests, KeyGenerationPanics(r) \/ SigningPanics(r) PROVE DeviceInv'
  <2>1. /\ life' = life /\ devices' = devices /\ req' = req /\ bornIn' = bornIn
        /\ pc[r] \in {"generate", "sign"} /\ pc'[r] = "return"
        /\ \A q \in Requests \ {r} : Untouched(q)
    BY <1>2, OthersUntouched
    DEF KeyGenerationPanics, SigningPanics, Recovered, storageVars, Goto, DeviceInv, ArchiveInv,
        LeakInv, ServerTypeOK, Labelled
  <2>2. Locals'
    BY <2>1 DEF DeviceInv, Locals, LocalsOf, Untouched, CreatesDevice, SignsData
  <2>3. FreshInfo' /\ SignedRight'
    BY <2>1 DEF DeviceInv, FreshInfo, SignedRight, Untouched, Found, DeviceInfo, SecuredDataOf
  <2>4. \A o, id : OwnedBy(o, id) => OwnedBy(o, id)'
    BY <2>1 DEF OwnedBy, Inserted, CreatesDevice, Untouched
  <2>5. DevicesOK' /\ KeysMatch'
    BY <2>1, <2>4 DEF DeviceInv, DevicesOK, KeysMatch
  <2> QED
    BY <1>0, <2>2, <2>3, <2>5 DEF DeviceInv
<1>3. ASSUME Restart PROVE DeviceInv'
  <2>1. Locals'
    BY <1>3 DEF Restart, DeviceInv, Locals, LocalsOf, CreatesDevice, SignsData
  <2>2. FreshInfo' /\ SignedRight' /\ DevicesOK' /\ KeysMatch'
    BY <1>3 DEF Restart, FreshInfo, SignedRight, DevicesOK, KeysMatch, EmptyMap
  <2> QED
    BY <1>0, <2>1, <2>2 DEF DeviceInv
<1>4. ASSUME UNCHANGED allVars PROVE DeviceInv'
  <2>1. DevicesOK' /\ KeysMatch'
    BY <1>4 DEF allVars, vars, serverVars, DeviceInv, DevicesOK, KeysMatch, OwnedBy, Inserted,
       CreatesDevice
  <2>2. Locals' /\ FreshInfo' /\ SignedRight'
    BY <1>4 DEF allVars, vars, DeviceInv, Locals, LocalsOf, CreatesDevice, SignsData, FreshInfo,
       Found, DeviceInfo, SignedRight, SecuredDataOf
  <2> QED
    BY <1>0, <2>1, <2>2 DEF DeviceInv
<1> QED
  BY <1>1, <1>2, <1>3, <1>4 DEF ServerNext, AllOver
-----------------------------------------------------------------------------
(* One chain for each key                                                    *)

\* No signature about to be stored wraps the counter of its device.
BelowWrap ==
  \A r \in Requests :
    pc[r] = "addSignature" => devices[req[r].id].SignatureCounter # MaxInt64

\* A signature of the archive was made with the key of a request that inserted
\* its device, in this life or an earlier one: no later device has that key.
ArchivedKeys ==
  \A a \in archive : a.key.pem.owner \in Requests /\ Inserted(a.key.pem.owner)

\* A device goes on where the archive ends: its counter is above those of all
\* signatures under its key, and its last signature is the last of them.
EndOf(id) ==
  LET d == devices[id]
  IN  /\ d.SignatureCounter \in Nat
      /\ \A a \in archive : a.key = d.PublicKeyPem =>
           /\ a.signedData.counter \in Nat
           /\ a.signedData.counter < d.SignatureCounter
      /\ \/ d.SignatureCounter = 0 /\ d.LastSignature = Base64(id)
         \/ \E b \in archive :
              /\ b.key = d.PublicKeyPem /\ b.life = life
              /\ d.SignatureCounter = Inc64(b.signedData.counter)
              /\ d.LastSignature = b.signature

KeyChainInv ==
  /\ DeviceInv
  /\ ArchivedKeys
  /\ \A id \in DOMAIN devices : EndOf(id)
  /\ OneChainPerKey

LEMMA InitKeyChainInv == ServerInit => KeyChainInv
BY InitDeviceInv
DEF ServerInit, Init, NewStorage, EmptyMap, KeyChainInv, ArchivedKeys, OneChainPerKey

\* The encoding of a public key names its key.
LEMMA PemKey == \A k : PublicKeyPEM(k).pem = k
BY DEF PublicKeyPEM

\* Two devices of one life have two keys.
LEMMA KeysDiffer ==
  ASSUME DeviceInv, NEW x \in DOMAIN devices, NEW y \in DOMAIN devices,
         devices[x].PublicKeyPem = devices[y].PublicKeyPem
  PROVE  x = y
<1>1. devices[x].PrivateKey = devices[y].PrivateKey
  <2>1. /\ devices[x].PublicKeyPem = PublicKeyPEM(devices[x].PrivateKey)
        /\ devices[y].PublicKeyPem = PublicKeyPEM(devices[y].PrivateKey)
    BY DEF DeviceInv, KeysMatch
  <2> QED
    BY <2>1, PemKey
<1> QED
  BY <1>1 DEF DeviceInv, DevicesOK, OwnedBy

LEMMA KeyChainServe ==
  ASSUME KeyChainInv, BelowWrap, NEW r \in Requests, Serve(r), DeviceInv'
  PROVE  KeyChainInv'
<1>0. DeviceInv /\ ArchivedKeys /\ OneChainPerKey /\ \A id \in DOMAIN devices : EndOf(id)
  BY DEF KeyChainInv
<1>1. life' = life /\ (Keeps(r) \/ Inserts(r) \/ Stores(r))
  BY <1>0, DevicesMove DEF Serve
<1>2. \A o \in Requests : Inserted(o) => Inserted(o)'
  BY <1>0, InsertedServe
<1>3. CASE Keeps(r)
  <2>1. ArchivedKeys' /\ OneChainPerKey'
    BY <1>0, <1>2, <1>3 DEF Keeps, ArchivedKeys, OneChainPerKey
  <2>2. \A id \in DOMAIN devices' : EndOf(id)'
    BY <1>0, <1>1, <1>3 DEF Keeps, EndOf
  <2>3. (\A id \in DOMAIN devices : EndOf(id))'
    BY <2>2
  <2> QED
    BY <2>1, <2>3 DEF KeyChainInv
<1>4. CASE Inserts(r)
  <2>1. ArchivedKeys' /\ OneChainPerKey'
    BY <1>0, <1>2, <1>4 DEF Inserts, ArchivedKeys, OneChainPerKey
  <2>2. ASSUME NEW id \in DOMAIN devices PROVE id \in DOMAIN devices' /\ EndOf(id)'
    BY <1>0, <1>1, <1>4 DEF Inserts, EndOf
  <2>3. ASSUME NEW id, id = req[r].id PROVE EndOf(id)'
    <3>1. /\ devices'[id].PublicKeyPem.pem.owner = r /\ ~Inserted(r)
          /\ devices'[id].SignatureCounter = 0 /\ devices'[id].LastSignature = Base64(id)
          /\ archive' = archive
      BY <1>4, <2>3 DEF Inserts, PublicKeyPEM, NewKey, Inserted
    <3>2. \A a \in archive : a.key # devices'[id].PublicKeyPem
      BY <1>0, <3>1 DEF ArchivedKeys
    <3> QED
      BY <3>1, <3>2 DEF EndOf
  <2>4. \A id \in DOMAIN devices' : id \in DOMAIN devices \/ id = req[r].id
    BY <1>4 DEF Inserts
  <2>5. (\A id \in DOMAIN devices : EndOf(id))'
    BY <2>2, <2>3, <2>4
  <2> QED
    BY <2>1, <2>5 DEF KeyChainInv
<1>5. CASE Stores(r)
  <2>1. PICK id : id = req[r].id
    OBVIOUS
  <2>2. PICK e : e = Entry(r)
    OBVIOUS
  <2>3. PICK c \in Nat : c = devices[id].SignatureCounter
    BY <1>0, <1>5, <2>1 DEF Stores, Found, EndOf
  <2>4. /\ id \in DOMAIN devices /\ c # MaxInt64 /\ Inc64(c) = c + 1
        /\ archive' = archive \cup {e}
        /\ e.key = devices[id].PublicKeyPem /\ e.id = id /\ e.life = life
        /\ e.signedData.counter = c /\ e.signedData.last = devices[id].LastSignature
        /\ e.signature = Base64(signature[r])
    BY <1>5, <2>1, <2>2, <2>3 DEF Stores, Found, Entry, SecuredDataOf, SecuredData, DeviceInfo,
       BelowWrap, Inc64
  <2>5. /\ DOMAIN devices' = DOMAIN devices
        /\ \A x \in DOMAIN devices : x # id => devices'[x] = devices[x]
        /\ devices'[id].PublicKeyPem = devices[id].PublicKeyPem
        /\ devices'[id].SignatureCounter = c + 1
        /\ devices'[id].LastSignature = e.signature
    BY <1>5, <2>1, <2>3, <2>4 DEF Stores
  <2>6. \A a \in archive : a.key = e.key =>
          a.signedData.counter \in Nat /\ a.signedData.counter < c
    BY <1>0, <2>3, <2>4 DEF EndOf
  <2>7. ArchivedKeys'
    <3>1. PICK k : k = devices[id].PrivateKey
      OBVIOUS
    <3>2. e.key = PublicKeyPEM(k)
      BY <1>0, <2>4, <3>1 DEF DeviceInv, KeysMatch
    <3>3. k.owner \in Requests /\ Inserted(k.owner)
      BY <1>0, <2>4, <3>1 DEF DeviceInv, DevicesOK, OwnedBy
    <3>4. e.key.pem.owner \in Requests /\ Inserted(e.key.pem.owner)
      BY <3>2, <3>3, PemKey
    <3> QED
      BY <1>0, <1>2, <2>4, <3>4 DEF ArchivedKeys
  <2>8. EndOf(id)'
    BY <1>1, <2>3, <2>4, <2>5, <2>6 DEF EndOf
  <2>9. ASSUME NEW x \in DOMAIN devices, x # id PROVE EndOf(x)'
    <3>1. devices'[x] = devices[x] /\ e.key # devices[x].PublicKeyPem
      BY <1>0, <2>4, <2>5, <2>9, KeysDiffer
    <3>2. EndOf(x)
      BY <1>0, <2>9
    <3> QED
      BY <1>1, <2>4, <3>1, <3>2 DEF EndOf
  <2>10. OneChainPerKey'
    <3>1. \A a, b \in archive \cup {e} :
            a.key = b.key /\ a.signedData.counter = b.signedData.counter => a = b
      BY <1>0, <2>3, <2>4, <2>6 DEF OneChainPerKey
    <3>2. \/ e.signedData.counter = 0 /\ e.signedData.last = Base64(e.id)
          \/ \E b \in archive :
               /\ b.key = e.key /\ b.life = e.life
               /\ e.signedData.counter = Inc64(b.signedData.counter)
               /\ e.signedData.last = b.signature
      BY <1>0, <2>3, <2>4 DEF EndOf
    <3> QED
      BY <1>0, <2>4, <3>1, <3>2 DEF OneChainPerKey
  <2> QED
    BY <2>5, <2>7, <2>8, <2>9, <2>10 DEF KeyChainInv
<1> QED
  BY <1>1, <1>3, <1>4, <1>5

LEMMA KeyChainInvStep == KeyChainInv /\ BelowWrap /\ [ServerNext]_allVars => KeyChainInv'
<1> SUFFICES ASSUME KeyChainInv, BelowWrap, [ServerNext]_allVars PROVE KeyChainInv'
  OBVIOUS
<1>0. DeviceInv'
  BY DeviceInvStep DEF KeyChainInv
<1>1. ASSUME NEW r \in Requests, Serve(r) PROVE KeyChainInv'
  BY <1>0, <1>1, KeyChainServe
<1>2. ASSUME UNCHANGED <<archive, devices, life>>,
             \A o \in Requests : Inserted(o) => Inserted(o)'
      PROVE  KeyChainInv'
  <2>1. ArchivedKeys' /\ OneChainPerKey'
    BY <1>2 DEF KeyChainInv, ArchivedKeys, OneChainPerKey
  <2>2. \A id \in DOMAIN devices' : EndOf(id)'
    BY <1>2 DEF KeyChainInv, EndOf
  <2> QED
    BY <1>0, <2>1, <2>2 DEF KeyChainInv
<1>3. ASSUME NEW r \in Requests, KeyGenerationPanics(r) \/ SigningPanics(r) PROVE KeyChainInv'
  <2>1. UNCHANGED <<archive, devices, life, req>>
    BY <1>3 DEF KeyGenerationPanics, SigningPanics, Recovered, storageVars
  <2>2. \A o \in Requests : Inserted(o) => Inserted(o)'
    BY <1>3, <2>1 DEF KeyGenerationPanics, SigningPanics, Recovered, Goto, Inserted, CreatesDevice,
       KeyChainInv, DeviceInv, ArchiveInv, LeakInv, ServerTypeOK, Labelled
  <2> QED
    BY <1>2, <2>1, <2>2
<1>4. ASSUME Restart PROVE KeyChainInv'
  <2>1. ArchivedKeys' /\ OneChainPerKey'
    BY <1>4 DEF Restart, KeyChainInv, ArchivedKeys, OneChainPerKey, Inserted, CreatesDevice
  <2>2. DOMAIN devices' = {}
    BY <1>4 DEF Restart, EmptyMap
  <2> QED
    BY <1>0, <2>1, <2>2 DEF KeyChainInv
<1>5. ASSUME UNCHANGED allVars PROVE KeyChainInv'
  BY <1>2, <1>5 DEF allVars, vars, serverVars, Inserted, CreatesDevice
<1> QED
  BY <1>1, <1>3, <1>4, <1>5 DEF ServerNext, AllOver

\* As long as no counter wraps, the signatures under one public key form one
\* chain and no counter is used twice, whatever restarts, panics and creations
\* of the same id come in between: a new device never gets an old key.
THEOREM KeysKeepOneChain == ServerSpec /\ []BelowWrap => []OneChainPerKey
<1>1. KeyChainInv => OneChainPerKey
  BY DEF KeyChainInv
<1> QED
  BY <1>1, InitKeyChainInv, KeyChainInvStep, PTL DEF ServerSpec

\* The requests whose signatures are in the archive.
Archivers == {a.by : a \in archive}

\* A device has no more signatures than requests have signed in all lives, and
\* a request signs once.
BelowInv ==
  /\ KeyChainInv
  /\ \A q \in Archivers :
       /\ q \in Requests /\ SignsData(q)
       /\ pc[q] \in {"commit", "return", "done", "lost"}
  /\ \A id \in DOMAIN devices : devices[id].SignatureCounter <= Cardinality(Archivers)

Few == IsFiniteSet(Requests) /\ Cardinality(Requests) <= MaxInt64

LEMMA InitBelowInv == Few /\ ServerInit => BelowInv
<1> SUFFICES ASSUME ServerInit PROVE BelowInv
  OBVIOUS
<1>1. Archivers = {} /\ DOMAIN devices = {}
  BY DEF ServerInit, Init, NewStorage, EmptyMap, Archivers
<1> QED
  BY <1>1, InitKeyChainInv DEF BelowInv

LEMMA ArchiversFinite ==
  ASSUME Few, BelowInv
  PROVE  IsFiniteSet(Archivers) /\ Cardinality(Archivers) \in Nat
<1>1. Archivers \in SUBSET Requests
  BY DEF BelowInv
<1> QED
  BY <1>1, FS_Subset, FS_CardinalityType DEF Few

LEMMA FewStayBelowWrap ==
  ASSUME Few, BelowInv
  PROVE  BelowWrap
<1> SUFFICES ASSUME NEW r \in Requests, pc[r] = "addSignature"
             PROVE  devices[req[r].id].SignatureCounter # MaxInt64
  BY DEF BelowWrap
<1>1. r \notin Archivers /\ Archivers \cup {r} \in SUBSET Requests
  BY DEF BelowInv
<1>2. IsFiniteSet(Archivers) /\ Cardinality(Archivers) \in Nat
  BY ArchiversFinite
<1>3. Cardinality(Archivers \cup {r}) = Cardinality(Archivers) + 1
  BY <1>1, <1>2, FS_AddElement
<1>4. Cardinality(Archivers) + 1 <= Cardinality(Requests)
  BY <1>1, <1>3, FS_Subset DEF Few
<1>5. Cardinality(Requests) \in Nat /\ Cardinality(Requests) <= MaxInt64
  BY FS_CardinalityType DEF Few
<1>6. /\ devices[req[r].id].SignatureCounter \in Nat
      /\ devices[req[r].id].SignatureCounter <= Cardinality(Archivers)
  BY DEF BelowInv, KeyChainInv, DeviceInv, FreshInfo, Found, EndOf
<1> QED
  BY <1>2, <1>4, <1>5, <1>6, MaxInt64Assumption

LEMMA BelowInvStep ==
  ASSUME Few, BelowInv, [ServerNext]_allVars
  PROVE  BelowInv'
<1>0. KeyChainInv /\ KeyChainInv' /\ DeviceInv /\ BelowWrap
  BY FewStayBelowWrap, KeyChainInvStep DEF BelowInv, KeyChainInv
<1>1. Cardinality(Archivers) \in Nat /\ IsFiniteSet(Archivers)
  BY ArchiversFinite
<1> DEFINE Past == {"commit", "return", "done", "lost"}
<1>2. ASSUME UNCHANGED archive,
             \A q \in Requests : pc[q] \in Past => pc'[q] \in Past /\ req'[q] = req[q],
             \A id \in DOMAIN devices' :
               \/ devices'[id].SignatureCounter = 0
               \/ id \in DOMAIN devices /\ devices'[id].SignatureCounter = devices[id].SignatureCounter
      PROVE  BelowInv'
  <2>1. Archivers' = Archivers
    BY <1>2 DEF Archivers
  <2> QED
    BY <1>0, <1>1, <1>2, <2>1 DEF BelowInv, SignsData
<1>3. ASSUME NEW r \in Requests, Serve(r) PROVE BelowInv'
  <2>1. \A q \in Requests : pc[q] \in Past => pc'[q] \in Past /\ req'[q] = req[q]
    <3>1. \A q \in Requests \ {r} : Untouched(q)
      BY <1>0, <1>3, OthersUntouched DEF DeviceInv, ArchiveInv
    <3>2. pc[r] \in Past => pc'[r] \in Past /\ req'[r] = req[r]
      BY <1>0, <1>3 DEF Serve, ServiceStep, HandlerStep, Accept, NotImplemented, BeginTx, Deliver,
         GenerateKeyPair, GetInfo, SignData, Create, StoreSignature, Read, Commit, Rollback, Goto,
         handlerVars, DeviceInv, ArchiveInv, LeakInv, ServerTypeOK, Labelled
    <3> QED
      BY <3>1, <3>2 DEF Untouched
  <2>2. CASE Keeps(r)
    BY <1>2, <2>1, <2>2 DEF Keeps
  <2>3. CASE Inserts(r)
    BY <1>2, <2>1, <2>3 DEF Inserts
  <2>4. CASE Stores(r)
    <3>1. Archivers' = Archivers \cup {r} /\ r \notin Archivers
      <4>1. PICK e : e = Entry(r)
        OBVIOUS
      <4>2. e.by = r /\ archive' = archive \cup {e}
        BY <2>4, <4>1 DEF Stores, Entry
      <4>3. r \notin Archivers
        BY <2>4 DEF Stores, BelowInv
      <4>4. Archivers' = Archivers \cup {r}
        BY <4>2 DEF Archivers
      <4> QED
        BY <4>3, <4>4
    <3>2. Cardinality(Archivers') = Cardinality(Archivers) + 1
      BY <1>1, <3>1, FS_AddElement
    <3>3. ASSUME NEW q \in Archivers'
          PROVE  q \in Requests /\ SignsData(q)' /\ pc'[q] \in Past
      <4>1. CASE q = r
        <5>1. Serve(r) /\ pc[r] = "addSignature" => req' = req
          BY DEF Serve, ServiceStep, HandlerStep, Accept, NotImplemented, BeginTx, Deliver,
             GenerateKeyPair, GetInfo, SignData, Create, StoreSignature, Read, Commit, Rollback,
             handlerVars
        <5> QED
          BY <1>3, <2>4, <4>1, <5>1 DEF Stores, SignsData
      <4>2. CASE q # r
        BY <2>1, <3>1, <3>3, <4>2 DEF BelowInv, SignsData
      <4> QED
        BY <4>1, <4>2
    <3>4. ASSUME NEW id \in DOMAIN devices'
          PROVE  devices'[id].SignatureCounter <= Cardinality(Archivers')
      <4>1. /\ id \in DOMAIN devices /\ devices[id].SignatureCounter \in Nat
            /\ devices[id].SignatureCounter <= Cardinality(Archivers)
        BY <1>0, <2>4 DEF Stores, BelowInv, KeyChainInv, EndOf
      <4>2. CASE id # req[r].id
        BY <1>1, <2>4, <3>2, <4>1, <4>2 DEF Stores
      <4>3. CASE id = req[r].id
        BY <1>0, <1>1, <2>4, <3>2, <4>1, <4>3 DEF Stores, BelowWrap, Inc64
      <4> QED
        BY <4>2, <4>3
    <3> QED
      BY <1>0, <3>3, <3>4 DEF BelowInv
  <2> QED
    BY <1>0, <1>3, <2>2, <2>3, <2>4, DevicesMove
<1>4. ASSUME NEW r \in Requests, KeyGenerationPanics(r) \/ SigningPanics(r) PROVE BelowInv'
  <2>1. UNCHANGED <<archive, devices, req>>
    BY <1>4 DEF KeyGenerationPanics, SigningPanics, Recovered, storageVars
  <2>2. \A q \in Requests : pc[q] \in Past => pc'[q] \in Past
    BY <1>0, <1>4 DEF KeyGenerationPanics, SigningPanics, Recovered, Goto, DeviceInv, ArchiveInv,
       LeakInv, ServerTypeOK, Labelled
  <2> QED
    BY <1>2, <2>1, <2>2
<1>5. ASSUME Restart PROVE BelowInv'
  BY <1>2, <1>5 DEF Restart, EmptyMap
<1>6. ASSUME UNCHANGED allVars PROVE BelowInv'
  BY <1>2, <1>6 DEF allVars, vars, serverVars
<1> QED
  BY <1>3, <1>4, <1>5, <1>6 DEF ServerNext, AllOver

\* The counter of signatures never wraps as long as the lives of the process
\* serve fewer than 2^63 requests, and then one key has one chain.
THEOREM FewRequestsKeepOneChain == ASSUME Few PROVE ServerSpec => []OneChainPerKey
<1>1. BelowInv => OneChainPerKey
  BY DEF BelowInv, KeyChainInv
<1>2. ServerInit => BelowInv
  BY InitBelowInv
<1>3. BelowInv /\ [ServerNext]_allVars => BelowInv'
  BY BelowInvStep
<1> QED
  BY <1>1, <1>2, <1>3, PTL DEF ServerSpec
-----------------------------------------------------------------------------
(* Which key an answer of another life belongs to                            *)

\* Requests that have created a device, or made a signature, and say so to
\* their client unless the process stops.
Successes(r) == pc[r] = "commit" \/ (pc[r] \in Answered /\ resp[r].status = 201)
Created(r) == CreatesDevice(r) /\ Successes(r)
Signed(r) == SignsData(r) /\ Successes(r)

\* The signature that request s has made, and its key.
SignatureBy(s) == IF pc[s] = "commit" THEN signature[s] ELSE resp[s].Signature.base64
KeyOf(s) == SignatureBy(s).key

KeyOfDevice(id, key) == Found(id) /\ devices[id].PrivateKey = key

CreatedOK(c) ==
  Created(c) =>
    /\ pc[c] \in Answered => resp[c].PublicKeyPem = PublicKeyPEM(NewKey(req[c].alg, c))
    /\ bornIn[c] = life => KeyOfDevice(req[c].id, NewKey(req[c].alg, c))

SignedOK(s) ==
  Signed(s) =>
    /\ SignatureBy(s).message = IF pc[s] = "commit" THEN SecuredDataOf(s) ELSE resp[s].SignedData
    /\ KeyOf(s).owner \in Requests /\ Inserted(KeyOf(s).owner)
    /\ bornIn[KeyOf(s).owner] = bornIn[s]
    /\ bornIn[s] = life => KeyOfDevice(req[s].id, KeyOf(s))

RequestOK(r) ==
  /\ bornIn[r] \in Nat /\ bornIn[r] <= life
  /\ pc[r] = "rollback" /\ (CreatesDevice(r) \/ SignsData(r)) => resp[r].status # 201
  /\ CreatedOK(r)
  /\ SignedOK(r)

\* In each life that has been, an id stood for one key.
OneKeyALife ==
  \A c, s \in Requests :
    Created(c) /\ Signed(s) /\ req[c].id = req[s].id /\ bornIn[c] = bornIn[s]
    => KeyOf(s) = NewKey(req[c].alg, c)

VerifyInv ==
  /\ DeviceInv
  /\ \A r \in Requests : RequestOK(r)
  /\ OneKeyALife

LEMMA InitVerifyInv == ServerInit => VerifyInv
<1> SUFFICES ASSUME ServerInit PROVE VerifyInv
  OBVIOUS
<1>1. \A r \in Requests : pc[r] = "idle" /\ bornIn[r] = 0 /\ life = 0
  BY DEF ServerInit, Init
<1>2. \A r \in Requests : ~Successes(r)
  BY <1>1 DEF Successes, Answered
<1>3. \A r \in Requests : RequestOK(r)
  BY <1>1, <1>2 DEF RequestOK, CreatedOK, SignedOK, Created, Signed
<1> QED
  BY <1>2, <1>3, InitDeviceInv DEF VerifyInv, OneKeyALife, Created, Signed

\* What a step within a life leaves of the devices and of who created them.
SameLife(r) ==
  /\ life' = life
  /\ \A q \in Requests \ {r} : Untouched(q)
  /\ \A id \in DOMAIN devices :
       id \in DOMAIN devices' /\ devices'[id].PrivateKey = devices[id].PrivateKey
  /\ \A o \in Requests :
       Inserted(o) => Inserted(o)' /\ req'[o] = req[o] /\ bornIn'[o] = bornIn[o]

LEMMA ServeSameLife ==
  ASSUME DeviceInv, NEW r \in Requests, Serve(r)
  PROVE  SameLife(r)
<1>1. life' = life /\ \A q \in Requests \ {r} : Untouched(q)
  BY OthersUntouched DEF DeviceInv, ArchiveInv
<1>2. \A id \in DOMAIN devices :
        id \in DOMAIN devices' /\ devices'[id].PrivateKey = devices[id].PrivateKey
  BY DevicesMove DEF Keeps, Inserts, Stores
<1>3. \A o \in Requests :
        Inserted(o) => Inserted(o)' /\ req'[o] = req[o] /\ bornIn'[o] = bornIn[o]
  BY InsertedServe
<1> QED
  BY <1>1, <1>2, <1>3 DEF SameLife

LEMMA PanicSameLife ==
  ASSUME DeviceInv, NEW r \in Requests, KeyGenerationPanics(r) \/ SigningPanics(r)
  PROVE  /\ SameLife(r)
         /\ pc'[r] = "return" /\ resp'[r].status = 500 /\ bornIn' = bornIn
         /\ bornIn[r] = life
<1> USE DEF DeviceInv, ArchiveInv, LeakInv, ServerTypeOK, Labelled, ArchiveTypeOK
<1>1. life' = life /\ \A q \in Requests \ {r} : Untouched(q)
  BY OthersUntouched
<1>2. /\ devices' = devices /\ req' = req /\ bornIn' = bornIn
      /\ pc[r] \in {"generate", "sign"} /\ pc'[r] = "return" /\ resp'[r].status = 500
  BY DEF KeyGenerationPanics, SigningPanics, Recovered, storageVars, Goto, Respond
<1>3. \A o \in Requests :
        Inserted(o) => Inserted(o)' /\ req'[o] = req[o] /\ bornIn'[o] = bornIn[o]
  BY <1>1, <1>2 DEF Inserted, CreatesDevice, Untouched
<1>4. bornIn[r] = life
  BY <1>2 DEF ArchiveOf
<1> QED
  BY <1>1, <1>2, <1>3, <1>4 DEF SameLife

LEMMA RequestFrame ==
  ASSUME NEW r \in Requests, SameLife(r), NEW q \in Requests \ {r}, RequestOK(q)
  PROVE  RequestOK(q)'
<1>1. /\ Untouched(q) /\ life' = life
      /\ \A id, key : KeyOfDevice(id, key) => id \in DOMAIN devices' /\ devices'[id].PrivateKey = key
  BY DEF SameLife, KeyOfDevice, Found
<1>2. Created(q)' <=> Created(q)
  BY <1>1 DEF Untouched, Created, Successes, CreatesDevice
<1>3. Signed(q)' <=> Signed(q)
  BY <1>1 DEF Untouched, Signed, Successes, SignsData
<1>4. SignatureBy(q)' = SignatureBy(q) /\ SecuredDataOf(q)' = SecuredDataOf(q)
  BY <1>1 DEF Untouched, SignatureBy, SecuredDataOf
<1>5. CreatedOK(q)'
  BY <1>1, <1>2 DEF RequestOK, CreatedOK, Untouched, KeyOfDevice, Found
<1>6. SignedOK(q)'
  <2>1. SUFFICES ASSUME Signed(q) PROVE SignedOK(q)'
    BY <1>3 DEF SignedOK
  <2>2. PICK k : k = KeyOf(q)
    OBVIOUS
  <2>3. KeyOf(q)' = k
    BY <1>4, <2>2 DEF KeyOf
  <2>4. k.owner \in Requests /\ Inserted(k.owner) /\ bornIn[k.owner] = bornIn[q]
    BY <2>1, <2>2 DEF RequestOK, SignedOK
  <2>5. Inserted(k.owner)' /\ bornIn'[k.owner] = bornIn[k.owner]
    BY <2>4 DEF SameLife
  <2>6. (Inserted(KeyOf(q).owner))'
    BY <2>3, <2>5 DEF Inserted, CreatesDevice
  <2>7. (bornIn[q] = life => KeyOfDevice(req[q].id, KeyOf(q)))'
    BY <1>1, <2>1, <2>2, <2>3 DEF RequestOK, SignedOK, Untouched, KeyOfDevice, Found
  <2> QED
    BY <1>1, <1>4, <2>1, <2>3, <2>4, <2>5, <2>6, <2>7 DEF RequestOK, SignedOK, Untouched
<1> QED
  BY <1>1, <1>5, <1>6 DEF RequestOK, Untouched, CreatesDevice, SignsData

LEMMA SignatureParts ==
  ASSUME NEW key, NEW message, NEW r
  PROVE  /\ SignatureOf(key, message, r).key = key
         /\ SignatureOf(key, message, r).message = message
BY DEF SignatureOf, ECDSASign, RSASign

LEMMA RequestServe ==
  ASSUME DeviceInv, NEW r \in Requests, RequestOK(r), Serve(r), DeviceInv'
  PROVE  RequestOK(r)'
<1>0. LeakInv /\ ArchiveTypeOK /\ ServerTypeOK /\ Labelled /\ ArchiveOf(r) /\ LocalsOf(r)
  BY DEF DeviceInv, ArchiveInv, LeakInv, ServerTypeOK, Locals
<1>1. SameLife(r)
  BY ServeSameLife
<1>2. bornIn'[r] = life /\ life' = life /\ life \in Nat
  BY <1>0 DEF Labelled, ArchiveTypeOK, ServerTypeOK, ArchiveOf, Serve, ServiceStep, HandlerStep,
     Accept, NotImplemented, BeginTx, Deliver, GenerateKeyPair, GetInfo, SignData, Create,
     StoreSignature, Read, Commit, Rollback
<1>3. bornIn'[r] \in Nat /\ bornIn'[r] <= life'
  BY <1>2
<1>4. ASSUME ~(Successes(r)'),
             pc'[r] = "rollback" /\ (CreatesDevice(r)' \/ SignsData(r)') => resp'[r].status # 201
      PROVE  RequestOK(r)'
  BY <1>3, <1>4 DEF RequestOK, CreatedOK, SignedOK, Created, Signed
<1>5. CASE Accept(r) \/ NotImplemented(r) \/ GenerateKeyPair(r)
  BY <1>0, <1>4, <1>5 DEF Accept, NotImplemented, GenerateKeyPair, Goto, Respond, FailureStatus,
     Labelled, ArchiveTypeOK, Successes, Answered
<1>6. CASE BeginTx(r)
  BY <1>0, <1>4, <1>6 DEF BeginTx, FirstStep, Goto, Labelled, Successes, Answered
<1>7. CASE GetInfo(r) \/ SignData(r)
  BY <1>0, <1>4, <1>7 DEF GetInfo, SignData, Goto, Respond, FailureStatus, Labelled,
     ArchiveTypeOK, Successes, Answered
<1>8. CASE Read(r)
  BY <1>0, <1>4, <1>8 DEF Read, Goto, Labelled, Successes, Answered, LocalsOf, CreatesDevice,
     SignsData
<1>9. CASE Rollback(r)
  <2>1. pc'[r] = "return" /\ resp' = resp /\ req' = req /\ pc[r] = "rollback"
    BY <1>0, <1>9 DEF Rollback, Goto, Labelled
  <2>2. CASE CreatesDevice(r) \/ SignsData(r)
    BY <1>4, <2>1, <2>2 DEF RequestOK, Successes, Answered
  <2>3. CASE ~CreatesDevice(r) /\ ~SignsData(r)
    BY <1>3, <2>1, <2>3 DEF RequestOK, CreatedOK, SignedOK, Created, Signed, CreatesDevice, SignsData
  <2> QED
    BY <2>2, <2>3
<1>10. CASE Create(r)
  <2>1. CASE pc'[r] # "commit"
    BY <1>0, <1>4, <1>10, <2>1 DEF Create, Goto, Respond, Labelled, ArchiveTypeOK, Successes,
       Answered
  <2>2. CASE pc'[r] = "commit"
    <3>0. pc[r] = "create" /\ req' = req /\ ~Found(req[r].id) /\ req[r].id \in DOMAIN devices'
      BY <1>0, <1>10, <2>2 DEF Create, Goto, Labelled, MapPut, CreateNewSignatureDevice
    <3>1. Inserts(r)
      <4>1. ~Keeps(r)
        BY <3>0 DEF Keeps, Found
      <4>2. ~Stores(r)
        BY <3>0 DEF Stores
      <4> QED
        BY <4>1, <4>2, DevicesMove
    <3>2. PICK id : id = req[r].id
      OBVIOUS
    <3>3. id \in DOMAIN devices' /\ devices'[id].PrivateKey = NewKey(req[r].alg, r)
      BY <3>1, <3>2 DEF Inserts
    <3>4. CreatedOK(r)'
      BY <2>2, <3>0, <3>1, <3>2, <3>3 DEF CreatedOK, Answered, KeyOfDevice, Found
    <3>5. ~(Signed(r)')
      BY <3>0, <3>1 DEF Inserts, Signed, SignsData, CreatesDevice
    <3> QED
      BY <1>3, <2>2, <3>4, <3>5 DEF RequestOK, SignedOK
  <2> QED
    BY <2>1, <2>2
<1>11. CASE StoreSignature(r)
  <2>1. Stores(r) /\ req' = req /\ info'[r] = info[r] /\ signature'[r] = signature[r]
    BY <1>11, DevicesMove DEF StoreSignature, handlerVars, Keeps, Inserts, Stores
  <2>2. PICK id : id = req[r].id
    OBVIOUS
  <2>3. PICK k : k = devices[id].PrivateKey
    OBVIOUS
  <2>4. id \in DOMAIN devices' /\ devices'[id].PrivateKey = k
    BY <2>1, <2>2, <2>3 DEF Stores, Found
  <2>5. signature'[r].key = k /\ signature'[r].message = SecuredDataOf(r)
    BY <2>1, <2>2, <2>3, SignatureParts DEF Stores
  <2>6. pc'[r] = "commit" /\ SecuredDataOf(r)' = SecuredDataOf(r)
    BY <2>1 DEF Stores, SecuredDataOf
  <2>7. OwnedBy(k.owner, id)
    BY <2>1, <2>2, <2>3 DEF Stores, Found, DeviceInv, DevicesOK
  <2>8. k.owner \in Requests /\ Inserted(k.owner)' /\ bornIn'[k.owner] = bornIn'[r]
    BY <1>1, <1>2, <2>7 DEF OwnedBy, SameLife
  <2>9. KeyOf(r)' = k /\ SignatureBy(r)' = signature'[r]
    BY <2>5, <2>6 DEF KeyOf, SignatureBy
  <2>10. SignedOK(r)'
    <3>1. (Inserted(KeyOf(r).owner))'
      BY <2>8, <2>9 DEF Inserted, CreatesDevice
    <3> QED
      BY <2>1, <2>2, <2>4, <2>5, <2>6, <2>8, <2>9, <3>1 DEF SignedOK, KeyOfDevice, Found
  <2>11. ~(Created(r)')
    BY <2>1 DEF Stores, Created, SignsData, CreatesDevice
  <2> QED
    BY <1>3, <2>6, <2>10, <2>11 DEF RequestOK, CreatedOK
<1>12. CASE Commit(r)
  <2>1. /\ pc[r] = "commit" /\ pc'[r] = "return" /\ UNCHANGED <<req, devices>>
        /\ resp'[r] = CommitResponse(r) /\ bornIn' = bornIn
    BY <1>0, <1>12 DEF Commit, Goto, Respond, Labelled, ArchiveTypeOK, Serve
  <2>2. CASE CreatesDevice(r)
    <3>1. resp'[r].PublicKeyPem = PublicKeyPEM(keyPair[r]) /\ keyPair[r] = NewKey(req[r].alg, r)
      BY <1>0, <2>1, <2>2 DEF CommitResponse, CreatesDevice, LocalsOf
    <3>2. bornIn[r] = life => KeyOfDevice(req[r].id, NewKey(req[r].alg, r))
      BY <2>1, <2>2 DEF RequestOK, CreatedOK, Created, Successes
    <3>3. CreatedOK(r)'
      BY <1>2, <2>1, <3>1, <3>2 DEF CreatedOK, KeyOfDevice, Found
    <3>4. ~(Signed(r)')
      BY <2>1, <2>2 DEF Signed, SignsData, CreatesDevice
    <3> QED
      BY <1>3, <2>1, <3>3, <3>4 DEF RequestOK, SignedOK
  <2>3. CASE ~CreatesDevice(r)
    <3>1. SignsData(r) /\ Signed(r) /\ SignatureBy(r) = signature[r]
      BY <1>0, <2>1, <2>3 DEF LocalsOf, Signed, Successes, SignatureBy
    <3>2. /\ resp'[r].Signature = Base64(signature[r])
          /\ resp'[r].SignedData = SecuredDataOf(r)
      BY <2>1, <2>3 DEF CommitResponse, CreatesDevice
    <3>3. SignatureBy(r)' = signature[r]
      BY <2>1, <3>2 DEF SignatureBy, Base64
    <3>4. PICK k : k = KeyOf(r)
      OBVIOUS
    <3>5. KeyOf(r)' = k
      BY <3>1, <3>3, <3>4 DEF KeyOf
    <3>6. /\ signature[r].message = SecuredDataOf(r)
          /\ k.owner \in Requests /\ Inserted(k.owner) /\ bornIn[k.owner] = bornIn[r]
          /\ bornIn[r] = life => KeyOfDevice(req[r].id, k)
      BY <2>1, <3>1, <3>4 DEF RequestOK, SignedOK
    <3>7. (Inserted(KeyOf(r).owner))' /\ bornIn'[k.owner] = bornIn'[r]
      BY <1>1, <2>1, <3>5, <3>6 DEF SameLife, Inserted, CreatesDevice
    <3>8. SignedOK(r)'
      BY <1>2, <2>1, <3>2, <3>3, <3>5, <3>6, <3>7 DEF SignedOK, KeyOfDevice, Found
    <3>9. ~(Created(r)')
      BY <2>1, <2>3 DEF Created, CreatesDevice
    <3> QED
      BY <1>3, <2>1, <3>8, <3>9 DEF RequestOK, CreatedOK
  <2> QED
    BY <2>2, <2>3
<1>13. CASE Deliver(r)
  <2>1. /\ pc[r] = "return" /\ pc'[r] = "done" /\ UNCHANGED <<req, devices, resp>>
        /\ bornIn' = bornIn
    BY <1>0, <1>13 DEF Deliver, handlerVars, storageVars, Goto, Labelled, Serve
  <2>2. /\ Created(r)' <=> Created(r)
        /\ Signed(r)' <=> Signed(r)
        /\ SignatureBy(r)' = SignatureBy(r)
    BY <2>1 DEF Created, Signed, Successes, Answered, SignatureBy, CreatesDevice, SignsData
  <2>3. CreatedOK(r)'
    BY <1>2, <2>1, <2>2 DEF RequestOK, CreatedOK, Answered, KeyOfDevice, Found
  <2>4. SignedOK(r)'
    <3>1. SUFFICES ASSUME Signed(r) PROVE SignedOK(r)'
      BY <2>2 DEF SignedOK
    <3>2. PICK k : k = KeyOf(r)
      OBVIOUS
    <3>3. KeyOf(r)' = k
      BY <2>2, <3>2 DEF KeyOf
    <3>4. /\ k.owner \in Requests /\ Inserted(k.owner) /\ bornIn[k.owner] = bornIn[r]
          /\ SignatureBy(r).message = resp[r].SignedData
          /\ bornIn[r] = life => KeyOfDevice(req[r].id, k)
      BY <2>1, <3>1, <3>2 DEF RequestOK, SignedOK
    <3>5. (Inserted(KeyOf(r).owner))'
      BY <1>1, <3>3, <3>4 DEF SameLife, Inserted, CreatesDevice
    <3> QED
      BY <1>2, <2>1, <2>2, <3>3, <3>4, <3>5 DEF SignedOK, KeyOfDevice, Found
  <2> QED
    BY <1>3, <2>1, <2>3, <2>4 DEF RequestOK
<1> QED
  BY <1>5, <1>6, <1>7, <1>8, <1>9, <1>10, <1>11, <1>12, <1>13
  DEF Serve, ServiceStep, HandlerStep

\* Of the past nothing changes any more.
LEMMA OneKeyStep ==
  ASSUME VerifyInv, NEW r \in Requests, SameLife(r), bornIn'[r] = life,
         \A q \in Requests : RequestOK(q)'
  PROVE  OneKeyALife'
<1> SUFFICES ASSUME NEW c \in Requests, NEW s \in Requests,
                    Created(c)', Signed(s)',
                    req'[c].id = req'[s].id, bornIn'[c] = bornIn'[s]
             PROVE  KeyOf(s)' = NewKey(req'[c].alg, c)
  BY DEF OneKeyALife
<1>1. RequestOK(c)' /\ RequestOK(s)' /\ life' = life
  BY DEF SameLife
<1>2. CASE bornIn'[c] = life
  BY <1>1, <1>2 DEF RequestOK, CreatedOK, SignedOK, KeyOfDevice
<1>3. CASE bornIn'[c] # life
  <2>1. c # r /\ s # r
    BY <1>3
  <2>2. Untouched(c) /\ Untouched(s)
    BY <2>1 DEF SameLife
  <2>3. Created(c) /\ Signed(s) /\ KeyOf(s)' = KeyOf(s)
    BY <2>2 DEF Untouched, Created, Signed, Successes, CreatesDevice, SignsData, KeyOf, SignatureBy
  <2> QED
    BY <2>2, <2>3 DEF VerifyInv, OneKeyALife, Untouched
<1> QED
  BY <1>2, <1>3

LEMMA VerifyInvStep == VerifyInv /\ [ServerNext]_allVars => VerifyInv'
<1> SUFFICES ASSUME VerifyInv, [ServerNext]_allVars PROVE VerifyInv'
  OBVIOUS
<1>0. DeviceInv /\ DeviceInv' /\ \A q \in Requests : RequestOK(q)
  BY DeviceInvStep DEF VerifyInv
<1>1. ASSUME NEW r \in Requests, Serve(r) PROVE VerifyInv'
  <2>1. SameLife(r)
    BY <1>0, <1>1, ServeSameLife
  <2>2. RequestOK(r)'
    BY <1>0, <1>1, RequestServe
  <2>3. \A q \in Requests : RequestOK(q)'
    BY <1>0, <2>1, <2>2, RequestFrame
  <2>4. bornIn'[r] = life
    BY <1>0, <1>1 DEF DeviceInv, ArchiveInv, LeakInv, ServerTypeOK, Labelled, ArchiveTypeOK,
       ArchiveOf, Serve, ServiceStep, HandlerStep, Accept, NotImplemented, BeginTx, Deliver,
       GenerateKeyPair, GetInfo, SignData, Create, StoreSignature, Read, Commit, Rollback
  <2>5. OneKeyALife'
    BY <2>1, <2>3, <2>4, OneKeyStep
  <2> QED
    BY <1>0, <2>3, <2>5 DEF VerifyInv
<1>2. ASSUME NEW r \in Requests, KeyGenerationPanics(r) \/ SigningPanics(r) PROVE VerifyInv'
  <2>1. /\ SameLife(r)
        /\ pc'[r] = "return" /\ resp'[r].status = 500 /\ bornIn' = bornIn /\ bornIn[r] = life
    BY <1>0, <1>2, PanicSameLife
  <2>2. RequestOK(r)'
    <3>1. bornIn'[r] \in Nat /\ bornIn'[r] <= life'
      BY <1>0, <2>1 DEF RequestOK, SameLife
    <3>2. ~(Successes(r)')
      BY <2>1 DEF Successes
    <3> QED
      BY <2>1, <3>1, <3>2 DEF RequestOK, CreatedOK, SignedOK, Created, Signed
  <2>3. \A q \in Requests : RequestOK(q)'
    BY <1>0, <2>1, <2>2, RequestFrame
  <2>4. OneKeyALife'
    BY <2>1, <2>3, OneKeyStep
  <2> QED
    BY <1>0, <2>3, <2>4 DEF VerifyInv
<1>3. ASSUME Restart PROVE VerifyInv'
  <2>1. /\ UNCHANGED <<req, bornIn>> /\ life' = life + 1 /\ life \in Nat
        /\ \A r \in Requests :
             /\ pc'[r] = IF pc[r] \in {"idle", "done"} THEN pc[r] ELSE "lost"
             /\ pc[r] = "done" => resp'[r] = resp[r]
    BY <1>0, <1>3 DEF Restart, DeviceInv, ArchiveInv, LeakInv, ServerTypeOK
  <2>2. \A r \in Requests : bornIn[r] \in Nat /\ bornIn[r] <= life /\ bornIn[r] # life'
    BY <1>0, <2>1 DEF RequestOK
  <2>3. ASSUME NEW r \in Requests
        PROVE  /\ Created(r)' => Created(r) /\ pc[r] = "done"
               /\ Signed(r)' => Signed(r) /\ pc[r] = "done"
               /\ pc[r] = "done" => SignatureBy(r)' = SignatureBy(r)
    BY <2>1 DEF Created, Signed, Successes, Answered, CreatesDevice, SignsData, SignatureBy
  <2>4. \A o \in Requests : Inserted(o) => Inserted(o)'
    BY <2>1 DEF Inserted, CreatesDevice
  <2>5. ASSUME NEW r \in Requests PROVE RequestOK(r)'
    <3>1. CreatedOK(r)'
      BY <1>0, <2>1, <2>2, <2>3 DEF RequestOK, CreatedOK, Answered
    <3>2. SignedOK(r)'
      <4>1. SUFFICES ASSUME Signed(r)' PROVE SignedOK(r)'
        BY DEF SignedOK
      <4>2. Signed(r) /\ pc[r] = "done" /\ pc'[r] = "done" /\ resp'[r] = resp[r]
        BY <2>1, <2>3, <4>1
      <4>3. PICK k : k = KeyOf(r)
        OBVIOUS
      <4>4. KeyOf(r)' = k /\ SignatureBy(r)' = SignatureBy(r)
        BY <2>3, <4>2, <4>3 DEF KeyOf
      <4>5. /\ SignatureBy(r).message = resp[r].SignedData
            /\ k.owner \in Requests /\ Inserted(k.owner) /\ bornIn[k.owner] = bornIn[r]
        BY <1>0, <4>2, <4>3 DEF RequestOK, SignedOK
      <4>6. (Inserted(KeyOf(r).owner))'
        BY <2>1, <2>4, <4>4, <4>5 DEF Inserted, CreatesDevice
      <4> QED
        BY <2>1, <2>2, <4>2, <4>4, <4>5, <4>6 DEF SignedOK
    <3> QED
      BY <2>1, <2>2, <3>1, <3>2 DEF RequestOK
  <2>6. OneKeyALife'
    <3> SUFFICES ASSUME NEW c \in Requests, NEW s \in Requests, Created(c)', Signed(s)',
                        req'[c].id = req'[s].id, bornIn'[c] = bornIn'[s]
                 PROVE  KeyOf(s)' = NewKey(req'[c].alg, c)
      BY DEF OneKeyALife
    <3>1. Created(c) /\ Signed(s) /\ KeyOf(s)' = KeyOf(s)
      BY <2>3 DEF KeyOf
    <3> QED
      BY <2>1, <3>1 DEF VerifyInv, OneKeyALife
  <2> QED
    BY <1>0, <2>5, <2>6 DEF VerifyInv
<1>4. ASSUME UNCHANGED allVars PROVE VerifyInv'
  <2>1. ASSUME NEW r \in Requests PROVE RequestOK(r)'
    <3>1. /\ pc' = pc /\ req' = req /\ resp' = resp /\ info' = info
          /\ signature' = signature /\ devices' = devices
          /\ life' = life /\ bornIn' = bornIn
      BY <1>4 DEF allVars, vars, serverVars
    <3>2. RequestOK(r)
      BY <1>0 DEF VerifyInv
    <3>3. CreatedOK(r)'
      BY <3>1, <3>2, ZenonT(30)
      DEF RequestOK, CreatedOK, Created, Successes, CreatesDevice, KeyOfDevice, Found
    <3>4. SignedOK(r)'
      BY <3>1, <3>2 DEF RequestOK, SignedOK, Signed, Successes, SignsData, CreatesDevice, KeyOf,
         SignatureBy, KeyOfDevice, Found, Inserted, SecuredDataOf
    <3> QED
      BY <3>1, <3>2, <3>3, <3>4 DEF RequestOK, CreatesDevice, SignsData
  <2>2. OneKeyALife'
    BY <1>4 DEF VerifyInv, OneKeyALife, allVars, vars, serverVars, Created, Signed, Successes,
       CreatesDevice, SignsData, KeyOf, SignatureBy
  <2> QED
    BY <1>0, <2>1, <2>2 DEF VerifyInv
<1> QED
  BY <1>1, <1>2, <1>3, <1>4 DEF ServerNext, AllOver

LEMMA VerifyInvImplies == VerifyInv => AnswersVerifyInTheirLife
<1> SUFFICES ASSUME VerifyInv, NEW c \in Requests, NEW s \in Requests,
                    Successful(c, "CreateSignatureDevice"), Successful(s, "SignTransaction"),
                    req[c].id = req[s].id
             PROVE  Verifies(resp[c].PublicKeyPem, resp[s].SignedData, resp[s].Signature.base64)
                      <=> bornIn[c] = bornIn[s]
  BY DEF AnswersVerifyInTheirLife
<1>1. /\ Created(c) /\ Signed(s)
      /\ pc[c] \in Answered /\ pc[s] \in Answered /\ pc[s] # "commit"
      /\ SignatureBy(s) = resp[s].Signature.base64
  BY DEF Successful, Created, Signed, Successes, CreatesDevice, SignsData, Answered, SignatureBy
<1>2. PICK k : k = KeyOf(s)
  OBVIOUS
<1>3. /\ resp[c].PublicKeyPem = PublicKeyPEM(NewKey(req[c].alg, c))
      /\ resp[s].Signature.base64.message = resp[s].SignedData
      /\ resp[s].Signature.base64.key = k
      /\ bornIn[k.owner] = bornIn[s]
  BY <1>1, <1>2 DEF VerifyInv, RequestOK, CreatedOK, SignedOK, KeyOf
<1>4. Verifies(resp[c].PublicKeyPem, resp[s].SignedData, resp[s].Signature.base64)
        <=> k = NewKey(req[c].alg, c)
  <2>1. PublicKeyPEM(k) = PublicKeyPEM(NewKey(req[c].alg, c)) => k = NewKey(req[c].alg, c)
    BY PemKey
  <2> QED
    BY <1>3, <2>1 DEF Verifies
<1>5. k = NewKey(req[c].alg, c) => bornIn[c] = bornIn[s]
  BY <1>3 DEF NewKey
<1>6. bornIn[c] = bornIn[s] => k = NewKey(req[c].alg, c)
  BY <1>1, <1>2 DEF VerifyInv, OneKeyALife
<1> QED
  BY <1>4, <1>5, <1>6

\* The public key a client was given with a device verifies the signatures it is
\* given for that id in the same life of the process, and none of another life,
\* over any number of restarts, panics and creations of the id.
THEOREM KeysVerifyTheirLife == ServerSpec => []AnswersVerifyInTheirLife
BY InitVerifyInv, VerifyInvStep, VerifyInvImplies, PTL DEF ServerSpec
=============================================================================
