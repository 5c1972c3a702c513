----------------------- MODULE SignatureAnswerProofs ------------------------
(*****************************************************************************)
(* What answers say of the devices: an id is created once, a 201 stands for  *)
(* exactly one stored signature, and a device is read in one piece.          *)
(*****************************************************************************)
EXTENDS SignatureChainProofs
-----------------------------------------------------------------------------
\* What makes CreateOnce inductive.  A creation about to commit has its own key
\* in the map and one about to roll back met an existing device; the owner of a
\* device's key is past the insertion and is not given another answer than 201.
CreationOf(r) ==
  CreatesDevice(r) =>
    /\ pc[r] = "commit" =>
         Found(req[r].id) /\ devices[req[r].id].PrivateKey = keyPair[r]
    /\ pc[r] = "rollback" => resp[r].status = 409 /\ Found(req[r].id)
    /\ pc[r] \in Answered =>
         /\ resp[r].status = 201 =>
              /\ Found(req[r].id)
              /\ resp[r].PublicKeyPem = devices[req[r].id].PublicKeyPem
              /\ devices[req[r].id].PrivateKey.owner = r
         /\ resp[r].status = 409 => Found(req[r].id)

CreatorOf(id) ==
  Found(id) =>
    LET creator == devices[id].PrivateKey.owner
    IN  /\ CreateCall(creator, id)
        /\ pc[creator] \in {"commit", "return", "done"}
        /\ pc[creator] \in Answered => resp[creator].status = 201

CreationInv ==
  /\ ChainInv
  /\ \A r \in Requests : CreationOf(r)
  /\ \A id \in DeviceIDs : CreatorOf(id)

LEMMA InitCreationInv == Init => CreationInv
<1> SUFFICES ASSUME Init PROVE CreationInv
  OBVIOUS
<1>1. \A r \in Requests : CreationOf(r)
  BY DEF Init, CreationOf, Answered
<1>2. \A id \in DeviceIDs : CreatorOf(id)
  BY DEF Init, NewStorage, EmptyMap, CreatorOf, Found
<1> QED
  BY <1>1, <1>2, InitChainInv DEF CreationInv

\* No step removes a device or changes its keys.
LEMMA KeysKept ==
  ASSUME ChainInv, [Next]_vars, NEW id, Found(id)
  PROVE  /\ Found(id)'
         /\ devices'[id].PrivateKey = devices[id].PrivateKey
         /\ devices'[id].PublicKeyPem = devices[id].PublicKeyPem
<1>1. CASE UNCHANGED vars
  BY <1>1 DEF vars, Found
<1>2. CASE DeviceStep(id)
  BY <1>2 DEF DeviceStep, DeviceIdentity, Found
<1> QED
  BY <1>1, <1>2, DeviceStepHolds DEF Found

\* Only Create adds a device.
LEMMA OnlyCreateAdds ==
  ASSUME ChainInv, NEW r \in Requests, NEW id,
         \/ Accept(r) \/ NotImplemented(r) \/ GenerateKeyPair(r) \/ BeginTx(r)
         \/ GetInfo(r) \/ SignData(r) \/ StoreSignature(r) \/ Read(r)
         \/ Commit(r) \/ Rollback(r) \/ Deliver(r),
         Found(id)'
  PROVE  Found(id)
<1>1. CASE StoreSignature(r)
  <2>1. Found(req[r].id)
    BY <1>1 DEF StoreSignature, ChainInv, LockInv, FreshInfo
  <2> QED
    BY <1>1, <2>1 DEF StoreSignature, AddSignature, MapPut, Found
<1>2. CASE ~StoreSignature(r)
  BY <1>2 DEF Accept, NotImplemented, GenerateKeyPair, BeginTx, GetInfo, SignData,
     Read, Commit, Rollback, Deliver, storageVars, Found
<1> QED
  BY <1>1, <1>2

\* A step of r leaves the locals of the others alone.
LEMMA OthersAlone ==
  ASSUME LockInv, NEW r \in Requests, NEW q \in Requests, q # r,
         \/ Accept(r) \/ NotImplemented(r) \/ GenerateKeyPair(r) \/ BeginTx(r)
         \/ HandlerStep(r) \/ Deliver(r)
  PROVE  UNCHANGED <<pc[q], req[q], resp[q], keyPair[q]>>
<1>1. CASE Accept(r) \/ NotImplemented(r) \/ GenerateKeyPair(r) \/ BeginTx(r) \/ Deliver(r)
  BY <1>1, SMTT(30) DEF Accept, NotImplemented, GenerateKeyPair, BeginTx, Deliver, Goto,
     Respond, handlerVars, LockInv, TypeOK, HandlersTypeOK
<1>2. CASE HandlerStep(r)
  BY <1>2, SMTT(30) DEF HandlerStep, GenerateKeyPair, Create, GetInfo, SignData, StoreSignature,
     Read, Commit, Rollback, ForgetLocals, Goto, Respond, handlerVars, LockInv,
     TypeOK, HandlersTypeOK
<1> QED
  BY <1>1, <1>2

LEMMA CreationInvStep ==
  ASSUME CreationInv, [Next]_vars
  PROVE  CreationInv'
<1> USE DEF CreationInv
<1>1. ChainInv'
  BY ChainInvStep
<1>2. ASSUME NEW r \in Requests,
             \/ Accept(r) \/ NotImplemented(r) \/ GenerateKeyPair(r) \/ BeginTx(r)
             \/ HandlerStep(r) \/ Deliver(r),
             CreationOf(r)',
             \A id \in DeviceIDs : Found(id)' /\ ~Found(id) => CreatorOf(id)',
             \A id \in DeviceIDs :
               CreatorOf(id) /\ Found(id) /\ devices[id].PrivateKey.owner = r
                 => CreatorOf(id)'
      PROVE  CreationInv'
  <2>1. ASSUME NEW q \in Requests PROVE CreationOf(q)'
    <3>1. CASE q = r
      BY <1>2, <3>1
    <3>2. CASE q # r
      <4>1. UNCHANGED <<pc[q], req[q], resp[q], keyPair[q]>>
        BY <1>2, <3>2, OthersAlone DEF ChainInv
      <4>2. CreatesDevice(q)' = CreatesDevice(q)
        BY <4>1 DEF CreatesDevice
      <4>3. Found(req[q].id) =>
              /\ Found(req[q].id)'
              /\ UNCHANGED <<devices[req[q].id].PrivateKey, devices[req[q].id].PublicKeyPem>>
        <5>1. PICK id : id = req[q].id
          OBVIOUS
        <5> QED
          BY <4>1, <5>1, KeysKept DEF Found
      <4>4. CreationOf(q)
        OBVIOUS
      <4> QED
        BY <4>1, <4>2, <4>3, <4>4 DEF CreationOf, Answered
    <3> QED
      BY <3>1, <3>2
  <2>2. ASSUME NEW id \in DeviceIDs PROVE CreatorOf(id)'
    <3>1. CASE ~Found(id)
      BY <1>2, <3>1 DEF CreatorOf
    <3>2. CASE Found(id) /\ devices[id].PrivateKey.owner = r
      BY <1>2, <3>2
    <3>3. CASE Found(id) /\ devices[id].PrivateKey.owner # r
      <4>1. PICK c \in Requests : c = devices[id].PrivateKey.owner
        BY <3>3 DEF ChainInv, LockInv, TypeOK, StorageTypeOK, DeviceShape, Keys, Found
      <4>2. UNCHANGED <<pc[c], req[c], resp[c], keyPair[c]>>
        BY <1>2, <3>3, <4>1, OthersAlone DEF ChainInv
      <4>3. c = devices'[id].PrivateKey.owner
        BY <3>3, <4>1, KeysKept
      <4>4. /\ CreateCall(c, id)
            /\ pc[c] \in {"commit", "return", "done"}
            /\ pc[c] \in Answered => resp[c].status = 201
        BY <3>3, <4>1 DEF CreatorOf
      <4>5. /\ CreateCall(c, id)'
            /\ pc'[c] \in {"commit", "return", "done"}
            /\ pc'[c] \in Answered => resp'[c].status = 201
        BY <4>2, <4>4 DEF CreateCall
      <4> QED
        BY <4>3, <4>5 DEF CreatorOf
    <3> QED
      BY <3>1, <3>2, <3>3
  <2> QED
    BY <1>1, <2>1, <2>2
<1>3. ASSUME NEW r \in Requests, Create(r) PROVE CreationInv'
  <2>1. PICK id \in DeviceIDs : id = req[r].id
    BY <1>3, CallFacts DEF Create, ChainInv, LockInv, Locals, LocalsOf, CreatesDevice
  <2>2. /\ req'[r] = req[r] /\ keyPair'[r] = keyPair[r] /\ CreatesDevice(r)
        /\ keyPair[r] = NewKey(req[r].alg, r)
    BY <1>3 DEF Create, ChainInv, LockInv, Locals, LocalsOf
  <2>3. \A x \in DeviceIDs : Found(x) => devices[x].PrivateKey.owner # r
    BY <1>3 DEF Create, CreatorOf
  <2>4. CASE Found(id)
    <3>1. /\ pc'[r] = "rollback" /\ resp'[r].status = 409
          /\ devices' = devices
      BY <1>3, <2>1, <2>4
      DEF Create, Goto, Respond, ChainInv, LockInv, TypeOK, HandlersTypeOK
    <3>2. CreationOf(r)'
      BY <2>1, <2>2, <2>4, <3>1 DEF CreationOf, Answered, Found
    <3> QED
      BY <1>2, <1>3, <2>3, <3>1, <3>2 DEF HandlerStep, Found
  <2>5. CASE ~Found(id)
    <3>1. /\ pc'[r] = "commit"
          /\ DOMAIN devices' = DOMAIN devices \cup {id}
          /\ devices'[id].PrivateKey = keyPair[r]
      BY <1>3, <2>1, <2>5
      DEF Create, Goto, CreateNewSignatureDevice, MapPut, ChainInv, LockInv, TypeOK,
          HandlersTypeOK
    <3>2. CreationOf(r)'
      BY <2>1, <2>2, <3>1 DEF CreationOf, Answered, Found
    <3>3. devices'[id].PrivateKey.owner = r
      BY <2>2, <3>1 DEF NewKey
    <3>4. CreatorOf(id)'
      BY <2>1, <2>2, <3>1, <3>3 DEF CreatorOf, CreateCall, CreatesDevice, Answered
    <3>5. \A x \in DeviceIDs : Found(x)' /\ ~Found(x) => x = id
      BY <3>1 DEF Found
    <3> QED
      BY <1>2, <1>3, <2>3, <3>2, <3>4, <3>5 DEF HandlerStep
  <2> QED
    BY <2>4, <2>5
<1>4. ASSUME NEW r \in Requests,
             \/ Accept(r) \/ NotImplemented(r) \/ GenerateKeyPair(r) \/ BeginTx(r)
             \/ GetInfo(r) \/ SignData(r) \/ StoreSignature(r) \/ Read(r)
      PROVE  CreationInv'
  <2>1. \A id \in DeviceIDs : Found(id) => devices[id].PrivateKey.owner # r
    BY <1>4 DEF CreatorOf, Accept, NotImplemented, GenerateKeyPair, BeginTx, GetInfo,
       SignData, StoreSignature, Read
  <2>2. CASE Accept(r) \/ NotImplemented(r) \/ GenerateKeyPair(r) \/ BeginTx(r)
    <3>1. \/ pc'[r] \in {"generate", "begin", "create", "getInfo", "read"}
          \/ pc'[r] = "return" /\ resp'[r].status \in {400, 500, 501}
      BY <2>2 DEF Accept, NotImplemented, GenerateKeyPair, FailureStatus, BeginTx,
         FirstStep, Goto, Respond, ChainInv, LockInv, TypeOK, HandlersTypeOK
    <3> QED
      BY <1>2, <2>1, <2>2, <3>1, OnlyCreateAdds DEF CreationOf, Answered
  <2>3. CASE GetInfo(r) \/ SignData(r) \/ StoreSignature(r) \/ Read(r)
    <3>1. ~CreatesDevice(r) /\ req' = req
      BY <2>3 DEF GetInfo, SignData, StoreSignature, Read, handlerVars, ChainInv,
         LockInv, Locals, LocalsOf, CreatesDevice, SignsData
    <3>2. CreationOf(r)'
      BY <3>1 DEF CreationOf, CreatesDevice
    <3> QED
      BY <1>2, <2>1, <2>3, <3>2, OnlyCreateAdds DEF HandlerStep
  <2> QED
    BY <1>4, <2>2, <2>3
<1>5. ASSUME NEW r \in Requests, Commit(r) \/ Rollback(r) \/ Deliver(r) PROVE CreationInv'
  <2>1. req' = req /\ devices' = devices /\ pc'[r] \in {"return", "done"} /\ pc[r] # "idle"
    BY <1>5 DEF Commit, Rollback, Deliver, Goto, handlerVars, storageVars, ChainInv,
       LockInv, TypeOK, HandlersTypeOK
  <2>2. CASE Commit(r)
    <3>1. resp'[r] = CommitResponse(r)
      BY <2>2 DEF Commit, Respond, ChainInv, LockInv, TypeOK, HandlersTypeOK
    <3>2. resp'[r].status = 201
      BY <3>1 DEF CommitResponse
    <3>3. CreationOf(r)'
      <4> SUFFICES ASSUME CreatesDevice(r) PROVE CreationOf(r)'
        BY <2>1 DEF CreationOf, CreatesDevice
      <4>1. resp'[r].PublicKeyPem = PublicKeyPEM(keyPair[r])
        BY <3>1 DEF CommitResponse, CreatesDevice
      <4>2. /\ Found(req[r].id) /\ devices[req[r].id].PrivateKey = keyPair[r]
            /\ keyPair[r] = NewKey(req[r].alg, r)
        BY <2>2 DEF Commit, CreationOf, ChainInv, LockInv, Locals, LocalsOf
      <4>3. devices[req[r].id].PublicKeyPem = PublicKeyPEM(keyPair[r])
        BY <4>2 DEF ChainInv, KeysMatch, Found
      <4>4. keyPair[r].owner = r
        BY <4>2 DEF NewKey
      <4> QED
        BY <2>1, <3>2, <4>1, <4>2, <4>3, <4>4 DEF CreationOf, Found
    <3>4. ASSUME NEW id \in DeviceIDs, CreatorOf(id), Found(id),
                 devices[id].PrivateKey.owner = r
          PROVE  CreatorOf(id)'
      BY <2>1, <3>2, <3>4 DEF CreatorOf, CreateCall
    <3> QED
      BY <1>2, <2>1, <2>2, <3>3, <3>4 DEF HandlerStep, Found
  <2>3. CASE Rollback(r) \/ Deliver(r)
    <3>1. resp' = resp /\ pc[r] \in {"rollback", "return"}
      BY <2>3 DEF Rollback, Deliver, handlerVars
    <3>2. CreationOf(r)'
      BY <2>1, <3>1 DEF CreationOf, CreatesDevice, Answered, Found
    <3>3. ASSUME NEW id \in DeviceIDs, CreatorOf(id), Found(id),
                 devices[id].PrivateKey.owner = r
          PROVE  CreatorOf(id)'
      BY <2>1, <3>1, <3>3 DEF CreatorOf, CreateCall, Answered
    <3> QED
      BY <1>2, <2>1, <2>3, <3>2, <3>3 DEF HandlerStep, Found
  <2> QED
    BY <1>5, <2>2, <2>3
<1>6. CASE UNCHANGED vars
  BY <1>1, <1>6 DEF vars, CreationOf, CreatorOf, CreatesDevice, CreateCall, Found
<1> QED
  BY <1>3, <1>4, <1>5, <1>6 DEF Next, HandlerStep, AllDone

\* Whoever races to create an id, one request is told 201, with the public key
\* of the device, and 409 is only told of an id that exists.
THEOREM CreatedOnce == Spec => []CreateOnce
<1>1. CreationInv => CreateOnce
  BY DEF CreationInv, CreationOf, CreatorOf, CreateCall, CreatesDevice, CreateOnce
<1> QED
  BY <1>1, InitCreationInv, CreationInvStep, PTL DEF Spec
-----------------------------------------------------------------------------
\* What makes ExactlyOnce inductive: the one entry of a request is there from
\* StoreSignature on, and an answer that rolls back is not a 201.
HasOne(r, data, sig) ==
  \E i \in DOMAIN issued[req[r].id] :
    /\ EntriesOf(r) = {<<req[r].id, i>>}
    /\ issued[req[r].id][i].signedData = data
    /\ issued[req[r].id][i].signature = sig

Stored(r) ==
  SignsData(r) /\ (pc[r] = "commit" \/ (pc[r] \in Answered /\ resp[r].status = 201))

StoredOf(r) ==
  /\ SignsData(r) /\ pc[r] = "commit" =>
       HasOne(r, SecuredDataOf(r), Base64(signature[r]))
  /\ SignsData(r) /\ pc[r] \in Answered /\ resp[r].status = 201 =>
       HasOne(r, resp[r].SignedData, resp[r].Signature)
  /\ SignsData(r) /\ pc[r] = "rollback" => resp[r].status # 201
  /\ ~Stored(r) => EntriesOf(r) = {}

StoredInv == LockInv /\ \A r \in Requests : StoredOf(r)

LEMMA EntryMember ==
  ASSUME NEW r, NEW e
  PROVE  e \in EntriesOf(r) <=>
           \E id \in DeviceIDs : \E i \in DOMAIN issued[id] :
             e = <<id, i>> /\ issued[id][i].by = r
BY DEF EntriesOf

LEMMA InitStoredInv == Init => StoredInv
<1> SUFFICES ASSUME Init, NEW r \in Requests PROVE StoredOf(r)
  BY InitLockInv DEF StoredInv
<1>1. EntriesOf(r) = {}
  BY EntryMember DEF Init
<1> QED
  BY <1>1 DEF Init, StoredOf, Answered

\* A step that leaves the history alone, and a request of it, keeps what is
\* said of that request.
LEMMA StoredFrame ==
  ASSUME NEW r \in Requests, StoredOf(r), issued' = issued,
         UNCHANGED <<pc[r], req[r], info[r], signature[r], resp[r]>>
  PROVE  StoredOf(r)'
<1>1. EntriesOf(r)' = EntriesOf(r)
  BY DEF EntriesOf
<1>2. SecuredDataOf(r)' = SecuredDataOf(r) /\ SignsData(r)' = SignsData(r)
  BY DEF SecuredDataOf, SignsData
<1>3. \A data, sig : HasOne(r, data, sig)' <=> HasOne(r, data, sig)
  BY <1>1 DEF HasOne
<1> QED
  BY <1>1, <1>2, <1>3 DEF StoredOf, Stored, Answered

\* Storing a signature adds one entry, of the request that stores it.
LEMMA StoreEntries ==
  ASSUME LockInv, NEW r \in Requests, StoreSignature(r)
  PROVE  \E id \in DeviceIDs, n \in Nat :
           /\ id = req[r].id
           /\ n + 1 \in DOMAIN issued'[id]
           /\ issued'[id][n + 1] = [by         |-> r,
                                    signedData |-> SecuredDataOf(r),
                                    signature  |-> Base64(signature[r])]
           /\ EntriesOf(r)' = EntriesOf(r) \cup {<<id, n + 1>>}
           /\ \A q \in Requests \ {r} : EntriesOf(q)' = EntriesOf(q)
           /\ \A x \in DeviceIDs : \A i \in DOMAIN issued[x] :
                i \in DOMAIN issued'[x] /\ issued'[x][i] = issued[x][i]
<1>1. PICK id \in DeviceIDs : id = req[r].id
  BY CallFacts DEF StoreSignature, LockInv, Locals, LocalsOf, SignsData
<1>2. PICK n \in Nat : n = Len(issued[id])
  BY SequenceFacts DEF LockInv, TypeOK, IssuedTypeOK
<1> DEFINE entry == [by         |-> r,
                     signedData |-> SecuredDataOf(r),
                     signature  |-> Base64(signature[r])]
<1>3. /\ \A x \in DeviceIDs \ {id} : issued'[x] = issued[x]
      /\ issued'[id] = Append(issued[id], entry)
  BY <1>1 DEF StoreSignature, LockInv, TypeOK, IssuedTypeOK
<1>4. IsSequence(issued[id])
  BY DEF LockInv, TypeOK, IssuedTypeOK
<1>5. entry.by = r
  OBVIOUS
<1> HIDE DEF entry
<1>6. /\ DOMAIN issued[id] = 1 .. n
      /\ DOMAIN issued'[id] = 1 .. (n + 1)
      /\ issued'[id][n + 1] = entry
      /\ \A i \in 1 .. n : issued'[id][i] = issued[id][i]
  BY <1>2, <1>3, <1>4, SequenceFacts, AppendFacts
<1>7. \A x \in DeviceIDs : \A i \in DOMAIN issued[x] :
        i \in DOMAIN issued'[x] /\ issued'[x][i] = issued[x][i]
  BY <1>3, <1>6
<1>8. \A x \in DeviceIDs : \A i \in DOMAIN issued'[x] :
        i \in DOMAIN issued[x] \/ (x = id /\ i = n + 1)
  BY <1>3, <1>6
<1>9. ASSUME NEW q, NEW e
      PROVE  e \in EntriesOf(q)' <=>
               e \in EntriesOf(q) \/ (q = r /\ e = <<id, n + 1>>)
  <2>1. e \in EntriesOf(q)' <=>
          \E x \in DeviceIDs : \E i \in DOMAIN issued'[x] :
            e = <<x, i>> /\ issued'[x][i].by = q
    BY DEF EntriesOf
  <2>2. n + 1 \in DOMAIN issued'[id] /\ issued'[id][n + 1].by = r
    BY <1>5, <1>6
  <2> QED
    BY <1>7, <1>8, <2>1, <2>2, EntryMember
<1>10. EntriesOf(r)' = EntriesOf(r) \cup {<<id, n + 1>>}
  BY <1>9
<1>11. ASSUME NEW q \in Requests \ {r} PROVE EntriesOf(q)' = EntriesOf(q)
  <2>1. \A e : e \in EntriesOf(q)' <=> e \in EntriesOf(q)
    BY <1>9
  <2>2. EntriesOf(q)' \subseteq EntriesOf(q) /\ EntriesOf(q) \subseteq EntriesOf(q)'
    BY <2>1
  <2> QED
    BY <2>2
<1>12. n + 1 \in DOMAIN issued'[id]
  BY <1>6
<1> QED
  BY <1>1, <1>6, <1>7, <1>10, <1>11, <1>12 DEF entry

LEMMA StoredInvStep ==
  ASSUME StoredInv, [Next]_vars
  PROVE  StoredInv'
<1> USE DEF StoredInv
<1>0. LockInv'
  BY LockInvStep
<1>1. ASSUME NEW r \in Requests,
             \/ Accept(r) \/ NotImplemented(r) \/ GenerateKeyPair(r) \/ BeginTx(r)
             \/ Create(r) \/ GetInfo(r) \/ SignData(r) \/ Read(r) \/ Commit(r)
             \/ Rollback(r) \/ Deliver(r),
             StoredOf(r)'
      PROVE  StoredInv'
  <2>1. issued' = issued
    BY <1>1 DEF Accept, NotImplemented, GenerateKeyPair, BeginTx, Create, GetInfo,
       SignData, Read, Commit, Rollback, Deliver
  <2>2. ASSUME NEW q \in Requests, q # r PROVE StoredOf(q)'
    <3>1. UNCHANGED <<pc[q], req[q], resp[q]>>
      BY <1>1, <2>2, OthersAlone DEF HandlerStep
    <3>2. UNCHANGED <<info[q], signature[q]>>
      BY <1>1, <2>2 DEF Accept, NotImplemented, GenerateKeyPair, BeginTx, Create,
         GetInfo, SignData, Read, Commit, Rollback, Deliver, ForgetLocals,
         handlerVars, LockInv, TypeOK, HandlersTypeOK
    <3> QED
      BY <2>1, <3>1, <3>2, StoredFrame
  <2> QED
    BY <1>0, <1>1, <2>2
<1>2. ASSUME NEW r \in Requests,
             \/ Accept(r) \/ NotImplemented(r) \/ GenerateKeyPair(r) \/ BeginTx(r)
             \/ Create(r) \/ GetInfo(r) \/ SignData(r) \/ Read(r)
      PROVE  StoredInv'
  <2>1. EntriesOf(r)' = EntriesOf(r) /\ EntriesOf(r) = {}
    <3>1. ~Stored(r)
      BY <1>2 DEF Stored, Answered, Accept, NotImplemented, GenerateKeyPair, BeginTx,
         Create, GetInfo, SignData, Read
    <3>2. issued' = issued
      BY <1>2 DEF Accept, NotImplemented, GenerateKeyPair, BeginTx, Create, GetInfo,
         SignData, Read
    <3> QED
      BY <3>1, <3>2 DEF StoredOf, EntriesOf
  <2>2. CASE Create(r) \/ GenerateKeyPair(r) \/ Read(r)
    <3>1. ~SignsData(r) /\ req' = req
      BY <2>2 DEF Create, GenerateKeyPair, Read, LockInv, Locals, LocalsOf,
         CreatesDevice, SignsData
    <3> QED
      BY <1>1, <2>1, <2>2, <3>1 DEF StoredOf, Stored, SignsData
  <2>3. CASE Accept(r) \/ NotImplemented(r) \/ BeginTx(r) \/ GetInfo(r) \/ SignData(r)
    <3>1. \/ pc'[r] \in {"generate", "begin", "create", "getInfo", "read", "sign",
                         "addSignature"}
          \/ pc'[r] \in {"return", "rollback"} /\ resp'[r].status # 201
      BY <2>3 DEF Accept, NotImplemented, BeginTx, FirstStep, GetInfo, SignData,
         FailureStatus, Goto, Respond, LockInv, TypeOK, HandlersTypeOK
    <3> QED
      BY <1>1, <2>1, <2>3, <3>1 DEF StoredOf, Stored, Answered
  <2> QED
    BY <1>2, <2>2, <2>3
<1>3. ASSUME NEW r \in Requests, StoreSignature(r) PROVE StoredInv'
  <2>1. PICK id \in DeviceIDs, n \in Nat :
          /\ id = req[r].id
          /\ n + 1 \in DOMAIN issued'[id]
          /\ issued'[id][n + 1] = [by         |-> r,
                                   signedData |-> SecuredDataOf(r),
                                   signature  |-> Base64(signature[r])]
          /\ EntriesOf(r)' = EntriesOf(r) \cup {<<id, n + 1>>}
          /\ \A q \in Requests \ {r} : EntriesOf(q)' = EntriesOf(q)
          /\ \A x \in DeviceIDs : \A i \in DOMAIN issued[x] :
               i \in DOMAIN issued'[x] /\ issued'[x][i] = issued[x][i]
    BY <1>3, StoreEntries
  <2>2. ASSUME NEW q \in Requests, q # r PROVE StoredOf(q)'
    <3>1. UNCHANGED <<pc[q], req[q], resp[q], info[q], signature[q]>>
      BY <1>3, <2>2 DEF StoreSignature, Goto, handlerVars, LockInv, TypeOK, HandlersTypeOK
    <3>2. EntriesOf(q)' = EntriesOf(q)
      BY <2>1, <2>2
    <3>3. SecuredDataOf(q)' = SecuredDataOf(q) /\ SignsData(q)' = SignsData(q)
      BY <3>1 DEF SecuredDataOf, SignsData
    <3>4. ASSUME NEW data, NEW sig, HasOne(q, data, sig), SignsData(q), pc[q] # "idle"
          PROVE  HasOne(q, data, sig)'
      <4>1. req[q].id \in DeviceIDs
        BY <3>4, CallFacts DEF LockInv, Locals, LocalsOf, SignsData
      <4> QED
        BY <2>1, <3>1, <3>2, <3>4, <4>1 DEF HasOne
    <3> QED
      BY <3>1, <3>2, <3>3, <3>4 DEF StoredOf, Stored, Answered
  <2>3. StoredOf(r)'
    <3>1. /\ pc'[r] = "commit"
          /\ UNCHANGED <<req[r], info[r], signature[r]>>
      BY <1>3 DEF StoreSignature, Goto, handlerVars, LockInv, TypeOK, HandlersTypeOK
    <3>2. SignsData(r) /\ SignsData(r)' /\ SecuredDataOf(r)' = SecuredDataOf(r)
      BY <1>3, <3>1 DEF StoreSignature, LockInv, Locals, LocalsOf, SignsData, SecuredDataOf
    <3>3. EntriesOf(r) = {}
      BY <1>3 DEF StoreSignature, StoredOf, Stored, Answered
    <3>4. HasOne(r, SecuredDataOf(r), Base64(signature[r]))'
      BY <2>1, <3>1, <3>2, <3>3 DEF HasOne
    <3> QED
      BY <3>1, <3>2, <3>4 DEF StoredOf, Stored, Answered
  <2> QED
    BY <1>0, <2>2, <2>3
<1>4. ASSUME NEW r \in Requests, Commit(r) \/ Rollback(r) \/ Deliver(r) PROVE StoredInv'
  <2>1. issued' = issued /\ req' = req /\ pc'[r] \in Answered
    BY <1>4 DEF Commit, Rollback, Deliver, Goto, handlerVars, LockInv, TypeOK,
       HandlersTypeOK, Answered
  <2>2. EntriesOf(r)' = EntriesOf(r) /\ SignsData(r)' = SignsData(r)
    BY <2>1 DEF EntriesOf, SignsData
  <2>3. \A data, sig : HasOne(r, data, sig)' <=> HasOne(r, data, sig)
    BY <2>1, <2>2 DEF HasOne
  <2>4. CASE Commit(r)
    <3>1. pc[r] = "commit" /\ resp'[r] = CommitResponse(r)
      BY <2>4 DEF Commit, Respond, LockInv, TypeOK, HandlersTypeOK
    <3>2. resp'[r].status = 201
      BY <3>1 DEF CommitResponse
    <3>3. SignsData(r) => /\ resp'[r].SignedData = SecuredDataOf(r)
                          /\ resp'[r].Signature = Base64(signature[r])
      BY <3>1 DEF CommitResponse, SignsData
    <3> QED
      BY <1>1, <2>1, <2>2, <2>3, <2>4, <3>1, <3>2, <3>3 DEF StoredOf, Stored, Answered
  <2>5. CASE Rollback(r) \/ Deliver(r)
    <3>1. resp' = resp /\ pc[r] \in {"rollback", "return"}
      BY <2>5 DEF Rollback, Deliver, handlerVars
    <3> QED
      BY <1>1, <2>1, <2>2, <2>3, <2>5, <3>1 DEF StoredOf, Stored, Answered
  <2> QED
    BY <1>4, <2>4, <2>5
<1>5. CASE UNCHANGED vars
  BY <1>0, <1>5, StoredFrame DEF vars
<1> QED
  BY <1>2, <1>3, <1>4, <1>5 DEF Next, HandlerStep, AllDone

\* An answer of 201 to a sign request stands for one stored signature, its own,
\* and any other answer for none.
THEOREM SignedExactlyOnce == Spec => []ExactlyOnce
<1>1. StoredInv => ExactlyOnce
  BY DEF StoredInv, StoredOf, Stored, HasOne, SignsData, ExactlyOnce
<1> QED
  BY <1>1, InitStoredInv, StoredInvStep, PTL DEF Spec
-----------------------------------------------------------------------------
\* A device that was read is some prefix of its chain, from the read on.
SnapshotOf(r) ==
  pc[r] \in Answered \cup {"rollback"} /\ req[r].op = "GetSignatureDevice"
    /\ resp[r].status = 200 =>
      LET shown == resp[r].item
      IN  /\ Found(shown.ID) /\ shown.ID = req[r].id
          /\ shown.PublicKeyPem = devices[shown.ID].PublicKeyPem
          /\ \E n \in 0 .. Len(issued[shown.ID]) :
               /\ shown.SignatureCounter = CounterAfter(shown.ID, n)
               /\ shown.LastSignature = LinkAfter(shown.ID, n)

SnapshotInv == ChainInv /\ \A r \in Requests : SnapshotOf(r)

LEMMA InitSnapshotInv == Init => SnapshotInv
BY InitChainInv DEF Init, SnapshotInv, SnapshotOf, Answered

\* A chain only grows at its end.
LEMMA PrefixKept ==
  ASSUME ChainInv, [Next]_vars, NEW id \in DeviceIDs, NEW n \in 0 .. Len(issued[id])
  PROVE  /\ n \in 0 .. Len(issued'[id])
         /\ CounterAfter(id, n)' = CounterAfter(id, n)
         /\ LinkAfter(id, n)' = LinkAfter(id, n)
<1>1. CASE issued' = issued
  BY <1>1 DEF CounterAfter, LinkAfter
<1>2. ASSUME NEW r \in Requests, StoreSignature(r)
      PROVE  \/ issued'[id] = issued[id]
             \/ \E e : issued'[id] = Append(issued[id], e)
  BY <1>2 DEF StoreSignature, ChainInv, LockInv, TypeOK, IssuedTypeOK
<1>3. CASE issued'[id] = issued[id]
  BY <1>3 DEF CounterAfter, LinkAfter
<1>4. CASE \E e : issued'[id] = Append(issued[id], e)
  <2>1. IsSequence(issued[id])
    BY DEF ChainInv, LockInv, TypeOK, IssuedTypeOK
  <2>2. /\ Len(issued[id]) \in Nat
        /\ Len(issued'[id]) = Len(issued[id]) + 1
        /\ \A i \in 1 .. Len(issued[id]) : issued'[id][i] = issued[id][i]
    BY <1>4, <2>1, SequenceFacts, AppendFacts
  <2>3. n = 0 \/ n \in 1 .. Len(issued[id])
    BY <2>2
  <2> QED
    BY <2>2, <2>3 DEF CounterAfter, LinkAfter
<1>5. ASSUME NEW r \in Requests,
             \/ Accept(r) \/ NotImplemented(r) \/ GenerateKeyPair(r) \/ BeginTx(r)
             \/ Create(r) \/ GetInfo(r) \/ SignData(r) \/ Read(r) \/ Commit(r)
             \/ Rollback(r) \/ Deliver(r)
      PROVE  issued' = issued
  BY <1>5 DEF Accept, NotImplemented, GenerateKeyPair, BeginTx, Create, GetInfo,
     SignData, Read, Commit, Rollback, Deliver
<1>6. CASE UNCHANGED vars
  BY <1>1, <1>6 DEF vars
<1> QED
  BY <1>1, <1>2, <1>3, <1>4, <1>5, <1>6 DEF Next, HandlerStep, AllDone

\* A request that moves on with the response it has keeps its snapshot.
LEMMA SnapshotFrame ==
  ASSUME ChainInv, [Next]_vars, NEW r \in Requests, SnapshotOf(r),
         UNCHANGED <<req[r], resp[r]>>,
         pc'[r] \in Answered \cup {"rollback"} => pc[r] \in Answered \cup {"rollback"}
  PROVE  SnapshotOf(r)'
<1> SUFFICES ASSUME pc'[r] \in Answered \cup {"rollback"},
                    req[r].op = "GetSignatureDevice", resp[r].status = 200
             PROVE  SnapshotOf(r)'
  BY DEF SnapshotOf, Answered
<1>1. PICK id : id = resp[r].item.ID
  OBVIOUS
<1>2. PICK n \in 0 .. Len(issued[id]) :
        /\ Found(id) /\ id = req[r].id
        /\ resp[r].item.PublicKeyPem = devices[id].PublicKeyPem
        /\ resp[r].item.SignatureCounter = CounterAfter(id, n)
        /\ resp[r].item.LastSignature = LinkAfter(id, n)
  BY <1>1 DEF SnapshotOf
<1>3. id \in DeviceIDs
  BY <1>2 DEF ChainInv, LockInv, TypeOK, StorageTypeOK, Found
<1>4. Found(id)' /\ devices'[id].PublicKeyPem = devices[id].PublicKeyPem
  BY <1>2, KeysKept
<1>5. /\ n \in 0 .. Len(issued'[id])
      /\ CounterAfter(id, n)' = CounterAfter(id, n)
      /\ LinkAfter(id, n)' = LinkAfter(id, n)
  BY <1>2, <1>3, PrefixKept
<1> QED
  BY <1>1, <1>2, <1>4, <1>5 DEF SnapshotOf

LEMMA SnapshotInvStep ==
  ASSUME SnapshotInv, [Next]_vars
  PROVE  SnapshotInv'
<1> USE DEF SnapshotInv
<1>1. ChainInv'
  BY ChainInvStep
<1>2. ASSUME NEW r \in Requests,
             \/ Accept(r) \/ NotImplemented(r) \/ GenerateKeyPair(r) \/ BeginTx(r)
             \/ HandlerStep(r) \/ Deliver(r),
             SnapshotOf(r)'
      PROVE  SnapshotInv'
  <2>1. ASSUME NEW q \in Requests, q # r PROVE SnapshotOf(q)'
    <3>1. UNCHANGED <<pc[q], req[q], resp[q]>>
      BY <1>2, <2>1, OthersAlone DEF ChainInv
    <3> QED
      BY <3>1, SnapshotFrame
  <2> QED
    BY <1>1, <1>2, <2>1
<1>3. ASSUME NEW r \in Requests, Read(r) PROVE SnapshotOf(r)'
  <2>1. /\ pc'[r] = "rollback" /\ resp'[r] = ReadAnswer(req[r])
        /\ req' = req /\ devices' = devices /\ issued' = issued
    BY <1>3 DEF Read, Goto, Respond, storageVars, ChainInv, LockInv, TypeOK, HandlersTypeOK
  <2>2. SUFFICES ASSUME req[r].op = "GetSignatureDevice", Found(req[r].id)
                 PROVE  SnapshotOf(r)'
    <3>1. req[r].op = "GetSignatureDevice" /\ ~Found(req[r].id) => resp'[r].status = 404
      BY <2>1 DEF ReadAnswer
    <3> QED
      BY <2>1, <2>2, <3>1 DEF SnapshotOf
  <2>3. PICK id \in DeviceIDs : id = req[r].id
    BY <2>2 DEF ChainInv, LockInv, TypeOK, StorageTypeOK, Found
  <2>4. resp'[r].item = DeviceModel(devices[id])
    BY <2>1, <2>2, <2>3 DEF ReadAnswer
  <2>5. DeviceShape(devices[id], id)
    BY <2>2, <2>3 DEF ChainInv, LockInv, TypeOK, StorageTypeOK, Found
  <2>6. PICK n \in Nat : n = Len(issued[id])
    BY SequenceFacts DEF ChainInv, LockInv, TypeOK, IssuedTypeOK
  <2>7. /\ devices[id].SignatureCounter = CounterAfter(id, n)
        /\ devices[id].LastSignature = LinkAfter(id, n)
    BY <2>2, <2>3, <2>6 DEF ChainInv, ChainIntact
  <2>8. /\ CounterAfter(id, n)' = CounterAfter(id, n)
        /\ LinkAfter(id, n)' = LinkAfter(id, n)
        /\ Found(id)' = Found(id)
    BY <2>1 DEF CounterAfter, LinkAfter, Found
  <2>9. n \in 0 .. Len(issued'[id])
    BY <2>1, <2>6
  <2>10. /\ resp'[r].item.ID = id
         /\ resp'[r].item.PublicKeyPem = devices'[id].PublicKeyPem
         /\ resp'[r].item.SignatureCounter = CounterAfter(id, n)'
         /\ resp'[r].item.LastSignature = LinkAfter(id, n)'
    BY <2>1, <2>4, <2>5, <2>7, <2>8 DEF DeviceModel, DeviceShape
  <2> QED
    BY <2>1, <2>2, <2>3, <2>8, <2>9, <2>10 DEF SnapshotOf
<1>4. ASSUME NEW r \in Requests,
             \/ Accept(r) \/ NotImplemented(r) \/ GenerateKeyPair(r) \/ BeginTx(r)
             \/ Create(r) \/ GetInfo(r) \/ SignData(r) \/ StoreSignature(r)
             \/ Commit(r)
      PROVE  SnapshotOf(r)'
  <2>1. CASE Accept(r) \/ NotImplemented(r) \/ BeginTx(r) \/ StoreSignature(r)
    <3>1. \/ pc'[r] \in {"generate", "begin", "create", "getInfo", "read", "commit"}
          \/ resp'[r].status = 501
      BY <2>1 DEF Accept, NotImplemented, BeginTx, FirstStep, StoreSignature, Goto,
         Respond, ChainInv, LockInv, TypeOK, HandlersTypeOK
    <3> QED
      BY <3>1 DEF SnapshotOf, Answered
  <2>2. CASE GenerateKeyPair(r) \/ Create(r) \/ GetInfo(r) \/ SignData(r) \/ Commit(r)
    <3>1. req' = req /\ (CreatesDevice(r) \/ SignsData(r))
      BY <2>2 DEF GenerateKeyPair, Create, GetInfo, SignData, Commit, ChainInv,
         LockInv, Locals, LocalsOf
    <3> QED
      BY <3>1 DEF SnapshotOf, CreatesDevice, SignsData
  <2> QED
    BY <1>4, <2>1, <2>2
<1>5. ASSUME NEW r \in Requests, Rollback(r) \/ Deliver(r) PROVE SnapshotOf(r)'
  <2>1. UNCHANGED <<req[r], resp[r]>> /\ pc[r] \in Answered \cup {"rollback"}
    BY <1>5 DEF Rollback, Deliver, handlerVars, Answered
  <2> QED
    BY <2>1, SnapshotFrame
<1>6. CASE UNCHANGED vars
  <2>1. ASSUME NEW r \in Requests PROVE SnapshotOf(r)'
    BY <1>6, SnapshotFrame DEF vars
  <2> QED
    BY <1>1, <2>1
<1> QED
  BY <1>2, <1>3, <1>4, <1>5, <1>6 DEF Next, HandlerStep, AllDone

\* A client is never shown a counter and a last signature that did not belong
\* together, nor another key than the device's.
THEOREM DevicesReadWhole == Spec => []ReadsAreSnapshots
<1>1. SnapshotInv => ReadsAreSnapshots
  BY DEF SnapshotInv, SnapshotOf, ReadsAreSnapshots
<1> QED
  BY <1>1, InitSnapshotInv, SnapshotInvStep, PTL DEF Spec
-----------------------------------------------------------------------------
\* What makes DocumentedStatus inductive: a handler that leaves with Rollback has
\* its answer already, and only the default handler answers for an operation
\* that Run left unassigned.
DocumentedOf(r) ==
  pc[r] \in {"rollback"} \cup Answered /\ req[r].op \in Wired =>
    resp[r].status \in Documented(req[r].op)

DocumentedInv == LockInv /\ \A r \in Requests : DocumentedOf(r)

LEMMA InitDocumentedInv == Init => DocumentedInv
BY InitLockInv DEF Init, DocumentedInv, DocumentedOf, Answered

LEMMA ReadIsDocumented ==
  ASSUME LockInv, NEW r \in Requests, pc[r] = "read"
  PROVE  ReadAnswer(req[r]).status \in Documented(req[r].op)
<1>1. req[r] \in Calls /\ ~CreatesDevice(r) /\ ~SignsData(r)
  BY DEF LockInv, Locals, LocalsOf
<1>2. req[r].op \in {"GetSignatureDevice", "ListSignatureDevices",
                     "ListDeviceSignatures", "GetDeviceSignature"}
  BY <1>1, CallsAssumption DEF AllCalls, CreatesDevice, SignsData
<1>3. \A id, sigID : SignatureAnswer(id, sigID).status \in {200, 404}
  BY DEF SignatureAnswer
<1> QED
  BY <1>2, <1>3 DEF ReadAnswer, Documented

LEMMA DocumentedStep ==
  ASSUME LockInv, NEW r \in Requests, DocumentedOf(r),
         \/ Accept(r) \/ NotImplemented(r) \/ BeginTx(r)
         \/ HandlerStep(r) \/ Deliver(r)
  PROVE  DocumentedOf(r)'
<1> USE DEF LockInv, TypeOK, HandlersTypeOK, Goto, Respond, DocumentedOf, Answered
<1>1. CASE Accept(r) \/ NotImplemented(r) \/ BeginTx(r) \/ Deliver(r)
  BY <1>1 DEF Accept, NotImplemented, BeginTx, FirstStep, Deliver, handlerVars
<1>2. CASE GenerateKeyPair(r) \/ Create(r)
  BY <1>2 DEF GenerateKeyPair, Create, Locals, LocalsOf, CreatesDevice, FailureStatus, Documented
<1>3. CASE GetInfo(r) \/ SignData(r) \/ StoreSignature(r)
  BY <1>3 DEF GetInfo, SignData, StoreSignature, Locals, LocalsOf, SignsData, FailureStatus,
     Documented, handlerVars
<1>4. CASE Read(r)
  BY <1>4, ReadIsDocumented DEF Read
<1>5. CASE Commit(r)
  BY <1>5 DEF Commit, CommitResponse, Locals, LocalsOf, CreatesDevice, SignsData, Documented
<1>6. CASE Rollback(r)
  BY <1>6 DEF Rollback
<1> QED
  BY <1>1, <1>2, <1>3, <1>4, <1>5, <1>6 DEF HandlerStep

LEMMA DocumentedInvStep == DocumentedInv /\ [Next]_vars => DocumentedInv'
<1> SUFFICES ASSUME DocumentedInv, [Next]_vars PROVE DocumentedInv'
  OBVIOUS
<1>1. LockInv'
  BY LockInvStep DEF DocumentedInv
<1>2. ASSUME NEW r \in Requests,
             \/ Accept(r) \/ NotImplemented(r) \/ BeginTx(r)
             \/ HandlerStep(r) \/ Deliver(r),
             NEW q \in Requests
      PROVE  DocumentedOf(q)'
  <2>1. CASE q = r
    BY <1>2, <2>1, DocumentedStep DEF DocumentedInv
  <2>2. CASE q # r
    <3>1. UNCHANGED <<pc[q], req[q], resp[q]>>
      BY <1>2, <2>2, OthersAlone DEF DocumentedInv
    <3> QED
      BY <3>1 DEF DocumentedInv, DocumentedOf
  <2> QED
    BY <2>1, <2>2
<1>3. ASSUME UNCHANGED vars PROVE DocumentedInv'
  BY <1>1, <1>3 DEF vars, DocumentedInv, DocumentedOf
<1> QED
  BY <1>1, <1>2, <1>3 DEF Next, AllDone, DocumentedInv

\* With a handler assigned to every operation that is called, every answer has a
\* status that the OpenAPI document lists; it is only the operation Run forgets
\* that as_wired can show otherwise.
THEOREM StatusesAreDocumented ==
  ASSUME \A call \in Calls : call.op \in Wired
  PROVE  Spec => []DocumentedStatus
<1>1. DocumentedInv => DocumentedStatus
  BY DEF DocumentedInv, DocumentedOf, DocumentedStatus, LockInv, Locals, LocalsOf, Answered
<1> QED
  BY <1>1, InitDocumentedInv, DocumentedInvStep, PTL DEF Spec
=============================================================================
