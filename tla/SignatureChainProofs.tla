------------------------ MODULE SignatureChainProofs ------------------------
(*****************************************************************************)
(* The state of the devices: their signatures form one chain, they are never *)
(* removed or rekeyed, and their counter counts modulo its width.            *)
(*****************************************************************************)
EXTENDS SignatureServiceProofs

-----------------------------------------------------------------------------
\* What makes the chain inductive: a device publishes the public half of the
\* key it signs with, and a computed signature is the one of its request.
KeysMatch ==
  \A id \in DOMAIN devices :
    devices[id].PublicKeyPem = PublicKeyPEM(devices[id].PrivateKey)

SignedRight ==
  \A r \in Requests : pc[r] = "addSignature" =>
    signature[r] = SignatureOf(info[r].PrivateKey, SecuredDataOf(r), r)

ChainInv == LockInv /\ KeysMatch /\ SignedRight /\ ChainIntact

LEMMA InitChainInv == Init => ChainInv
<1> SUFFICES ASSUME Init PROVE ChainInv
  OBVIOUS
<1>1. LockInv
  BY InitLockInv
<1>2. KeysMatch /\ SignedRight
  BY DEF Init, NewStorage, EmptyMap, KeysMatch, SignedRight
<1>3. ChainIntact
  BY DEF Init, NewStorage, EmptyMap, ChainIntact, Found
<1> QED
  BY <1>1, <1>2, <1>3 DEF ChainInv

\* A step that writes neither map nor history keeps everything said of them.
LEMMA ChainFrame ==
  ASSUME KeysMatch, ChainIntact, UNCHANGED <<devices, issued>>
  PROVE  KeysMatch' /\ ChainIntact'
BY DEF KeysMatch, ChainIntact, Found, CounterAfter, LinkAfter

LEMMA ChainInvStep ==
  ASSUME ChainInv, [Next]_vars
  PROVE  ChainInv'
<1> USE DEF ChainInv
<1>0. LockInv'
  BY LockInvStep
<1>1. ASSUME NEW r \in Requests, Create(r) PROVE ChainInv'
  <2>0. PICK id : id = req[r].id
    OBVIOUS
  <2>1. CASE UNCHANGED devices
    <3>1. SignedRight'
      BY <1>1 DEF Create, SignedRight, LockInv, TypeOK, HandlersTypeOK, Goto, SecuredDataOf
    <3> QED
      BY <1>0, <1>1, <2>1, <3>1, ChainFrame DEF Create
  <2>2. CASE ~Found(id) /\ CreateNewSignatureDevice(id, req[r].alg, keyPair[r])
    <3>1. /\ Found(id)'
          /\ devices'[id].PublicKeyPem = PublicKeyPEM(devices'[id].PrivateKey)
          /\ devices'[id].LastSignature = Base64(id)
          /\ devices'[id].SignatureCounter = 0
      BY <2>2 DEF CreateNewSignatureDevice, MapPut, Found
    <3>2. /\ DOMAIN devices' = DOMAIN devices \cup {id}
          /\ \A x \in DOMAIN devices : devices'[x] = devices[x]
      BY <2>2 DEF CreateNewSignatureDevice, MapPut, Found
    <3>3. issued' = issued
      BY <1>1 DEF Create
    <3>4. id \in DeviceIDs => issued[id] = << >>
      BY <2>2 DEF ChainIntact
    <3>5. KeysMatch'
      BY <3>1, <3>2 DEF KeysMatch
    <3>6. SignedRight'
      BY <1>1 DEF Create, SignedRight, LockInv, TypeOK, HandlersTypeOK, Goto, SecuredDataOf
    <3>7. ChainIntact'
      BY <3>1, <3>2, <3>3, <3>4 DEF ChainIntact, Found, CounterAfter, LinkAfter
    <3> QED
      BY <1>0, <3>5, <3>6, <3>7
  <2> QED
    BY <1>1, <2>0, <2>1, <2>2 DEF Create
<1>2. ASSUME NEW r \in Requests, SignData(r) PROVE ChainInv'
  <2>1. KeysMatch' /\ ChainIntact'
    BY <1>2, ChainFrame DEF SignData, storageVars
  <2>2. SignedRight'
    BY <1>2 DEF SignData, SignedRight, LockInv, TypeOK, HandlersTypeOK, Goto, SecuredDataOf
  <2> QED
    BY <1>0, <2>1, <2>2
<1>3. ASSUME NEW r \in Requests, StoreSignature(r) PROVE ChainInv'
  <2>0. PICK id \in DeviceIDs : id = req[r].id
    BY <1>3, CallFacts DEF StoreSignature, LockInv, Locals, LocalsOf, SignsData
  <2>00. PICK n \in Nat : n = Len(issued[id])
    BY <2>0, SequenceFacts DEF LockInv, TypeOK, IssuedTypeOK
  <2> DEFINE sig   == Base64(signature[r])
             entry == [by |-> r, signedData |-> SecuredDataOf(r), signature |-> sig]
  <2>1. /\ Found(id)
        /\ info[r] = DeviceInfo(id)
        /\ signature[r] = SignatureOf(info[r].PrivateKey, SecuredDataOf(r), r)
    BY <1>3, <2>0
    DEF StoreSignature, LockInv, Locals, LocalsOf, SignsData, FreshInfo, SignedRight
  <2>2. /\ DOMAIN devices' = DOMAIN devices
        /\ \A x \in DOMAIN devices \ {id} : devices'[x] = devices[x]
        /\ devices'[id].PrivateKey = devices[id].PrivateKey
        /\ devices'[id].PublicKeyPem = devices[id].PublicKeyPem
        /\ devices'[id].SignatureCounter = Inc64(devices[id].SignatureCounter)
        /\ devices'[id].LastSignature = sig
    BY <1>3, <2>0, <2>1, ZenonT(60)
    DEF StoreSignature, AddSignature, MapPut, Found, LockInv, TypeOK,
        StorageTypeOK, DeviceShape, DeviceFields
  <2>3. /\ \A x \in DeviceIDs \ {id} : issued'[x] = issued[x]
        /\ issued'[id] = Append(issued[id], entry)
    BY <1>3, <2>0, <2>1 DEF StoreSignature, LockInv, TypeOK, IssuedTypeOK
  <2>4. IsSequence(issued[id])
    BY <2>1 DEF LockInv, TypeOK, IssuedTypeOK
  <2> HIDE DEF sig, entry
  <2>5. /\ n \in Nat
        /\ DOMAIN issued[id] = 1 .. n
        /\ DOMAIN issued'[id] = 1 .. (n + 1)
        /\ Len(issued'[id]) = n + 1
        /\ issued'[id][n + 1] = entry
        /\ \A i \in 1 .. n : issued'[id][i] = issued[id][i]
    BY <2>00, <2>3, <2>4, SequenceFacts, AppendFacts
  <2>6. KeysMatch'
    BY <2>1, <2>2 DEF KeysMatch, Found
  <2>7. SignedRight'
    BY <1>3
    DEF StoreSignature, SignedRight, LockInv, TypeOK, HandlersTypeOK, Goto,
        SecuredDataOf, handlerVars
  <2>8. /\ entry.signedData.counter = CounterAfter(id, n)
        /\ entry.signedData.last = LinkAfter(id, n)
        /\ entry.signature = sig
        /\ Verifies(devices[id].PublicKeyPem, entry.signedData, sig.base64)
    BY <2>00, <2>1 DEF entry, sig, ChainIntact, SecuredDataOf, SecuredData, DeviceInfo,
       Verifies, SignatureOf, ECDSASign, RSASign, Base64, KeysMatch, Found
  <2>9. ASSUME NEW x \in DeviceIDs, x # id
        PROVE  /\ issued'[x] # << >> => Found(x)'
               /\ \A i \in DOMAIN issued'[x] :
                    /\ issued'[x][i].signedData.counter = CounterAfter(x, i - 1)'
                    /\ issued'[x][i].signedData.last = LinkAfter(x, i - 1)'
                    /\ Verifies(devices'[x].PublicKeyPem, issued'[x][i].signedData,
                                issued'[x][i].signature.base64)
               /\ Found(x)' =>
                    /\ devices'[x].SignatureCounter = CounterAfter(x, Len(issued[x]))'
                    /\ devices'[x].LastSignature = LinkAfter(x, Len(issued[x]))'
    <3>1. issued'[x] = issued[x]
      BY <2>3, <2>9
    <3>2. Found(x) => devices'[x] = devices[x]
      BY <2>2, <2>9 DEF Found
    <3>3. Found(x)' <=> Found(x)
      BY <2>2 DEF Found
    <3>4. \A i : CounterAfter(x, i)' = CounterAfter(x, i) /\ LinkAfter(x, i)' = LinkAfter(x, i)
      BY <3>1 DEF CounterAfter, LinkAfter
    <3>5. DOMAIN issued[x] # {} => Found(x)
      BY SequenceFacts DEF ChainIntact, LockInv, TypeOK, IssuedTypeOK
    <3> QED
      BY <3>1, <3>2, <3>3, <3>4, <3>5 DEF ChainIntact
  <2>10. ASSUME NEW i \in DOMAIN issued'[id]
         PROVE  /\ issued'[id][i].signedData.counter = CounterAfter(id, i - 1)'
                /\ issued'[id][i].signedData.last = LinkAfter(id, i - 1)'
                /\ Verifies(devices'[id].PublicKeyPem, issued'[id][i].signedData,
                            issued'[id][i].signature.base64)
    <3>1. \A k \in 0 .. n : /\ CounterAfter(id, k)' = CounterAfter(id, k)
                            /\ LinkAfter(id, k)' = LinkAfter(id, k)
      BY <2>5 DEF CounterAfter, LinkAfter
    <3>2. CASE i = n + 1
      <4>1. i - 1 = n /\ n \in 0 .. n
        BY <3>2
      <4>2. issued'[id][i] = entry
        BY <2>5, <3>2
      <4>3. /\ CounterAfter(id, i - 1)' = CounterAfter(id, n)
            /\ LinkAfter(id, i - 1)' = LinkAfter(id, n)
        BY <3>1, <4>1
      <4>4. Verifies(devices'[id].PublicKeyPem, entry.signedData, entry.signature.base64)
        BY <2>2, <2>8
      <4> QED
        BY <2>8, <4>2, <4>3, <4>4
    <3>3. CASE i \in 1 .. n
      <4>1. i - 1 \in 0 .. n
        BY <2>5, <3>3
      <4> QED
        BY <2>1, <2>2, <2>5, <3>1, <3>3, <4>1, SMTT(30) DEF ChainIntact
    <3> QED
      BY <2>5, <2>10, <3>2, <3>3
  <2>11. /\ devices'[id].SignatureCounter = CounterAfter(id, Len(issued[id]))'
         /\ devices'[id].LastSignature = LinkAfter(id, Len(issued[id]))'
    <3>1. /\ CounterAfter(id, n + 1)' = Inc64(entry.signedData.counter)
          /\ LinkAfter(id, n + 1)' = entry.signature
      BY <2>5 DEF CounterAfter, LinkAfter
    <3>2. devices[id].SignatureCounter = CounterAfter(id, n)
      BY <2>00, <2>1 DEF ChainIntact
    <3> QED
      BY <2>2, <2>5, <2>8, <3>1, <3>2
  <2>12. ChainIntact'
    BY <2>1, <2>2, <2>9, <2>10, <2>11 DEF ChainIntact, Found
  <2> QED
    BY <1>0, <2>6, <2>7, <2>12
<1>4. ASSUME NEW r \in Requests,
             \/ Accept(r) \/ NotImplemented(r) \/ GenerateKeyPair(r) \/ BeginTx(r)
             \/ GetInfo(r) \/ Read(r) \/ Commit(r) \/ Rollback(r) \/ Deliver(r)
      PROVE  ChainInv'
  <2>1. UNCHANGED <<devices, issued>>
    BY <1>4 DEF Accept, NotImplemented, GenerateKeyPair, BeginTx, GetInfo, Read,
       Commit, Rollback, Deliver, storageVars
  <2>2. \A q \in Requests : pc'[q] = "addSignature" =>
          /\ pc[q] = "addSignature"
          /\ UNCHANGED <<signature[q], info[q], req[q]>>
    BY <1>4
    DEF Accept, NotImplemented, GenerateKeyPair, BeginTx, FirstStep, GetInfo, Read,
        Commit, Rollback, Deliver, Goto, ForgetLocals, handlerVars, LockInv,
        TypeOK, HandlersTypeOK
  <2>3. SignedRight'
    BY <2>2 DEF SignedRight, SecuredDataOf
  <2> QED
    BY <1>0, <2>1, <2>3, ChainFrame
<1>5. CASE UNCHANGED vars
  BY <1>0, <1>5, ChainFrame DEF vars, SignedRight, SecuredDataOf
<1> QED
  BY <1>1, <1>2, <1>3, <1>4, <1>5 DEF Next, HandlerStep, AllDone

\* The signatures of a device form one chain under its public key.
THEOREM ChainStaysIntact == Spec => []ChainIntact
<1>1. ChainInv => ChainIntact
  BY DEF ChainInv
<1> QED
  BY <1>1, InitChainInv, ChainInvStep, PTL DEF Spec

LEMMA DeviceStepHolds ==
  ASSUME ChainInv, [Next]_vars
  PROVE  [\A id \in DOMAIN devices : DeviceStep(id)]_vars
<1> SUFFICES ASSUME NEW x \in DOMAIN devices, ~ UNCHANGED vars
             PROVE  DeviceStep(x)
  OBVIOUS
<1>1. CASE UNCHANGED devices
  BY <1>1 DEF DeviceStep, DeviceIdentity
<1>2. ASSUME NEW r \in Requests, Create(r) PROVE DeviceStep(x)
  <2>1. x \in DOMAIN devices' /\ devices'[x] = devices[x]
    BY <1>2 DEF Create, CreateNewSignatureDevice, MapPut, Found
  <2> QED
    BY <2>1 DEF DeviceStep, DeviceIdentity
<1>3. ASSUME NEW r \in Requests, StoreSignature(r) PROVE DeviceStep(x)
  <2>1. Found(req[r].id) /\ info[r] = DeviceInfo(req[r].id)
    BY <1>3 DEF StoreSignature, ChainInv, LockInv, FreshInfo
  <2>2. CASE x # req[r].id
    <3>1. x \in DOMAIN devices' /\ devices'[x] = devices[x]
      BY <1>3, <2>2 DEF StoreSignature, AddSignature, MapPut
    <3> QED
      BY <3>1 DEF DeviceStep, DeviceIdentity
  <2>3. CASE x = req[r].id
    <3>1. DeviceShape(devices[x], x)
      BY DEF ChainInv, LockInv, TypeOK, StorageTypeOK
    <3>2. /\ x \in DOMAIN devices'
          /\ devices'[x] = [devices[x] EXCEPT !.SignatureCounter = Inc64(@),
                                              !.LastSignature = Base64(signature[r])]
      BY <1>3, <2>1, <2>3 DEF StoreSignature, AddSignature, MapPut
    <3>3. /\ DeviceIdentity(devices'[x]) = DeviceIdentity(devices[x])
          /\ devices'[x].SignatureCounter = Inc64(devices[x].SignatureCounter)
          /\ devices'[x].LastSignature = Base64(signature[r])
      BY <3>1, <3>2 DEF DeviceShape, DeviceFields, DeviceIdentity
    <3>4. signature[r].message.last = devices[x].LastSignature
      <4>1. signature[r] = SignatureOf(info[r].PrivateKey, SecuredDataOf(r), r)
        BY <1>3 DEF StoreSignature, ChainInv, SignedRight
      <4>2. info[r].LastSignature = devices[x].LastSignature
        BY <2>1, <2>3 DEF DeviceInfo
      <4> QED
        BY <4>1, <4>2 DEF SignatureOf, ECDSASign, RSASign, SecuredDataOf, SecuredData
    <3> QED
      BY <3>2, <3>3, <3>4 DEF DeviceStep, Base64
  <2> QED
    BY <2>2, <2>3
<1>4. ASSUME NEW r \in Requests,
             \/ Accept(r) \/ NotImplemented(r) \/ GenerateKeyPair(r) \/ BeginTx(r)
             \/ GetInfo(r) \/ SignData(r) \/ Read(r) \/ Commit(r) \/ Rollback(r)
             \/ Deliver(r)
      PROVE  UNCHANGED devices
  BY <1>4 DEF Accept, NotImplemented, GenerateKeyPair, BeginTx, GetInfo, SignData,
     Read, Commit, Rollback, Deliver, storageVars
<1> QED
  BY <1>1, <1>2, <1>3, <1>4 DEF Next, HandlerStep, AllDone

\* A device is never removed nor rekeyed, and its counter and last signature
\* move together, the new signature over the old one.
THEOREM DevicesAreForever == Spec => DeviceHistory
BY InitChainInv, ChainInvStep, DeviceStepHolds, PTL DEF Spec, DeviceHistory
-----------------------------------------------------------------------------
\* The counter and the number of signatures differ by whole turns of the
\* counter: how many is what CounterCountsSignatures leaves open.
Turn == 2 * MaxInt64 + 2

TurnsOf(id) ==
  Found(id) =>
    \E k \in Int : Len(issued[id]) - devices[id].SignatureCounter = k * Turn

CountInv == ChainInv /\ \A id \in DeviceIDs : TurnsOf(id)

LEMMA TurnFacts == Turn \in Nat \ {0} /\ MaxInt64 \in Nat
BY MaxInt64Assumption DEF Turn

\* An increment goes one up, or back by what it and a turn differ.
LEMMA IncrementFacts ==
  ASSUME NEW n \in Int
  PROVE  /\ n # MaxInt64 => Inc64(n) = n + 1
         /\ n = MaxInt64 => Inc64(n) \in Int /\ n - Inc64(n) + 1 = Turn
BY TurnFacts DEF Inc64, Turn

\* Less than a turn is no turn.
LEMMA NoTurn ==
  ASSUME NEW k \in Int, NEW d \in Int, d = k * Turn, -Turn < d, d < Turn
  PROVE  d = 0
<1> DEFINE M == Turn
<1>1. M \in Nat \ {0} /\ d = k * M /\ -M < d /\ d < M
  BY TurnFacts
<1> HIDE DEF M
<1>2. CASE k = 0
  BY <1>1, <1>2
<1>3. CASE k >= 1
  <2>1. PICK j \in Nat : k = j + 1
    BY <1>3
  <2>2. j * M \in Nat /\ (j + 1) * M = j * M + M
    BY <1>1
  <2> QED
    BY <1>1, <2>1, <2>2
<1>4. CASE k <= -1
  <2>1. PICK j \in Nat : k = -(j + 1)
    BY <1>4
  <2>2. j * M \in Nat /\ (-(j + 1)) * M = -(j * M) - M
    BY <1>1
  <2> QED
    BY <1>1, <2>1, <2>2
<1> QED
  BY <1>2, <1>3, <1>4

LEMMA NextTurn == ASSUME NEW k \in Int PROVE k * Turn + Turn = (k + 1) * Turn
<1> DEFINE M == Turn
<1>1. M \in Nat
  BY TurnFacts
<1> HIDE DEF M
<1>2. k * M + M = (k + 1) * M
  BY <1>1
<1> QED
  BY <1>2 DEF M

LEMMA InitCountInv == Init => CountInv
BY InitChainInv DEF Init, NewStorage, EmptyMap, CountInv, TurnsOf, Found

LEMMA CountInvStep ==
  ASSUME CountInv, [Next]_vars
  PROVE  CountInv'
<1> USE DEF CountInv
<1>1. ChainInv'
  BY ChainInvStep
<1>2. CASE UNCHANGED <<devices, issued>>
  BY <1>1, <1>2 DEF TurnsOf, Found
<1>3. ASSUME NEW r \in Requests, Create(r), NEW x \in DeviceIDs PROVE TurnsOf(x)'
  <2>1. issued' = issued
    BY <1>3 DEF Create
  <2>2. CASE Found(x)
    <3>1. Found(x)' /\ devices'[x] = devices[x]
      BY <1>3, <2>2 DEF Create, CreateNewSignatureDevice, MapPut, Found
    <3> QED
      BY <2>1, <2>2, <3>1 DEF TurnsOf
  <2>3. CASE ~Found(x) /\ Found(x)'
    <3>1. devices'[x].SignatureCounter = 0
      BY <1>3, <2>3 DEF Create, CreateNewSignatureDevice, MapPut, Found
    <3>2. issued'[x] = << >>
      BY <2>1, <2>3 DEF ChainInv, ChainIntact
    <3>3. Len(issued'[x]) - devices'[x].SignatureCounter = 0 * Turn
      BY <3>1, <3>2, TurnFacts
    <3> QED
      BY <3>3 DEF TurnsOf
  <2> QED
    BY <2>2, <2>3 DEF TurnsOf
<1>4. ASSUME NEW r \in Requests, StoreSignature(r), NEW x \in DeviceIDs PROVE TurnsOf(x)'
  <2>1. Found(req[r].id) /\ req[r].id \in DeviceIDs
    BY <1>4, CallFacts DEF StoreSignature, ChainInv, LockInv, FreshInfo, Locals,
       LocalsOf, SignsData
  <2>2. CASE x # req[r].id
    <3>1. /\ Found(x)' <=> Found(x)
          /\ Found(x) => devices'[x] = devices[x]
      BY <1>4, <2>1, <2>2 DEF StoreSignature, AddSignature, MapPut, Found
    <3>2. issued'[x] = issued[x]
      BY <1>4, <2>1, <2>2 DEF StoreSignature, ChainInv, LockInv, TypeOK, IssuedTypeOK
    <3> QED
      BY <3>1, <3>2 DEF TurnsOf
  <2>3. CASE x = req[r].id
    <3>1. IsSequence(issued[x])
      BY DEF ChainInv, LockInv, TypeOK, IssuedTypeOK
    <3>2. Len(issued[x])' = Len(issued[x]) + 1 /\ Len(issued[x]) \in Nat
      <4>1. \E e : issued'[x] = Append(issued[x], e)
        BY <1>4, <2>3 DEF StoreSignature, ChainInv, LockInv, TypeOK, IssuedTypeOK
      <4> QED
        BY <3>1, <4>1, SequenceFacts, AppendFacts
    <3>3. DeviceShape(devices[x], x)
      BY <2>1, <2>3 DEF ChainInv, LockInv, TypeOK, StorageTypeOK, Found
    <3>4. devices'[x].SignatureCounter = Inc64(devices[x].SignatureCounter)
      BY <1>4, <2>1, <2>3, <3>3
      DEF StoreSignature, AddSignature, MapPut, Found, DeviceShape, DeviceFields
    <3>5. devices[x].SignatureCounter \in Int
      BY <3>3, TurnFacts DEF DeviceShape, Int64
    <3>6. PICK k \in Int : Len(issued[x]) - devices[x].SignatureCounter = k * Turn
      BY <2>1, <2>3 DEF TurnsOf
    <3>7. k * Turn \in Int /\ k * Turn + Turn = (k + 1) * Turn
      BY TurnFacts, NextTurn
    <3>8. PICK len \in Nat, old \in Int :
            /\ len = Len(issued[x]) /\ len + 1 = Len(issued[x])'
            /\ old = devices[x].SignatureCounter
      BY <3>2, <3>5
    <3>9. PICK new : new = devices'[x].SignatureCounter
      OBVIOUS
    <3>10. len - old = k * Turn /\ new = Inc64(old)
      BY <3>4, <3>6, <3>8, <3>9
    <3>11. CASE old # MaxInt64
      <4>1. new = old + 1
        BY <3>10, <3>11, IncrementFacts
      <4>2. (len + 1) - new = k * Turn
        BY <3>10, <4>1
      <4> QED
        BY <3>8, <3>9, <4>2 DEF TurnsOf
    <3>12. CASE old = MaxInt64
      <4>1. new \in Int /\ old - new + 1 = Turn
        BY <3>10, <3>12, IncrementFacts
      <4>2. (len + 1) - new = (len - old) + Turn
        BY <4>1
      <4>3. (len + 1) - new = (k + 1) * Turn
        BY <3>7, <3>10, <4>2
      <4>4. k + 1 \in Int
        OBVIOUS
      <4> QED
        BY <3>8, <3>9, <4>3, <4>4 DEF TurnsOf
    <3> QED
      BY <3>11, <3>12
  <2> QED
    BY <2>2, <2>3
<1>5. ASSUME NEW r \in Requests,
             \/ Accept(r) \/ NotImplemented(r) \/ GenerateKeyPair(r) \/ BeginTx(r)
             \/ GetInfo(r) \/ SignData(r) \/ Read(r) \/ Commit(r) \/ Rollback(r)
             \/ Deliver(r)
      PROVE  UNCHANGED <<devices, issued>>
  BY <1>5 DEF Accept, NotImplemented, GenerateKeyPair, BeginTx, GetInfo, SignData,
     Read, Commit, Rollback, Deliver, storageVars
<1>6. CASE UNCHANGED vars
  BY <1>2, <1>6 DEF vars
<1> QED
  BY <1>1, <1>2, <1>3, <1>4, <1>5, <1>6 DEF Next, HandlerStep, AllDone

\* signature_counter is the number of signatures as long as no device has more
\* of them than an int64 can count, and not a moment longer.
THEOREM CounterIsTheCount ==
  Spec => [](CounterCountsSignatures
               <=> \A id \in DOMAIN devices : Len(issued[id]) <= MaxInt64)
<1>1. CountInv => (CounterCountsSignatures
                     <=> \A id \in DOMAIN devices : Len(issued[id]) <= MaxInt64)
  <2> SUFFICES ASSUME CountInv, NEW id \in DOMAIN devices
               PROVE  devices[id].SignatureCounter = Len(issued[id])
                        <=> Len(issued[id]) <= MaxInt64
    BY DEF CounterCountsSignatures
  <2>1. id \in DeviceIDs
    BY DEF CountInv, ChainInv, LockInv, TypeOK, StorageTypeOK
  <2>2. PICK k \in Int : Len(issued[id]) - devices[id].SignatureCounter = k * Turn
    BY <2>1 DEF CountInv, TurnsOf, Found
  <2>3. Len(issued[id]) \in Nat
    BY <2>1, SequenceFacts DEF CountInv, ChainInv, LockInv, TypeOK, IssuedTypeOK
  <2>4. devices[id].SignatureCounter \in Int64
    BY DEF CountInv, ChainInv, LockInv, TypeOK, StorageTypeOK, DeviceShape
  <2>5. PICK len \in Nat, c \in Int64 :
          len = Len(issued[id]) /\ c = devices[id].SignatureCounter /\ len - c = k * Turn
    BY <2>2, <2>3, <2>4
  <2>6. c <= MaxInt64 /\ c >= -MaxInt64 - 1 /\ c \in Int
    BY TurnFacts DEF Int64
  <2>7. ASSUME len <= MaxInt64 PROVE c = len
    <3>1. -Turn < len - c /\ len - c < Turn /\ len - c \in Int
      BY <2>6, <2>7, TurnFacts DEF Turn
    <3>2. len - c = 0
      BY <2>5, <3>1, NoTurn
    <3> QED
      BY <2>6, <3>2
  <2> QED
    BY <2>5, <2>6, <2>7
<1> QED
  BY <1>1, InitCountInv, CountInvStep, PTL DEF Spec
=============================================================================
