----------------------- MODULE SignatureServiceProofs -----------------------
(*****************************************************************************)
(* Type correctness of SignatureService and the discipline of its lock.  The *)
(* invariant is LockInv: the shape of the state, the lock held exactly inside a *)
(* transaction, every handler standing where its operation takes it, and the *)
(* snapshot of a sign request current; none of the four is inductive alone.  *)
(*****************************************************************************)
EXTENDS SignatureService, TLAPS

-----------------------------------------------------------------------------
\* A handler only stands where its operation takes it, with its request bound
\* and, between key generation and commit, its key at hand.
CreatesDevice(r) == req[r].op = "CreateSignatureDevice"
SignsData(r) == req[r].op = "SignTransaction"

LocalsOf(r) ==
  /\ pc[r] # "idle" => req[r] \in Calls
  /\ pc[r] \in {"generate", "create"} => CreatesDevice(r)
  /\ pc[r] \in {"getInfo", "sign", "addSignature"} => SignsData(r)
  /\ pc[r] = "read" => ~CreatesDevice(r) /\ ~SignsData(r)
  /\ pc[r] = "commit" => CreatesDevice(r) \/ SignsData(r)
  /\ pc[r] \in {"begin", "create", "commit"} /\ CreatesDevice(r) =>
       keyPair[r] = NewKey(req[r].alg, r)

Locals == \A r \in Requests : LocalsOf(r)

LockInv == TypeOK /\ LockDiscipline /\ Locals /\ FreshInfo
-----------------------------------------------------------------------------

LEMMA SequenceFacts ==
  ASSUME NEW s, IsSequence(s)
  PROVE  /\ Len(s) \in Nat
         /\ DOMAIN s = 1 .. Len(s)
BY DEF IsSequence

LEMMA EmptyIsSequence == IsSequence(<< >>)
BY DEF IsSequence

LEMMA AppendFacts ==
  ASSUME NEW s, NEW e, IsSequence(s)
  PROVE  /\ IsSequence(Append(s, e))
         /\ Len(Append(s, e)) = Len(s) + 1
         /\ Append(s, e)[Len(s) + 1] = e
         /\ \A i \in 1 .. Len(s) : Append(s, e)[i] = s[i]
<1> DEFINE S == {s[i] : i \in DOMAIN s} \cup {e}
           t == Append(s, e)
<1>1. s \in Seq(S)
  BY DEF IsSequence
<1>2. /\ t \in Seq(S)
      /\ Len(t) = Len(s) + 1
      /\ t[Len(s) + 1] = e
      /\ \A i \in 1 .. Len(s) : t[i] = s[i]
  BY <1>1
<1>3. t \in Seq({t[i] : i \in DOMAIN t})
  BY <1>2
<1> QED
  BY <1>2, <1>3 DEF IsSequence
-----------------------------------------------------------------------------
LEMMA CallFacts ==
  ASSUME NEW c, c \in Calls
  PROVE  /\ c.op = "CreateSignatureDevice" => c.id \in DeviceIDs /\ c.alg \in Algorithms
         /\ c.op = "SignTransaction" => c.id \in DeviceIDs /\ c.data \in Data
BY CallsAssumption DEF AllCalls

LEMMA Inc64Type == ASSUME NEW n \in Int64 PROVE Inc64(n) \in Int64
BY MaxInt64Assumption DEF Int64, Inc64

LEMMA InitLockInv == Init => LockInv
<1> SUFFICES ASSUME Init PROVE LockInv
  OBVIOUS
<1>1. TypeOK
  BY EmptyIsSequence
  DEF Init, NewStorage, EmptyMap, TypeOK, StorageTypeOK, HandlersTypeOK,
      IssuedTypeOK, Labels
<1>2. LockDiscipline
  BY NoneAssumption DEF Init, NewStorage, LockDiscipline, Critical
<1>3. Locals
  BY DEF Init, Locals, LocalsOf
<1>4. FreshInfo
  BY DEF Init, FreshInfo
<1> QED
  BY <1>1, <1>2, <1>3, <1>4 DEF LockInv

LEMMA LockInvStep ==
  ASSUME LockInv, [Next]_vars
  PROVE  LockInv'
<1> USE DEF LockInv
<1>1. ASSUME NEW r \in Requests, Accept(r) PROVE LockInv'
  <2>1. TypeOK'
    BY <1>1 DEF Accept, TypeOK, StorageTypeOK, HandlersTypeOK, IssuedTypeOK, Goto, Respond,
      Labels, Critical, storageVars, handlerVars
  <2>2. LockDiscipline'
    BY <1>1, NoneAssumption DEF Accept, TypeOK, StorageTypeOK, HandlersTypeOK, IssuedTypeOK, Goto,
      LockDiscipline, Critical, storageVars
  <2>3. Locals'
    BY <1>1 DEF Accept, TypeOK, StorageTypeOK, HandlersTypeOK, IssuedTypeOK, Goto,
      Locals, LocalsOf, CreatesDevice, SignsData, handlerVars
  <2>4. FreshInfo'
    BY <1>1 DEF Accept, storageVars, TypeOK, HandlersTypeOK, Goto, FreshInfo, LockDiscipline,
      Critical, Found, DeviceInfo
  <2> QED
    BY <2>1, <2>2, <2>3, <2>4
<1>2. ASSUME NEW r \in Requests, NotImplemented(r) PROVE LockInv'
  <2>1. TypeOK'
    <3>1. StorageTypeOK' /\ IssuedTypeOK'
      BY <1>2 DEF NotImplemented, TypeOK, StorageTypeOK, IssuedTypeOK, storageVars
    <3>2. pc' \in [Requests -> Labels] /\ req' \in [Requests -> Calls \cup {None}]
      BY <1>2 DEF NotImplemented, TypeOK, HandlersTypeOK, Goto, Labels
    <3>3. resp' = [q \in Requests |-> resp'[q]]
      BY <1>2 DEF NotImplemented, TypeOK, HandlersTypeOK, Respond
    <3> QED
      BY <1>2, <3>1, <3>2, <3>3 DEF NotImplemented, TypeOK, HandlersTypeOK
  <2>2. LockDiscipline'
    BY <1>2, NoneAssumption DEF NotImplemented, TypeOK, StorageTypeOK, HandlersTypeOK, IssuedTypeOK, Goto,
      LockDiscipline, Critical, storageVars
  <2>3. Locals'
    BY <1>2 DEF NotImplemented, TypeOK, StorageTypeOK, HandlersTypeOK, IssuedTypeOK, Goto,
      Locals, LocalsOf, CreatesDevice, SignsData, handlerVars
  <2>4. FreshInfo'
    BY <1>2 DEF NotImplemented, storageVars, TypeOK, HandlersTypeOK, Goto, FreshInfo, LockDiscipline,
      Critical, Found, DeviceInfo
  <2> QED
    BY <2>1, <2>2, <2>3, <2>4
<1>3. ASSUME NEW r \in Requests, GenerateKeyPair(r) PROVE LockInv'
  <2>1. TypeOK'
    <3>1. StorageTypeOK' /\ IssuedTypeOK'
      BY <1>3 DEF GenerateKeyPair, TypeOK, StorageTypeOK, IssuedTypeOK, storageVars
    <3>2. NewKey(req[r].alg, r) \in Keys
      BY <1>3, CallFacts DEF GenerateKeyPair, Locals, LocalsOf, CreatesDevice, NewKey, Keys
    <3>3. pc' \in [Requests -> Labels] /\ keyPair' \in [Requests -> Keys \cup {None}]
      BY <1>3, <3>2 DEF GenerateKeyPair, TypeOK, HandlersTypeOK, Goto, Labels
    <3>4. resp' = [q \in Requests |-> resp'[q]]
      BY <1>3 DEF GenerateKeyPair, TypeOK, HandlersTypeOK, Respond
    <3> QED
      BY <1>3, <3>1, <3>3, <3>4 DEF GenerateKeyPair, TypeOK, HandlersTypeOK
  <2>2. LockDiscipline'
    BY <1>3, NoneAssumption DEF GenerateKeyPair, TypeOK, StorageTypeOK, HandlersTypeOK, IssuedTypeOK, Goto,
      LockDiscipline, Critical, storageVars
  <2>3. Locals'
    BY <1>3 DEF GenerateKeyPair, TypeOK, StorageTypeOK, HandlersTypeOK, IssuedTypeOK, Goto,
      Locals, LocalsOf, CreatesDevice, SignsData, handlerVars
  <2>4. FreshInfo'
    BY <1>3 DEF GenerateKeyPair, storageVars, TypeOK, HandlersTypeOK, Goto, FreshInfo, LockDiscipline,
      Critical, Found, DeviceInfo
  <2> QED
    BY <2>1, <2>2, <2>3, <2>4
<1>4. ASSUME NEW r \in Requests, BeginTx(r) PROVE LockInv'
  <2>1. TypeOK'
    BY <1>4 DEF BeginTx, Lock, FirstStep, TypeOK, StorageTypeOK, HandlersTypeOK, IssuedTypeOK, Goto, Respond,
      Labels, Critical, storageVars, handlerVars
  <2>2. LockDiscipline'
    BY <1>4, NoneAssumption DEF BeginTx, Lock, FirstStep, TypeOK, StorageTypeOK, HandlersTypeOK, IssuedTypeOK, Goto,
      LockDiscipline, Critical, storageVars
  <2>3. Locals'
    BY <1>4 DEF BeginTx, Lock, FirstStep, TypeOK, StorageTypeOK, HandlersTypeOK, IssuedTypeOK, Goto,
      Locals, LocalsOf, CreatesDevice, SignsData, handlerVars
  <2>4. FreshInfo'
    BY <1>4 DEF BeginTx, Lock, FirstStep, handlerVars, TypeOK, HandlersTypeOK, Goto, FreshInfo, LockDiscipline,
      Critical, Found, DeviceInfo
  <2> QED
    BY <2>1, <2>2, <2>3, <2>4
<1>5. ASSUME NEW r \in Requests, Create(r) PROVE LockInv'
  <2>1. TypeOK'
    <3>1. req[r] \in Calls /\ req[r].id \in DeviceIDs /\ keyPair[r] \in Keys
      <4>1. req[r] \in Calls /\ CreatesDevice(r) /\ keyPair[r] = NewKey(req[r].alg, r)
        BY <1>5 DEF Create, Locals, LocalsOf
      <4> QED
        BY <4>1, CallFacts DEF CreatesDevice, NewKey, Keys
    <3>2. StorageTypeOK'
      <4>1. CASE UNCHANGED devices
        BY <1>5, <4>1 DEF Create, TypeOK, StorageTypeOK
      <4>2. CASE CreateNewSignatureDevice(req[r].id, req[r].alg, keyPair[r])
        <5> DEFINE new == devices'[req[r].id]
        <5>1. /\ DOMAIN devices' = DOMAIN devices \cup {req[r].id}
              /\ devices' = [id \in DOMAIN devices' |-> devices'[id]]
              /\ \A id \in DOMAIN devices \ {req[r].id} : devices'[id] = devices[id]
          BY <4>2 DEF CreateNewSignatureDevice, MapPut
        <5>2. DeviceShape(new, req[r].id)
          BY <4>2, <3>1, MaxInt64Assumption
          DEF CreateNewSignatureDevice, MapPut, DeviceShape, DeviceFields, Int64
        <5> QED
          BY <1>5, <3>1, <5>1, <5>2 DEF Create, TypeOK, StorageTypeOK
      <4> QED
        BY <1>5, <4>1, <4>2 DEF Create
    <3>3. HandlersTypeOK'
      BY <1>5 DEF Create, TypeOK, HandlersTypeOK, Goto, Respond, Labels, Critical
    <3> QED
      BY <1>5, <3>2, <3>3 DEF Create, TypeOK, IssuedTypeOK
  <2>2. LockDiscipline'
    BY <1>5, NoneAssumption DEF Create, CreateNewSignatureDevice, Found, MapPut, TypeOK, StorageTypeOK, HandlersTypeOK, IssuedTypeOK, Goto,
      LockDiscipline, Critical, storageVars
  <2>3. Locals'
    BY <1>5 DEF Create, CreateNewSignatureDevice, Found, MapPut, TypeOK, StorageTypeOK, HandlersTypeOK, IssuedTypeOK, Goto,
      Locals, LocalsOf, CreatesDevice, SignsData, handlerVars
  <2>4. FreshInfo'
    BY <1>5 DEF Create, CreateNewSignatureDevice, MapPut, TypeOK, HandlersTypeOK, Goto, FreshInfo, LockDiscipline,
      Critical, Found, DeviceInfo
  <2> QED
    BY <2>1, <2>2, <2>3, <2>4
<1>6. ASSUME NEW r \in Requests, GetInfo(r) PROVE LockInv'
  <2>1. TypeOK'
    BY <1>6 DEF GetInfo, Found, TypeOK, StorageTypeOK, HandlersTypeOK, IssuedTypeOK, Goto, Respond,
      Labels, Critical, storageVars, handlerVars
  <2>2. LockDiscipline'
    BY <1>6, NoneAssumption DEF GetInfo, Found, TypeOK, StorageTypeOK, HandlersTypeOK, IssuedTypeOK, Goto,
      LockDiscipline, Critical, storageVars
  <2>3. Locals'
    BY <1>6 DEF GetInfo, Found, TypeOK, StorageTypeOK, HandlersTypeOK, IssuedTypeOK, Goto,
      Locals, LocalsOf, CreatesDevice, SignsData, handlerVars
  <2>4. FreshInfo'
    BY <1>6 DEF GetInfo, storageVars, TypeOK, HandlersTypeOK, Goto, FreshInfo, LockDiscipline,
      Critical, Found, DeviceInfo
  <2> QED
    BY <2>1, <2>2, <2>3, <2>4
<1>7. ASSUME NEW r \in Requests, SignData(r) PROVE LockInv'
  <2>1. TypeOK'
    BY <1>7 DEF SignData, TypeOK, StorageTypeOK, HandlersTypeOK, IssuedTypeOK, Goto, Respond,
      Labels, Critical, storageVars, handlerVars
  <2>2. LockDiscipline'
    BY <1>7, NoneAssumption DEF SignData, TypeOK, StorageTypeOK, HandlersTypeOK, IssuedTypeOK, Goto,
      LockDiscipline, Critical, storageVars
  <2>3. Locals'
    BY <1>7 DEF SignData, TypeOK, StorageTypeOK, HandlersTypeOK, IssuedTypeOK, Goto,
      Locals, LocalsOf, CreatesDevice, SignsData, handlerVars
  <2>4. FreshInfo'
    BY <1>7 DEF SignData, storageVars, TypeOK, HandlersTypeOK, Goto, FreshInfo, LockDiscipline,
      Critical, Found, DeviceInfo
  <2> QED
    BY <2>1, <2>2, <2>3, <2>4
<1>8. ASSUME NEW r \in Requests, StoreSignature(r) PROVE LockInv'
  <2>1. TypeOK'
    <3> DEFINE id == req[r].id
               sig == Base64(signature[r])
    <3>1. req[r] \in Calls /\ id \in DeviceIDs
      BY <1>8, CallFacts DEF StoreSignature, Locals, LocalsOf, SignsData
    <3>2. StorageTypeOK'
      <4> DEFINE dev == IF Found(id) THEN devices[id] ELSE ZeroDevice
                 new == [dev EXCEPT !.SignatureCounter = Inc64(@), !.LastSignature = sig]
      <4>1. Found(id)
        BY <1>8 DEF StoreSignature, FreshInfo
      <4>2. devices' = MapPut(devices, id, new)
        BY <1>8 DEF StoreSignature, AddSignature
      <4>3. DeviceShape(new, id)
        <5>1. DeviceShape(devices[id], id)
          BY <4>1 DEF TypeOK, StorageTypeOK, Found
        <5> QED
          BY <4>1, <5>1, Inc64Type DEF DeviceShape, DeviceFields
      <4> HIDE DEF new
      <4> QED
        BY <1>8, <3>1, <4>2, <4>3 DEF StoreSignature, MapPut, TypeOK, StorageTypeOK
    <3>3. IssuedTypeOK'
      BY <1>8, <3>1, AppendFacts DEF StoreSignature, TypeOK, IssuedTypeOK
    <3>4. HandlersTypeOK'
      BY <1>8 DEF StoreSignature, TypeOK, HandlersTypeOK, Goto, Labels, Critical, handlerVars
    <3> QED
      BY <3>2, <3>3, <3>4 DEF TypeOK
  <2>2. LockDiscipline'
    BY <1>8, NoneAssumption DEF StoreSignature, AddSignature, Found, MapPut, TypeOK, StorageTypeOK, HandlersTypeOK, IssuedTypeOK, Goto,
      LockDiscipline, Critical, storageVars
  <2>3. Locals'
    BY <1>8 DEF StoreSignature, AddSignature, Found, MapPut, TypeOK, StorageTypeOK, HandlersTypeOK, IssuedTypeOK, Goto,
      Locals, LocalsOf, CreatesDevice, SignsData, handlerVars
  <2>4. FreshInfo'
    BY <1>8 DEF StoreSignature, AddSignature, MapPut, handlerVars, TypeOK, HandlersTypeOK, Goto, FreshInfo, LockDiscipline,
      Critical, Found, DeviceInfo
  <2> QED
    BY <2>1, <2>2, <2>3, <2>4
<1>9. ASSUME NEW r \in Requests, Read(r) PROVE LockInv'
  <2>1. TypeOK'
    BY <1>9 DEF Read, TypeOK, StorageTypeOK, HandlersTypeOK, IssuedTypeOK, Goto, Respond,
      Labels, Critical, storageVars, handlerVars
  <2>2. LockDiscipline'
    BY <1>9, NoneAssumption DEF Read, TypeOK, StorageTypeOK, HandlersTypeOK, IssuedTypeOK, Goto,
      LockDiscipline, Critical, storageVars
  <2>3. Locals'
    BY <1>9 DEF Read, TypeOK, StorageTypeOK, HandlersTypeOK, IssuedTypeOK, Goto,
      Locals, LocalsOf, CreatesDevice, SignsData, handlerVars
  <2>4. FreshInfo'
    BY <1>9 DEF Read, storageVars, TypeOK, HandlersTypeOK, Goto, FreshInfo, LockDiscipline,
      Critical, Found, DeviceInfo
  <2> QED
    BY <2>1, <2>2, <2>3, <2>4
<1>10. ASSUME NEW r \in Requests, Commit(r) PROVE LockInv'
  <2>1. TypeOK'
    BY <1>10 DEF Commit, Unlock, ForgetLocals, TypeOK, StorageTypeOK, HandlersTypeOK, IssuedTypeOK, Goto, Respond,
      Labels, Critical, storageVars, handlerVars
  <2>2. LockDiscipline'
    BY <1>10, NoneAssumption DEF Commit, Unlock, ForgetLocals, TypeOK, StorageTypeOK, HandlersTypeOK, IssuedTypeOK, Goto,
      LockDiscipline, Critical, storageVars
  <2>3. Locals'
    BY <1>10 DEF Commit, Unlock, ForgetLocals, TypeOK, StorageTypeOK, HandlersTypeOK, IssuedTypeOK, Goto,
      Locals, LocalsOf, CreatesDevice, SignsData, handlerVars
  <2>4. FreshInfo'
    BY <1>10 DEF Commit, Unlock, ForgetLocals, TypeOK, HandlersTypeOK, Goto, FreshInfo, LockDiscipline,
      Critical, Found, DeviceInfo
  <2> QED
    BY <2>1, <2>2, <2>3, <2>4
<1>11. ASSUME NEW r \in Requests, Rollback(r) PROVE LockInv'
  <2>1. TypeOK'
    BY <1>11 DEF Rollback, Unlock, ForgetLocals, TypeOK, StorageTypeOK, HandlersTypeOK, IssuedTypeOK, Goto, Respond,
      Labels, Critical, storageVars, handlerVars
  <2>2. LockDiscipline'
    BY <1>11, NoneAssumption DEF Rollback, Unlock, ForgetLocals, TypeOK, StorageTypeOK, HandlersTypeOK, IssuedTypeOK, Goto,
      LockDiscipline, Critical, storageVars
  <2>3. Locals'
    BY <1>11 DEF Rollback, Unlock, ForgetLocals, TypeOK, StorageTypeOK, HandlersTypeOK, IssuedTypeOK, Goto,
      Locals, LocalsOf, CreatesDevice, SignsData, handlerVars
  <2>4. FreshInfo'
    BY <1>11 DEF Rollback, Unlock, ForgetLocals, TypeOK, HandlersTypeOK, Goto, FreshInfo, LockDiscipline,
      Critical, Found, DeviceInfo
  <2> QED
    BY <2>1, <2>2, <2>3, <2>4
<1>12. ASSUME NEW r \in Requests, Deliver(r) PROVE LockInv'
  <2>1. TypeOK'
    BY <1>12 DEF Deliver, TypeOK, StorageTypeOK, HandlersTypeOK, IssuedTypeOK, Goto, Respond,
      Labels, Critical, storageVars, handlerVars
  <2>2. LockDiscipline'
    BY <1>12, NoneAssumption DEF Deliver, TypeOK, StorageTypeOK, HandlersTypeOK, IssuedTypeOK, Goto,
      LockDiscipline, Critical, storageVars
  <2>3. Locals'
    BY <1>12 DEF Deliver, TypeOK, StorageTypeOK, HandlersTypeOK, IssuedTypeOK, Goto,
      Locals, LocalsOf, CreatesDevice, SignsData, handlerVars
  <2>4. FreshInfo'
    BY <1>12 DEF Deliver, storageVars, handlerVars, TypeOK, HandlersTypeOK, Goto, FreshInfo, LockDiscipline,
      Critical, Found, DeviceInfo
  <2> QED
    BY <2>1, <2>2, <2>3, <2>4
<1>13. CASE UNCHANGED vars
  BY <1>13 DEF vars, TypeOK, StorageTypeOK, HandlersTypeOK, IssuedTypeOK,
    DeviceShape, LockDiscipline, Locals, LocalsOf, CreatesDevice, SignsData,
    FreshInfo, Found, DeviceInfo
<1> QED
  BY <1>1, <1>2, <1>3, <1>4, <1>5, <1>6, <1>7, <1>8, <1>9, <1>10, <1>11, <1>12,
     <1>13 DEF Next, HandlerStep, AllDone

\* Type correctness: whatever the interleaving of the handlers, the maps hold
\* well-formed devices under their own ids and every local keeps its shape.
THEOREM TypeCorrect == Spec => []TypeOK
<1>1. LockInv => TypeOK
  BY DEF LockInv
<1> QED
  BY <1>1, InitLockInv, LockInvStep, PTL DEF Spec

\* The mutex of the storage is held exactly by the request that is inside a
\* transaction: Tx is paired with one Commit or Rollback on every path.
THEOREM LockIsDisciplined == Spec => []LockDiscipline
<1>1. LockInv => LockDiscipline
  BY DEF LockInv
<1> QED
  BY <1>1, InitLockInv, LockInvStep, PTL DEF Spec

\* The device SignTransaction signs for does not change between the lookup and
\* AddSignature, which looks it up again.
THEOREM InfoStaysFresh == Spec => []FreshInfo
<1>1. LockInv => FreshInfo
  BY DEF LockInv
<1> QED
  BY <1>1, InitLockInv, LockInvStep, PTL DEF Spec
=============================================================================
