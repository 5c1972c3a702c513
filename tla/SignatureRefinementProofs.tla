--------------------- MODULE SignatureRefinementProofs ----------------------
(*****************************************************************************)
(* The service implements the ledger, and so does each life of a server      *)
(* whose handlers may panic, as long as no counter wraps: the ledger counts  *)
(* signatures in the natural numbers, the code in an int64.                  *)
(*****************************************************************************)
EXTENDS SignatureServerRefinement, SignatureServerProofs

Shapes ==
  /\ pc = [r \in Requests |-> pc[r]]
  /\ req = [r \in Requests |-> req[r]]
  /\ keyPair = [r \in Requests |-> keyPair[r]]
  /\ info = [r \in Requests |-> info[r]]
  /\ signature = [r \in Requests |-> signature[r]]
  /\ resp = [r \in Requests |-> resp[r]]

\* A device and its page of the book: its counter is the number of its
\* signatures, its last signature the last of them.
PageOf(id) ==
  IF Found(id)
  THEN /\ devices[id].SignatureCounter = Len(issued[id])
       /\ devices[id].LastSignature = LinkAfter(id, Len(issued[id]))
  ELSE issued[id] = << >>

Pages ==
  /\ DOMAIN devices \subseteq DeviceIDs
  /\ \A id \in DOMAIN devices :
       /\ DOMAIN devices[id] = DeviceFields
       /\ devices[id].ID = id
       /\ devices[id].Algorithm = devices[id].PrivateKey.alg
  /\ issued = [id \in DeviceIDs |-> issued[id]]
  /\ \A id \in DeviceIDs : IsSequence(issued[id]) /\ PageOf(id)

\* What the mapping rests on.  Nothing here is about the lock: a transaction
\* that a panic cut off keeps it, and the ledger does not know.
BookInv == Shapes /\ Locals /\ FreshInfo /\ KeysMatch /\ SignedRight /\ Pages

LEMMA InitPages == Init => Pages
<1> SUFFICES ASSUME Init PROVE Pages
  OBVIOUS
<1>1. DOMAIN devices = {} /\ \A id \in DeviceIDs : issued[id] = << >>
  BY DEF Init, NewStorage, EmptyMap
<1>2. issued = [id \in DeviceIDs |-> issued[id]]
  BY DEF Init
<1> QED
  BY <1>1, <1>2, EmptyIsSequence DEF Pages, PageOf, Found

\* What Create adds to the map and to the book.
LEMMA CreateEffect ==
  ASSUME BookInv, NEW r \in Requests, pc[r] = "create", ~Found(req[r].id),
         CreateNewSignatureDevice(req[r].id, req[r].alg, keyPair[r])
  PROVE  /\ CreatesDevice(r) /\ req[r].id \in DeviceIDs
         /\ keyPair[r] = NewKey(req[r].alg, r)
         /\ issued[req[r].id] = << >>
         /\ DOMAIN devices' = DOMAIN devices \cup {req[r].id}
         /\ \A x \in DOMAIN devices : devices'[x] = devices[x]
         /\ DOMAIN devices'[req[r].id] = DeviceFields
         /\ devices'[req[r].id].ID = req[r].id
         /\ devices'[req[r].id].PrivateKey = keyPair[r]
         /\ devices'[req[r].id].Algorithm = req[r].alg
         /\ devices'[req[r].id].SignatureCounter = 0
         /\ devices'[req[r].id].LastSignature = Base64(req[r].id)
<1>1. /\ CreatesDevice(r) /\ req[r] \in Calls
      /\ keyPair[r] = NewKey(req[r].alg, r)
  BY DEF BookInv, Locals, LocalsOf
<1>2. req[r].id \in DeviceIDs
  BY <1>1, CallFacts DEF CreatesDevice
<1>3. issued[req[r].id] = << >>
  BY <1>2 DEF BookInv, Pages, PageOf
<1>4. /\ DOMAIN devices' = DOMAIN devices \cup {req[r].id}
      /\ \A x \in DOMAIN devices : devices'[x] = devices[x]
      /\ DOMAIN devices'[req[r].id] = DeviceFields
      /\ devices'[req[r].id].ID = req[r].id
      /\ devices'[req[r].id].PrivateKey = keyPair[r]
      /\ devices'[req[r].id].Algorithm = req[r].alg
      /\ devices'[req[r].id].SignatureCounter = 0
      /\ devices'[req[r].id].LastSignature = Base64(req[r].id)
  BY DEF CreateNewSignatureDevice, MapPut, Found, DeviceFields
<1> QED
  BY <1>1, <1>2, <1>3, <1>4

\* What request r is about to append to its device's signatures.
NewEntry(r) ==
  [by |-> r, signedData |-> SecuredDataOf(r), signature |-> Base64(signature[r])]

\* What StoreSignature changes in the map and in the history.
LEMMA StoreEffect ==
  ASSUME BookInv, NEW r \in Requests, StoreSignature(r)
  PROVE  /\ SignsData(r) /\ req[r].id \in DeviceIDs /\ Found(req[r].id)
         /\ info[r] = DeviceInfo(req[r].id)
         /\ signature[r] = SignatureOf(info[r].PrivateKey, SecuredDataOf(r), r)
         /\ DOMAIN devices' = DOMAIN devices
         /\ \A x \in DOMAIN devices : x # req[r].id => devices'[x] = devices[x]
         /\ DOMAIN devices'[req[r].id] = DeviceFields
         /\ devices'[req[r].id].ID = devices[req[r].id].ID
         /\ devices'[req[r].id].PrivateKey = devices[req[r].id].PrivateKey
         /\ devices'[req[r].id].Algorithm = devices[req[r].id].Algorithm
         /\ devices'[req[r].id].SignatureCounter =
              Inc64(devices[req[r].id].SignatureCounter)
         /\ devices'[req[r].id].LastSignature = Base64(signature[r])
         /\ \A x \in DeviceIDs : x # req[r].id => issued'[x] = issued[x]
         /\ issued' = [x \in DeviceIDs |-> issued'[x]]
         /\ issued'[req[r].id] = Append(issued[req[r].id], NewEntry(r))
<1>1. PICK id : id = req[r].id
  OBVIOUS
<1>2. /\ SignsData(r) /\ req[r] \in Calls
      /\ Found(id) /\ info[r] = DeviceInfo(id)
      /\ signature[r] = SignatureOf(info[r].PrivateKey, SecuredDataOf(r), r)
  BY <1>1 DEF StoreSignature, BookInv, Locals, LocalsOf, FreshInfo, SignedRight
<1>3. id \in DeviceIDs
  BY <1>1, <1>2, CallFacts DEF SignsData
<1>4. DOMAIN devices[id] = DeviceFields
  BY <1>2 DEF BookInv, Pages, Found
<1>5. /\ DOMAIN devices' = DOMAIN devices
      /\ \A x \in DOMAIN devices : x # id => devices'[x] = devices[x]
      /\ devices'[id] = [devices[id] EXCEPT !.SignatureCounter = Inc64(@),
                                            !.LastSignature = Base64(signature[r])]
  BY <1>1, <1>2 DEF StoreSignature, AddSignature, MapPut, Found
<1>6. /\ DOMAIN devices'[id] = DeviceFields
      /\ devices'[id].ID = devices[id].ID
      /\ devices'[id].PrivateKey = devices[id].PrivateKey
      /\ devices'[id].Algorithm = devices[id].Algorithm
      /\ devices'[id].SignatureCounter = Inc64(devices[id].SignatureCounter)
      /\ devices'[id].LastSignature = Base64(signature[r])
  BY <1>4, <1>5 DEF DeviceFields
<1>7. /\ \A x \in DeviceIDs : x # id => issued'[x] = issued[x]
      /\ issued' = [x \in DeviceIDs |-> issued'[x]]
      /\ issued'[id] = Append(issued[id], NewEntry(r))
  BY <1>1, <1>3 DEF StoreSignature, NewEntry, BookInv, Pages
<1> QED
  BY <1>1, <1>2, <1>3, <1>5, <1>6, <1>7

LEMMA OthersKeepBook ==
  ASSUME NEW r \in Requests,
         \/ Accept(r) \/ NotImplemented(r) \/ GenerateKeyPair(r) \/ BeginTx(r)
         \/ GetInfo(r) \/ SignData(r) \/ Read(r) \/ Commit(r) \/ Rollback(r) \/ Deliver(r)
  PROVE  UNCHANGED <<devices, issued>>
BY DEF Accept, NotImplemented, GenerateKeyPair, BeginTx, GetInfo, SignData, Read, Commit,
   Rollback, Deliver, storageVars

LEMMA PagesKept == ASSUME Pages, UNCHANGED <<devices, issued>> PROVE Pages'
BY DEF Pages, PageOf, Found, LinkAfter

\* Every step keeps the pages, the one that stores a signature below the wrap.
LEMMA PagesStep ==
  ASSUME BookInv, BelowWrap, NEW r \in Requests, ServiceStep(r)
  PROVE  Pages'
<1>0. Pages
  BY DEF BookInv
<1>1. CASE Create(r)
  <2>1. CASE UNCHANGED devices
    BY <1>0, <1>1, <2>1, PagesKept DEF Create
  <2>2. CASE /\ ~Found(req[r].id)
             /\ CreateNewSignatureDevice(req[r].id, req[r].alg, keyPair[r])
    <3>1. pc[r] = "create" /\ issued' = issued
      BY <1>1 DEF Create
    <3>2. PICK id \in DeviceIDs : id = req[r].id
      BY <2>2, <3>1, CreateEffect
    <3>3. /\ DOMAIN devices' = DOMAIN devices \cup {id}
          /\ \A x \in DOMAIN devices : devices'[x] = devices[x]
          /\ DOMAIN devices'[id] = DeviceFields /\ devices'[id].ID = id
          /\ devices'[id].PrivateKey = NewKey(req[r].alg, r)
          /\ devices'[id].Algorithm = req[r].alg
          /\ devices'[id].SignatureCounter = 0
          /\ devices'[id].LastSignature = Base64(id)
          /\ issued[id] = << >>
      BY <2>2, <3>1, <3>2, CreateEffect
    <3>4. devices'[id].Algorithm = devices'[id].PrivateKey.alg
      BY <3>3 DEF NewKey
    <3>5. PageOf(id)'
      BY <3>1, <3>3 DEF PageOf, LinkAfter
    <3>6. ASSUME NEW x \in DeviceIDs, x # id PROVE PageOf(x)'
      BY <1>0, <3>1, <3>3, <3>6 DEF Pages, PageOf, Found, LinkAfter
    <3> QED
      BY <1>0, <3>1, <3>2, <3>3, <3>4, <3>5, <3>6 DEF Pages
  <2> QED
    BY <1>1, <2>1, <2>2 DEF Create
<1>2. CASE StoreSignature(r)
  <2>1. PICK id \in DeviceIDs : id = req[r].id
    BY <1>2, StoreEffect
  <2>2. PICK e : e = NewEntry(r)
    OBVIOUS
  <2>3. /\ Found(id) /\ DOMAIN devices' = DOMAIN devices
        /\ \A x \in DOMAIN devices : x # id => devices'[x] = devices[x]
        /\ DOMAIN devices'[id] = DeviceFields
        /\ devices'[id].ID = devices[id].ID
        /\ devices'[id].PrivateKey = devices[id].PrivateKey
        /\ devices'[id].Algorithm = devices[id].Algorithm
        /\ devices'[id].SignatureCounter = Inc64(devices[id].SignatureCounter)
        /\ devices'[id].LastSignature = Base64(signature[r])
        /\ \A x \in DeviceIDs : x # id => issued'[x] = issued[x]
        /\ issued' = [x \in DeviceIDs |-> issued'[x]]
        /\ issued'[id] = Append(issued[id], e)
    BY <1>2, <2>1, <2>2, StoreEffect
  <2>4. e.signature = Base64(signature[r])
    BY <2>2 DEF NewEntry
  <2>5. IsSequence(issued[id]) /\ Len(issued[id]) \in Nat
    BY <1>0, SequenceFacts DEF Pages
  <2>6. /\ IsSequence(issued'[id])
        /\ Len(issued'[id]) = Len(issued[id]) + 1
        /\ issued'[id][Len(issued[id]) + 1] = e
    BY <2>3, <2>5, AppendFacts
  <2>7. devices'[id].SignatureCounter = Len(issued'[id])
    <3>1. devices[id].SignatureCounter # MaxInt64
      BY <1>2, <2>1 DEF StoreSignature, BelowWrap
    <3>2. devices[id].SignatureCounter = Len(issued[id])
      BY <1>0, <2>3 DEF Pages, PageOf
    <3> QED
      BY <2>3, <2>6, <3>1, <3>2 DEF Inc64
  <2>8. PageOf(id)'
    <3>1. Len(issued'[id]) # 0
      BY <2>5, <2>6
    <3> QED
      BY <2>3, <2>4, <2>6, <2>7, <3>1 DEF PageOf, LinkAfter, Found
  <2>9. ASSUME NEW x \in DeviceIDs, x # id PROVE IsSequence(issued'[x]) /\ PageOf(x)'
    BY <1>0, <2>3, <2>9 DEF Pages, PageOf, Found, LinkAfter
  <2>10. ASSUME NEW x \in DOMAIN devices'
         PROVE  /\ DOMAIN devices'[x] = DeviceFields
                /\ devices'[x].ID = x
                /\ devices'[x].Algorithm = devices'[x].PrivateKey.alg
    <3>1. CASE x = id
      BY <1>0, <2>3, <3>1 DEF Pages, Found
    <3>2. CASE x # id
      BY <1>0, <2>3, <3>2 DEF Pages
    <3> QED
      BY <3>1, <3>2
  <2>11. \A x \in DeviceIDs : IsSequence(issued'[x]) /\ PageOf(x)'
    BY <2>6, <2>8, <2>9
  <2> QED
    BY <1>0, <2>3, <2>10, <2>11 DEF Pages
<1> QED
  BY <1>0, <1>1, <1>2, PagesKept, OthersKeepBook DEF ServiceStep, HandlerStep
-----------------------------------------------------------------------------
(* The mapping: a step of the service, seen through it *)

Book == BookOfDevices
Phases == [r \in Requests |-> PhaseOf(r)]
Answers == [r \in Requests |-> AnswerOf(r)]

\* What a step of request r leaves alone of another.
Unmoved(q) ==
  /\ pc'[q] = pc[q] /\ req'[q] = req[q] /\ resp'[q] = resp[q]
  /\ keyPair'[q] = keyPair[q] /\ info'[q] = info[q] /\ signature'[q] = signature[q]
Alone(r) == \A q \in Requests : q # r => Unmoved(q)

LEMMA OthersUnmoved ==
  ASSUME Shapes, NEW r \in Requests, ServiceStep(r)
  PROVE  Alone(r)
<1> USE DEF Shapes, Alone, Unmoved, Goto, Respond
<1>1. CASE Accept(r)
  BY <1>1 DEF Accept
<1>2. CASE NotImplemented(r)
  BY <1>2 DEF NotImplemented
<1>3. CASE GenerateKeyPair(r)
  BY <1>3 DEF GenerateKeyPair
<1>4. CASE BeginTx(r)
  BY <1>4 DEF BeginTx, handlerVars
<1>5. CASE Create(r)
  BY <1>5 DEF Create
<1>6. CASE GetInfo(r)
  BY <1>6 DEF GetInfo
<1>7. CASE SignData(r)
  BY <1>7 DEF SignData
<1>8. CASE StoreSignature(r)
  BY <1>8 DEF StoreSignature, handlerVars
<1>9. CASE Read(r)
  BY <1>9 DEF Read
<1>10. CASE Commit(r)
  BY <1>10 DEF Commit, ForgetLocals
<1>11. CASE Rollback(r)
  BY <1>11 DEF Rollback, ForgetLocals
<1>12. CASE Deliver(r)
  BY <1>12 DEF Deliver, handlerVars
<1> QED
  BY <1>1, <1>2, <1>3, <1>4, <1>5, <1>6, <1>7, <1>8, <1>9, <1>10, <1>11, <1>12 DEF ServiceStep, HandlerStep

\* Only the phase and the answer of the request that moves can change.
LEMMA MappedStep ==
  ASSUME NEW r \in Requests, Alone(r)
  PROVE  /\ Phases' = [Phases EXCEPT ![r] = PhaseOf(r)']
         /\ Answers' = [Answers EXCEPT ![r] = AnswerOf(r)']
<1>1. \A q \in Requests : q # r => PhaseOf(q)' = PhaseOf(q) /\ AnswerOf(q)' = AnswerOf(q)
  BY DEF Alone, Unmoved, PhaseOf, AnswerOf, CommitResponse, SecuredDataOf
<1> QED
  BY <1>1 DEF Phases, Answers

LEMMA BookKept == ASSUME UNCHANGED <<devices, issued>> PROVE Book' = Book
BY DEF Book, BookOfDevices

\* A step that neither serves nor changes the book is a stutter of the ledger.
LEMMA Stutter ==
  ASSUME NEW r \in Requests, Alone(r), UNCHANGED <<devices, issued>>, req' = req,
         PhaseOf(r)' = PhaseOf(r), AnswerOf(r)' = AnswerOf(r)
  PROVE  UNCHANGED Ledger!ledgerVars
<1>1. Phases' = Phases /\ Answers' = Answers
  <2>1. Phases[r] = PhaseOf(r) /\ Answers[r] = AnswerOf(r)
    BY DEF Phases, Answers
  <2>2. /\ Phases' = [Phases EXCEPT ![r] = PhaseOf(r)]
        /\ Answers' = [Answers EXCEPT ![r] = AnswerOf(r)]
    BY MappedStep
  <2> QED
    BY <2>1, <2>2 DEF Phases, Answers
<1> QED
  BY <1>1, BookKept DEF Ledger!ledgerVars, Phases, Answers, Book

\* A step that serves a request gives it that answer in the ledger.
LEMMA Serving ==
  ASSUME NEW r \in Requests, Alone(r), req' = req,
         PhaseOf(r)' = "served", NEW a, AnswerOf(r)' = a
  PROVE  Ledger!Answer(r, a)
<1>1. /\ Phases' = [Phases EXCEPT ![r] = "served"]
      /\ Answers' = [Answers EXCEPT ![r] = a]
  BY MappedStep
<1> QED
  BY <1>1 DEF Ledger!Answer, Phases, Answers
\* The ledger's own words for what the service keeps of a device.
LEMMA PageFacts ==
  ASSUME BookInv, NEW id \in DeviceIDs, Found(id)
  PROVE  /\ Ledger!Open(id)
         /\ Book[id] = [key |-> devices[id].PrivateKey, entries |-> issued[id]]
         /\ Ledger!CounterOf(id) = devices[id].SignatureCounter
         /\ Ledger!LastOf(id) = devices[id].LastSignature
         /\ Ledger!View(id) = DeviceModel(devices[id])
<1>1. /\ Ledger!Open(id)
      /\ Book[id] = [key |-> devices[id].PrivateKey, entries |-> issued[id]]
  BY DEF Ledger!Open, Book, BookOfDevices, Found
<1>2. Book[id].key = devices[id].PrivateKey /\ Book[id].entries = issued[id]
  BY <1>1
<1>3. Ledger!CounterOf(id) = devices[id].SignatureCounter
  BY <1>2 DEF Ledger!CounterOf, Book, BookInv, Pages, PageOf
<1>4. Ledger!LastOf(id) = devices[id].LastSignature
  <2>1. IsSequence(issued[id])
    BY DEF BookInv, Pages
  <2>2. Len(issued[id]) = 0 <=> issued[id] = << >>
    BY <2>1 DEF IsSequence
  <2>3. devices[id].LastSignature = LinkAfter(id, Len(issued[id]))
    BY DEF BookInv, Pages, PageOf
  <2> QED
    BY <1>2, <2>2, <2>3 DEF Ledger!LastOf, LinkAfter, Book, Ledger!Base64, Base64
<1>5. /\ devices[id].ID = id
      /\ devices[id].Algorithm = devices[id].PrivateKey.alg
      /\ devices[id].PublicKeyPem = PublicKeyPEM(devices[id].PrivateKey)
  BY DEF BookInv, Pages, KeysMatch, Found
<1>6. Ledger!View(id) = DeviceModel(devices[id])
  BY <1>2, <1>3, <1>4, <1>5 DEF Ledger!View, DeviceModel, Book, Ledger!PublicKeyPEM, PublicKeyPEM
<1> QED
  BY <1>1, <1>3, <1>4, <1>6

LEMMA OpenIsFound == \A id : Ledger!Open(id) <=> Found(id)
BY DEF Ledger!Open, BookOfDevices, Found

\* On arrival.
LEMMA AcceptMaps ==
  ASSUME BookInv, NEW r \in Requests, Accept(r)
  PROVE  Ledger!Send(r)
<1>1. /\ pc[r] = "idle" /\ pc'[r] \in {"generate", "begin"}
      /\ resp' = resp /\ UNCHANGED <<devices, issued>>
      /\ \E c \in Calls : req' = [req EXCEPT ![r] = c]
  BY DEF Accept, storageVars, Goto, BookInv, Shapes
<1>2. /\ PhaseOf(r) = "idle" /\ PhaseOf(r)' = "pending"
      /\ AnswerOf(r)' = AnswerOf(r)
  BY <1>1 DEF PhaseOf, AnswerOf
<1>3. /\ Phases' = [Phases EXCEPT ![r] = "pending"]
      /\ Answers' = [Answers EXCEPT ![r] = AnswerOf(r)]
  BY <1>2, MappedStep, OthersUnmoved DEF ServiceStep, BookInv
<1>4. Phases[r] = "idle" /\ Answers' = Answers /\ Book' = Book
  BY <1>1, <1>2, <1>3, BookKept DEF Phases, Answers
<1> QED
  BY <1>1, <1>3, <1>4 DEF Ledger!Send, Phases, Answers, Book

LEMMA NotImplementedMaps ==
  ASSUME BookInv, NEW r \in Requests, NotImplemented(r)
  PROVE  Ledger!TurnAway(r)
<1>1. /\ pc[r] = "idle" /\ pc'[r] = "return"
      /\ resp'[r] = [status |-> 501] /\ UNCHANGED <<devices, issued>>
      /\ \E c \in Calls : req' = [req EXCEPT ![r] = c]
  BY DEF NotImplemented, storageVars, Goto, Respond, BookInv, Shapes
<1>2. /\ PhaseOf(r) = "idle" /\ PhaseOf(r)' = "served"
      /\ AnswerOf(r)' = [status |-> 501]
  BY <1>1 DEF PhaseOf, AnswerOf
<1>3. /\ Phases' = [Phases EXCEPT ![r] = "served"]
      /\ Answers' = [Answers EXCEPT ![r] = [status |-> 501]]
  BY <1>2, MappedStep, OthersUnmoved DEF ServiceStep, BookInv
<1>4. Phases[r] = "idle" /\ Book' = Book
  BY <1>1, <1>2, BookKept DEF Phases
<1> QED
  BY <1>1, <1>3, <1>4, ZenonT(60)
  DEF Ledger!TurnAway, Ledger!Refusals, Phases, Answers, Book

LEMMA DeliverMaps ==
  ASSUME BookInv, NEW r \in Requests, Deliver(r)
  PROVE  Ledger!Reply(r)
<1>1. /\ pc[r] = "return" /\ pc'[r] = "done"
      /\ UNCHANGED <<devices, issued, req, resp>>
  BY DEF Deliver, storageVars, handlerVars, Goto, BookInv, Shapes
<1>2. /\ PhaseOf(r) = "served" /\ PhaseOf(r)' = "replied"
      /\ AnswerOf(r)' = AnswerOf(r)
  BY <1>1 DEF PhaseOf, AnswerOf
<1>3. /\ Phases' = [Phases EXCEPT ![r] = "replied"]
      /\ Answers' = [Answers EXCEPT ![r] = AnswerOf(r)]
  BY <1>2, MappedStep, OthersUnmoved DEF ServiceStep, BookInv
<1>4. Phases[r] = "served" /\ Answers' = Answers /\ Book' = Book
  BY <1>1, <1>2, <1>3, BookKept DEF Phases, Answers
<1> QED
  BY <1>1, <1>3, <1>4 DEF Ledger!Reply, Phases, Answers, Book

\* A failure of key generation or of signing is a refusal.
LEMMA RefusalMaps ==
  ASSUME NEW r \in Requests, Alone(r), req' = req,
         PhaseOf(r) = "pending", PhaseOf(r)' = "served",
         NEW alg, AnswerOf(r)' = [status |-> FailureStatus(alg)],
         UNCHANGED <<devices, issued>>
  PROVE  Ledger!Serve(r)
<1>1. Ledger!Answer(r, [status |-> FailureStatus(alg)])
  BY Serving
<1>2. Phases[r] = "pending" /\ Book' = Book
  BY BookKept DEF Phases
<1>3. FailureStatus(alg) \in Ledger!Refusals
  BY DEF FailureStatus, Ledger!Refusals
<1> QED
  BY <1>1, <1>2, <1>3 DEF Ledger!Serve, Ledger!Refuse, Phases, Book

LEMMA GenerateMaps ==
  ASSUME BookInv, NEW r \in Requests, GenerateKeyPair(r)
  PROVE  Ledger!Serve(r) \/ UNCHANGED Ledger!ledgerVars
<1> USE DEF BookInv
<1>1. pc[r] = "generate" /\ CreatesDevice(r) /\ UNCHANGED <<devices, issued, req>>
  BY DEF GenerateKeyPair, storageVars, Locals, LocalsOf
<1>2. Alone(r)
  BY OthersUnmoved DEF HandlerStep, ServiceStep
<1>3. CASE pc'[r] = "begin" /\ resp' = resp
  <2>1. PhaseOf(r)' = PhaseOf(r) /\ AnswerOf(r)' = AnswerOf(r)
    BY <1>1, <1>3 DEF PhaseOf, AnswerOf
  <2> QED
    BY <1>1, <1>2, <2>1, Stutter
<1>4. CASE pc'[r] = "return" /\ resp'[r] = [status |-> FailureStatus(req[r].alg)]
  <2>1. /\ PhaseOf(r) = "pending" /\ PhaseOf(r)' = "served"
        /\ AnswerOf(r)' = [status |-> FailureStatus(req[r].alg)]
    BY <1>1, <1>4 DEF PhaseOf, AnswerOf, StatusOnly, CreatesDevice
  <2> QED
    BY <1>1, <1>2, <2>1, RefusalMaps
<1> QED
  BY <1>3, <1>4 DEF GenerateKeyPair, Goto, Respond, Shapes

LEMMA BeginMaps ==
  ASSUME BookInv, NEW r \in Requests, BeginTx(r)
  PROVE  UNCHANGED Ledger!ledgerVars
<1> USE DEF BookInv
<1>1. /\ pc[r] = "begin" /\ pc'[r] \in {"create", "getInfo", "read"}
      /\ UNCHANGED <<devices, issued, req, resp>>
  BY DEF BeginTx, FirstStep, handlerVars, Goto, Shapes
<1>2. PhaseOf(r)' = PhaseOf(r) /\ AnswerOf(r)' = AnswerOf(r)
  BY <1>1 DEF PhaseOf, AnswerOf
<1>3. Alone(r)
  BY OthersUnmoved DEF ServiceStep
<1> QED
  BY <1>1, <1>2, <1>3, Stutter

LEMMA GetInfoMaps ==
  ASSUME BookInv, NEW r \in Requests, GetInfo(r)
  PROVE  Ledger!Serve(r) \/ UNCHANGED Ledger!ledgerVars
<1> USE DEF BookInv
<1>1. pc[r] = "getInfo" /\ SignsData(r) /\ UNCHANGED <<devices, issued, req>>
  BY DEF GetInfo, storageVars, Locals, LocalsOf
<1>2. Alone(r)
  BY OthersUnmoved DEF HandlerStep, ServiceStep
<1>3. CASE pc'[r] = "sign" /\ resp' = resp
  <2>1. PhaseOf(r)' = PhaseOf(r) /\ AnswerOf(r)' = AnswerOf(r)
    BY <1>1, <1>3 DEF PhaseOf, AnswerOf
  <2> QED
    BY <1>1, <1>2, <2>1, Stutter
<1>4. CASE ~Found(req[r].id) /\ pc'[r] = "rollback" /\ resp'[r] = [status |-> 404]
  <2>1. /\ PhaseOf(r) = "pending" /\ PhaseOf(r)' = "served"
        /\ AnswerOf(r)' = [status |-> 404]
    BY <1>1, <1>4 DEF PhaseOf, AnswerOf, StatusOnly, SignsData
  <2>2. Ledger!Answer(r, [status |-> 404])
    BY <1>1, <1>2, <2>1, Serving
  <2>3. Phases[r] = "pending" /\ Book' = Book
    BY <1>1, <2>1, BookKept DEF Phases
  <2> QED
    BY <1>1, <1>4, <2>2, <2>3, OpenIsFound
    DEF Ledger!Serve, Ledger!SignNext, Ledger!Serves, SignsData, Phases, Book
<1> QED
  BY <1>3, <1>4 DEF GetInfo, Goto, Respond, Shapes

LEMMA SignDataMaps ==
  ASSUME BookInv, NEW r \in Requests, SignData(r)
  PROVE  Ledger!Serve(r) \/ UNCHANGED Ledger!ledgerVars
<1> USE DEF BookInv
<1>1. pc[r] = "sign" /\ SignsData(r) /\ UNCHANGED <<devices, issued, req>>
  BY DEF SignData, storageVars, Locals, LocalsOf
<1>2. Alone(r)
  BY OthersUnmoved DEF HandlerStep, ServiceStep
<1>3. CASE pc'[r] = "addSignature" /\ resp' = resp
  <2>1. PhaseOf(r)' = PhaseOf(r) /\ AnswerOf(r)' = AnswerOf(r)
    BY <1>1, <1>3 DEF PhaseOf, AnswerOf
  <2> QED
    BY <1>1, <1>2, <2>1, Stutter
<1>4. CASE pc'[r] = "rollback" /\ resp'[r] = [status |-> FailureStatus(info[r].Algorithm)]
  <2>1. /\ PhaseOf(r) = "pending" /\ PhaseOf(r)' = "served"
        /\ AnswerOf(r)' = [status |-> FailureStatus(info[r].Algorithm)]
    BY <1>1, <1>4 DEF PhaseOf, AnswerOf, StatusOnly, SignsData
  <2> QED
    BY <1>1, <1>2, <2>1, RefusalMaps
<1> QED
  BY <1>3, <1>4 DEF SignData, Goto, Respond, Shapes
\* The insertion of a device serves its creation.
LEMMA CreateMaps ==
  ASSUME BookInv, NEW r \in Requests, Create(r)
  PROVE  Ledger!Serve(r)
<1> USE DEF BookInv
<1> DEFINE id == req[r].id
<1>1. pc[r] = "create" /\ CreatesDevice(r) /\ UNCHANGED <<issued, req>>
  BY DEF Create, Locals, LocalsOf
<1>2. Alone(r)
  BY OthersUnmoved DEF HandlerStep, ServiceStep
<1>3. PhaseOf(r) = "pending" /\ Phases[r] = "pending"
  BY <1>1 DEF PhaseOf, Phases
<1>4. CASE Found(id) /\ pc'[r] = "rollback" /\ resp'[r] = [status |-> 409] /\ devices' = devices
  <2>1. PhaseOf(r)' = "served" /\ AnswerOf(r)' = [status |-> 409]
    BY <1>1, <1>4 DEF PhaseOf, AnswerOf, StatusOnly, CreatesDevice
  <2>2. Ledger!Answer(r, [status |-> 409]) /\ Book' = Book
    BY <1>1, <1>2, <1>4, <2>1, Serving, BookKept
  <2> QED
    BY <1>1, <1>3, <1>4, <2>2, OpenIsFound
    DEF Ledger!Serve, Ledger!CreateDevice, Ledger!Serves, CreatesDevice, Phases, Book
<1>5. CASE /\ ~Found(id) /\ pc'[r] = "commit"
           /\ CreateNewSignatureDevice(id, req[r].alg, keyPair[r])
           /\ UNCHANGED <<keyPair, signature, info>>
  <2>1. /\ DOMAIN devices' = DOMAIN devices \cup {id}
        /\ \A x \in DOMAIN devices : devices'[x] = devices[x]
        /\ devices'[id].PrivateKey = keyPair[r]
        /\ issued[id] = << >>
        /\ keyPair[r] = NewKey(req[r].alg, r)
    BY <1>1, <1>5, CreateEffect
  <2>2. Book' = [x \in DOMAIN Book \cup {id} |->
                   IF x = id THEN [key |-> keyPair[r], entries |-> << >>] ELSE Book[x]]
    BY <1>1, <1>5, <2>1 DEF Book, BookOfDevices, Found
  <2> DEFINE a == [status |-> 201, ID |-> id, PublicKeyPem |-> PublicKeyPEM(keyPair[r])]
  <2>3. PhaseOf(r)' = "served" /\ AnswerOf(r)' = a
    BY <1>1, <1>5 DEF PhaseOf, AnswerOf, CommitResponse, CreatesDevice
  <2>4. Ledger!Answer(r, a)
    BY <1>1, <1>2, <2>3, Serving
  <2>5. /\ Ledger!NewKey(req[r].alg, r) = keyPair[r]
        /\ Ledger!PublicKeyPEM(keyPair[r]) = PublicKeyPEM(keyPair[r])
    BY <2>1 DEF Ledger!NewKey, NewKey, Ledger!PublicKeyPEM, PublicKeyPEM
  <2>6. ~Ledger!Open(id) /\ Ledger!Serves(r, "CreateSignatureDevice")
    BY <1>1, <1>3, <1>5, OpenIsFound DEF Ledger!Serves, CreatesDevice, Phases
  <2> QED
    BY <2>2, <2>4, <2>5, <2>6 DEF Ledger!Serve, Ledger!CreateDevice, Book
<1> QED
  BY <1>4, <1>5 DEF Create, Goto, Respond, Shapes

\* AddSignature serves a signing.
LEMMA StoreMaps ==
  ASSUME BookInv, NEW r \in Requests, StoreSignature(r)
  PROVE  Ledger!Serve(r)
<1>0. PICK id \in DeviceIDs : id = req[r].id
  BY StoreEffect
<1>a. /\ Book[id].key = devices[id].PrivateKey
      /\ Ledger!CounterOf(id) = devices[id].SignatureCounter
      /\ Ledger!LastOf(id) = devices[id].LastSignature
  <2>2. Found(id)
    BY <1>0, StoreEffect
  <2>3. Book[id] = [key |-> devices[id].PrivateKey, entries |-> issued[id]]
    BY <2>2, PageFacts
  <2> QED
    BY <2>2, <2>3, PageFacts
<1> USE DEF BookInv
<1>1. /\ pc[r] = "addSignature" /\ pc'[r] = "commit"
      /\ UNCHANGED <<req, keyPair, info, signature>>
  BY DEF StoreSignature, handlerVars, Goto, Shapes
<1>2. /\ SignsData(r) /\ Found(id) /\ info[r] = DeviceInfo(id)
      /\ signature[r] = SignatureOf(info[r].PrivateKey, SecuredDataOf(r), r)
      /\ DOMAIN devices' = DOMAIN devices
      /\ \A x \in DOMAIN devices : x # id => devices'[x] = devices[x]
      /\ devices'[id].PrivateKey = devices[id].PrivateKey
      /\ \A x \in DeviceIDs : x # id => issued'[x] = issued[x]
      /\ issued'[id] = Append(issued[id], NewEntry(r))
  BY <1>0, StoreEffect
<1>3. Alone(r)
  BY OthersUnmoved DEF HandlerStep, ServiceStep
<1>4. PhaseOf(r)' = "served" /\ Phases[r] = "pending"
  BY <1>1 DEF PhaseOf, Phases
<1> DEFINE a == [status     |-> 201,
                 Signature  |-> Base64(signature[r]),
                 SignedData |-> SecuredDataOf(r)]
<1>5. Ledger!Answer(r, a)
  <2>1. AnswerOf(r)' = a
    BY <1>1, <1>2 DEF AnswerOf, CommitResponse, SignsData, SecuredDataOf
  <2> QED
    BY <1>1, <1>3, <1>4, <2>1, Serving
<1>6. Book' = [Book EXCEPT ![id].entries = Append(@, NewEntry(r))]
  <2>1. DOMAIN devices \subseteq DeviceIDs
    BY DEF Pages
  <2>2. /\ \A x \in DOMAIN devices : x # id => Book'[x] = Book[x]
        /\ Book'[id] = [key |-> devices[id].PrivateKey,
                        entries |-> Append(issued[id], NewEntry(r))]
        /\ Book[id] = [key |-> devices[id].PrivateKey, entries |-> issued[id]]
        /\ DOMAIN Book = DOMAIN devices /\ DOMAIN Book' = DOMAIN devices
        /\ Book = [x \in DOMAIN Book |-> Book[x]] /\ Book' = [x \in DOMAIN Book' |-> Book'[x]]
    BY <1>2, <2>1 DEF Book, BookOfDevices, Found
  <2> QED
    BY <1>2, <2>2 DEF Found
<1>7. Ledger!SecuredData(Ledger!CounterOf(id), req[r].data, Ledger!LastOf(id))
        = SecuredDataOf(r)
  BY <1>0, <1>2, <1>a
  DEF Ledger!SecuredData, SecuredData, SecuredDataOf, DeviceInfo
<1>8. Ledger!Base64(Ledger!SignatureOf(Book[id].key, SecuredDataOf(r), r))
        = Base64(signature[r])
  <2>1. Book[id].key = info[r].PrivateKey
    BY <1>2, <1>a DEF DeviceInfo
  <2> QED
    BY <1>2, <2>1
    DEF Ledger!SignatureOf, SignatureOf, Ledger!ECDSASign, ECDSASign, Ledger!RSASign, RSASign,
        Ledger!Base64, Base64
<1>9. Ledger!Open(id) /\ Ledger!Serves(r, "SignTransaction")
  BY <1>0, <1>2, <1>4, OpenIsFound DEF Ledger!Serves, SignsData, Phases
<1> QED
  BY <1>0, <1>5, <1>6, <1>7, <1>8, <1>9
  DEF Ledger!Serve, Ledger!SignNext, Book, NewEntry

\* A read serves its request, whatever it finds.
LEMMA ReadMaps ==
  ASSUME BookInv, NEW r \in Requests, Read(r)
  PROVE  Ledger!Serve(r)
<1> DEFINE id == req[r].id
<1>1. /\ pc[r] = "read" /\ pc'[r] = "rollback" /\ resp'[r] = ReadAnswer(req[r])
      /\ UNCHANGED <<devices, issued, req>>
  BY DEF Read, storageVars, Goto, Respond, BookInv, Shapes
<1>2. /\ req[r] \in Calls
      /\ req[r].op \in {"GetSignatureDevice", "ListSignatureDevices"} \cup StatusOnly
      /\ req[r].op # "ListSignatureDevices" => id \in DeviceIDs
  <2>1. req[r] \in Calls /\ ~CreatesDevice(r) /\ ~SignsData(r)
    BY <1>1 DEF BookInv, Locals, LocalsOf
  <2> QED
    BY <2>1, CallsAssumption DEF AllCalls, CreatesDevice, SignsData, StatusOnly
<1>3. /\ PhaseOf(r)' = "served" /\ Phases[r] = "pending" /\ Book' = Book
  BY <1>1, BookKept DEF PhaseOf, Phases
<1> DEFINE answer ==
      IF req[r].op \in StatusOnly THEN [status |-> ReadAnswer(req[r]).status]
                                  ELSE ReadAnswer(req[r])
<1>4. Ledger!Answer(r, answer)
  <2>1. AnswerOf(r)' = answer
    BY <1>1, <1>3 DEF AnswerOf, StatusOnly
  <2>2. Alone(r)
    BY OthersUnmoved DEF HandlerStep, ServiceStep, BookInv
  <2> QED
    BY <1>1, <1>3, <2>1, <2>2, Serving
<1>5. CASE req[r].op = "ListSignatureDevices"
  <2>1. answer = [status |-> 200, items |-> [x \in DOMAIN Book |-> Ledger!View(x)]]
    <3>1. DOMAIN Book = DOMAIN devices /\ DOMAIN devices \subseteq DeviceIDs
      BY DEF Book, BookOfDevices, BookInv, Pages
    <3>2. \A x \in DOMAIN devices : Ledger!View(x) = DeviceModel(devices[x])
      BY <3>1, PageFacts DEF Found
    <3> QED
      BY <1>5, <3>1, <3>2 DEF ReadAnswer, StatusOnly
  <2> QED
    BY <1>3, <1>4, <1>5, <2>1
    DEF Ledger!Serve, Ledger!ReadDevices, Ledger!Serves, Phases, Book
<1>6. CASE req[r].op = "GetSignatureDevice"
  <2>1. answer = IF Ledger!Open(id) THEN [status |-> 200, item |-> Ledger!View(id)]
                                    ELSE [status |-> 404]
    <3>1. Found(id) => Ledger!View(id) = DeviceModel(devices[id])
      BY <1>2, <1>6, PageFacts
    <3> QED
      BY <1>6, <3>1, OpenIsFound DEF ReadAnswer, StatusOnly
  <2> QED
    BY <1>3, <1>4, <1>6, <2>1
    DEF Ledger!Serve, Ledger!ReadDevice, Ledger!Serves, Phases, Book
<1>7. CASE req[r].op = "ListDeviceSignatures"
  <2>1. answer = [status |-> IF Ledger!Open(id) THEN 200 ELSE 404]
    BY <1>7, OpenIsFound DEF ReadAnswer, StatusOnly
  <2> QED
    BY <1>3, <1>4, <1>7, <2>1
    DEF Ledger!Serve, Ledger!ReadSignatures, Ledger!Serves, Phases, Book
<1>8. CASE req[r].op = "GetDeviceSignature"
  <2>1. PICK s \in {200, 404} : answer = [status |-> s] /\ (s = 200 => Ledger!Open(id))
    <3>1. SignatureAnswer(id, req[r].sig).status \in {200, 404}
      BY DEF SignatureAnswer
    <3> QED
      BY <1>8, <3>1, OpenIsFound DEF ReadAnswer, StatusOnly
  <2> QED
    BY <1>3, <1>4, <1>8, <2>1
    DEF Ledger!Serve, Ledger!ReadSignature, Ledger!Serves, Phases, Book
<1> QED
  BY <1>2, <1>5, <1>6, <1>7, <1>8 DEF StatusOnly

\* Commit builds the answer that the write had already decided.
LEMMA CommitMaps ==
  ASSUME BookInv, NEW r \in Requests, Commit(r)
  PROVE  UNCHANGED Ledger!ledgerVars
<1> USE DEF BookInv
<1>1. /\ pc[r] = "commit" /\ pc'[r] = "return" /\ resp'[r] = CommitResponse(r)
      /\ CreatesDevice(r) \/ SignsData(r)
      /\ UNCHANGED <<devices, issued, req>>
  BY DEF Commit, Goto, Respond, Shapes, Locals, LocalsOf
<1>2. PhaseOf(r)' = PhaseOf(r) /\ AnswerOf(r)' = AnswerOf(r)
  BY <1>1 DEF PhaseOf, AnswerOf, StatusOnly, CreatesDevice, SignsData
<1>3. Alone(r)
  BY OthersUnmoved DEF HandlerStep, ServiceStep
<1> QED
  BY <1>1, <1>2, <1>3, Stutter

LEMMA RollbackMaps ==
  ASSUME BookInv, NEW r \in Requests, Rollback(r)
  PROVE  UNCHANGED Ledger!ledgerVars
<1> USE DEF BookInv
<1>1. /\ pc[r] = "rollback" /\ pc'[r] = "return"
      /\ UNCHANGED <<devices, issued, req, resp>>
  BY DEF Rollback, Goto, Shapes
<1>2. PhaseOf(r)' = PhaseOf(r) /\ AnswerOf(r)' = AnswerOf(r)
  BY <1>1 DEF PhaseOf, AnswerOf
<1>3. Alone(r)
  BY OthersUnmoved DEF HandlerStep, ServiceStep
<1> QED
  BY <1>1, <1>2, <1>3, Stutter
-----------------------------------------------------------------------------
\* A handler that panics refuses its request.
LEMMA PanicMaps ==
  ASSUME BookInv, NEW r \in Requests, KeyGenerationPanics(r) \/ SigningPanics(r)
  PROVE  Ledger!Serve(r)
<1> USE DEF BookInv
<1>1. /\ pc[r] \in {"generate", "sign"} /\ pc'[r] = "return"
      /\ resp'[r] = [status |-> 500] /\ UNCHANGED <<devices, issued, req>>
  BY DEF KeyGenerationPanics, SigningPanics, Recovered, storageVars, Goto, Respond, Shapes
<1>2. Alone(r)
  BY DEF KeyGenerationPanics, SigningPanics, Recovered, ForgetLocals, Goto, Respond, Shapes,
     Alone, Unmoved
<1>3. PhaseOf(r) = "pending" /\ PhaseOf(r)' = "served" /\ AnswerOf(r)' = [status |-> 500]
  BY <1>1 DEF PhaseOf, AnswerOf
<1>4. Ledger!Answer(r, [status |-> 500])
  BY <1>1, <1>2, <1>3, Serving
<1>5. Phases[r] = "pending" /\ Book' = Book
  BY <1>1, <1>3, BookKept DEF Phases
<1> QED
  BY <1>4, <1>5 DEF Ledger!Serve, Ledger!Refuse, Ledger!Refusals, Phases, Book
-----------------------------------------------------------------------------
LEMMA InitMaps == Init => Ledger!Init
<1> SUFFICES ASSUME Init PROVE Ledger!Init
  OBVIOUS
<1>1. Book = Ledger!NewBook
  BY DEF Init, NewStorage, EmptyMap, Book, BookOfDevices, Ledger!NewBook
<1>2. Phases = [r \in Requests |-> "idle"]
  BY DEF Init, Phases, PhaseOf
<1>3. Answers = [r \in Requests |-> None]
  BY DEF Init, Answers, AnswerOf, PhaseOf
<1> QED
  BY <1>1, <1>2, <1>3 DEF Init, Ledger!Init, Book, Phases, Answers

LEMMA StepMaps ==
  ASSUME BookInv, NEW r \in Requests, ServiceStep(r)
  PROVE  Ledger!Next \/ UNCHANGED Ledger!ledgerVars
<1>1. ASSUME HandlerStep(r)
      PROVE  Ledger!Serve(r) \/ UNCHANGED Ledger!ledgerVars
  BY <1>1, GenerateMaps, CreateMaps, GetInfoMaps, SignDataMaps, StoreMaps, ReadMaps,
     CommitMaps, RollbackMaps DEF HandlerStep
<1> QED
  BY <1>1, AcceptMaps, NotImplementedMaps, BeginMaps, DeliverMaps DEF ServiceStep, Ledger!Next

LEMMA StandingStill == UNCHANGED vars => UNCHANGED Ledger!ledgerVars
BY DEF vars, Ledger!ledgerVars, BookOfDevices, PhaseOf, AnswerOf, CommitResponse, SecuredDataOf

\* The service, with its lock in order.
RefInv == ChainInv /\ Pages

LEMMA RefGivesBook == RefInv => BookInv
BY DEF RefInv, ChainInv, LockInv, TypeOK, HandlersTypeOK, Shapes, BookInv

LEMMA RefStep ==
  ASSUME RefInv, BelowWrap, [Next]_vars
  PROVE  RefInv' /\ [Ledger!Next]_Ledger!ledgerVars
<1>0. BookInv /\ ChainInv /\ ChainInv' /\ Pages
  BY RefGivesBook, ChainInvStep DEF RefInv
<1>1. ASSUME UNCHANGED vars PROVE Pages' /\ UNCHANGED Ledger!ledgerVars
  BY <1>0, <1>1, PagesKept, StandingStill DEF vars
<1>2. ASSUME NEW r \in Requests, ServiceStep(r)
      PROVE  Pages' /\ (Ledger!Next \/ UNCHANGED Ledger!ledgerVars)
  BY <1>0, <1>2, PagesStep, StepMaps
<1> QED
  BY <1>0, <1>1, <1>2 DEF RefInv, Next, ServiceStep, AllDone

\* Until a counter wraps, the service is the ledger: whatever the interleaving
\* of its handlers, their effects and answers are those of requests served one
\* at a time, each between its arrival and its answer (internal/service).
THEOREM ServiceImplementsLedger == Spec /\ []BelowWrap => Ledger!Safety
<1>1. Init => RefInv /\ Ledger!Init
  BY InitChainInv, InitPages, InitMaps DEF RefInv
<1>2. RefInv /\ BelowWrap /\ [Next]_vars => RefInv' /\ [Ledger!Next]_Ledger!ledgerVars
  BY RefStep
<1> QED
  BY <1>1, <1>2, PTL DEF Spec, Ledger!Safety
\* The requests that are past their write.
Past == {q \in Requests : pc[q] \in {"commit", "rollback", "return", "done"}}

\* A request signs once, so that a counter is at most the number of them.
FewInv ==
  /\ RefInv
  /\ \A id \in DOMAIN devices : devices[id].SignatureCounter <= Cardinality(Past)

LEMMA PastIsFinite ==
  ASSUME Few
  PROVE  IsFiniteSet(Past) /\ Cardinality(Past) \in Nat
<1>1. Past \in SUBSET Requests
  BY DEF Past
<1> QED
  BY <1>1, FS_Subset, FS_CardinalityType DEF Few

LEMMA FewKeepBelowWrap == ASSUME Few, FewInv PROVE BelowWrap
<1> SUFFICES ASSUME NEW r \in Requests, pc[r] = "addSignature"
             PROVE  devices[req[r].id].SignatureCounter # MaxInt64
  BY DEF BelowWrap
<1>1. r \notin Past /\ Past \cup {r} \in SUBSET Requests
  BY DEF Past
<1>2. IsFiniteSet(Past) /\ Cardinality(Past) \in Nat
  BY PastIsFinite
<1>3. Cardinality(Past \cup {r}) = Cardinality(Past) + 1
  BY <1>1, <1>2, FS_AddElement
<1>4. Cardinality(Past) + 1 <= Cardinality(Requests)
  BY <1>1, <1>3, FS_Subset DEF Few
<1>5. Cardinality(Requests) \in Nat /\ Cardinality(Requests) <= MaxInt64
  BY FS_CardinalityType DEF Few
<1>6. PICK n : n = devices[req[r].id].SignatureCounter
  OBVIOUS
<1>7. n \in Int64 /\ n <= Cardinality(Past)
  BY <1>6 DEF FewInv, RefInv, ChainInv, LockInv, FreshInfo, Found, TypeOK, StorageTypeOK,
     DeviceShape
<1> QED
  BY <1>2, <1>4, <1>5, <1>6, <1>7, MaxInt64Assumption DEF Int64

LEMMA FewInvStep ==
  ASSUME Few, FewInv, [Next]_vars
  PROVE  FewInv' /\ [Ledger!Next]_Ledger!ledgerVars
<1>0. RefInv /\ RefInv' /\ BookInv /\ BelowWrap /\ [Ledger!Next]_Ledger!ledgerVars
  BY FewKeepBelowWrap, RefStep, RefGivesBook DEF FewInv
<1>1. IsFiniteSet(Past) /\ Cardinality(Past) \in Nat
  BY PastIsFinite
<1>2. Past \subseteq Past' /\ IsFiniteSet(Past') /\ Cardinality(Past') \in Nat
  <2>1. ASSUME NEW r \in Requests, ServiceStep(r)
        PROVE  /\ \A q \in Requests : q # r => pc'[q] = pc[q]
               /\ r \in Past => r \in Past'
    <3>1. Alone(r)
      BY <1>0, <2>1, OthersUnmoved DEF BookInv
    <3>2. r \in Past => r \in Past'
      BY <1>0, <2>1 DEF Past, ServiceStep, HandlerStep, Accept, NotImplemented, BeginTx, Deliver,
         GenerateKeyPair, GetInfo, SignData, Create, StoreSignature, Read, Commit, Rollback,
         Goto, BookInv, Shapes
    <3> QED
      BY <3>1, <3>2 DEF Alone, Unmoved
  <2>2. Past \subseteq Past'
    BY <2>1 DEF Past, Next, ServiceStep, AllDone, vars
  <2>3. Past' \in SUBSET Requests
    BY DEF Past
  <2> QED
    BY <2>2, <2>3, FS_Subset, FS_CardinalityType DEF Few
<1>3. Cardinality(Past) <= Cardinality(Past')
  BY <1>2, FS_Subset
<1>4. \A id \in DOMAIN devices : devices[id].SignatureCounter \in Int64
  BY <1>0 DEF RefInv, ChainInv, LockInv, TypeOK, StorageTypeOK, DeviceShape
<1>5. ASSUME \A id \in DOMAIN devices' :
               \/ devices'[id].SignatureCounter = 0
               \/ /\ id \in DOMAIN devices
                  /\ devices'[id].SignatureCounter = devices[id].SignatureCounter
      PROVE  FewInv'
  BY <1>0, <1>1, <1>2, <1>3, <1>4, <1>5, MaxInt64Assumption DEF FewInv, Int64
<1>6. ASSUME NEW r \in Requests, StoreSignature(r) PROVE FewInv'
  <2>1. r \notin Past /\ Past' = Past \cup {r}
    <3>1. pc[r] = "addSignature" /\ pc'[r] = "commit"
      BY <1>0, <1>6 DEF StoreSignature, Goto, BookInv, Shapes
    <3>2. \A q \in Requests : q # r => pc'[q] = pc[q]
      BY <1>0, <1>6, OthersUnmoved DEF BookInv, ServiceStep, HandlerStep, Alone, Unmoved
    <3> QED
      BY <3>1, <3>2 DEF Past
  <2>2. Cardinality(Past') = Cardinality(Past) + 1
    BY <1>1, <2>1, FS_AddElement
  <2>3. ASSUME NEW id \in DOMAIN devices'
        PROVE  /\ id \in DOMAIN devices
               /\ \/ devices'[id].SignatureCounter = devices[id].SignatureCounter
                  \/ devices'[id].SignatureCounter = Inc64(devices[id].SignatureCounter)
    BY <1>0, <1>6, StoreEffect
  <2>4. ASSUME NEW id \in DOMAIN devices'
        PROVE  devices'[id].SignatureCounter <= Cardinality(Past')
    <3>1. PICK n : n = devices[id].SignatureCounter
      OBVIOUS
    <3>2. n \in Int64 /\ n <= Cardinality(Past)
      BY <1>4, <2>3, <3>1 DEF FewInv
    <3> QED
      BY <1>1, <2>2, <2>3, <3>1, <3>2, MaxInt64Assumption DEF Inc64, Int64
  <2> QED
    BY <1>0, <2>4 DEF FewInv
<1>7. ASSUME NEW r \in Requests, Create(r) PROVE FewInv'
  <2>1. CASE UNCHANGED devices
    BY <1>5, <2>1
  <2>2. CASE /\ ~Found(req[r].id)
             /\ CreateNewSignatureDevice(req[r].id, req[r].alg, keyPair[r])
    <3>1. pc[r] = "create"
      BY <1>7 DEF Create
    <3> QED
      BY <1>0, <1>5, <2>2, <3>1, CreateEffect
  <2> QED
    BY <1>7, <2>1, <2>2 DEF Create
<1>8. ASSUME UNCHANGED devices PROVE FewInv'
  BY <1>5, <1>8
<1> QED
  BY <1>0, <1>6, <1>7, <1>8, OthersKeepBook DEF Next, HandlerStep, AllDone, vars

\* No request meets a wrapped counter while there are fewer than 2^63 of them:
\* up to there the service is the ledger with nothing assumed of the behaviour.
THEOREM FewRequestsImplementLedger == ASSUME Few PROVE Spec => Ledger!Safety
<1>1. Init => FewInv /\ Ledger!Init
  BY InitChainInv, InitPages, InitMaps DEF RefInv, FewInv, Init, NewStorage, EmptyMap
<1>2. FewInv /\ [Next]_vars => FewInv' /\ [Ledger!Next]_Ledger!ledgerVars
  BY FewInvStep
<1> QED
  BY <1>1, <1>2, PTL DEF Spec, Ledger!Safety
-----------------------------------------------------------------------------
(* The lives of a server *)

\* Who has not asked has no answer.
Quiet == \A r \in Requests : pc[r] = "idle" => resp[r] = None

\* The counters stay below the wrap because requests are few; the lock may be
\* left behind, so that nothing of LockInv is here.
LifeInv == BelowInv /\ Pages /\ Quiet

LEMMA LifeGivesBook == LifeInv => BookInv /\ DeviceInv
BY DEF LifeInv, BelowInv, KeyChainInv, DeviceInv, ArchiveInv, ArchiveTypeOK, LeakInv,
   ServerTypeOK, Labelled, Shapes, BookInv

\* What a step is to the ledger.
Follows ==
  \/ Ledger!Next /\ life' = life
  \/ StartsOver
  \/ UNCHANGED <<Ledger!ledgerVars, life>>

LEMMA QuietStep ==
  ASSUME DeviceInv, Quiet, NEW r \in Requests,
         Serve(r) \/ KeyGenerationPanics(r) \/ SigningPanics(r)
  PROVE  Quiet'
<1>1. \A q \in Requests \ {r} : Untouched(q)
  BY OthersUntouched DEF DeviceInv, ArchiveInv
<1>2. pc'[r] # "idle"
  <2> USE DEF DeviceInv, ArchiveInv, LeakInv, ServerTypeOK, Labelled, Goto
  <2>1. CASE Serve(r)
    BY <2>1 DEF Serve, ServiceStep, HandlerStep, Accept, NotImplemented, BeginTx, FirstStep,
       Deliver, GenerateKeyPair, GetInfo, SignData, Create, StoreSignature, Read, Commit, Rollback
  <2>2. CASE KeyGenerationPanics(r) \/ SigningPanics(r)
    BY <2>2 DEF KeyGenerationPanics, SigningPanics, Recovered
  <2> QED
    BY <2>1, <2>2
<1> QED
  BY <1>1, <1>2 DEF Quiet, Untouched

LEMMA RestartStartsOver ==
  ASSUME Quiet, Restart
  PROVE  StartsOver /\ Pages' /\ Quiet'
<1>1. DOMAIN devices' = {} /\ issued' = [id \in DeviceIDs |-> << >>]
  BY DEF Restart, EmptyMap
<1>2. Pages'
  BY <1>1, EmptyIsSequence DEF Pages, PageOf, Found
<1>3. BookOfDevices' = Ledger!NewBook
  BY DEF Restart, EmptyMap, BookOfDevices, Ledger!NewBook
<1>4. ASSUME NEW r \in Requests, PhaseOf(r) \in {"idle", "replied"}
      PROVE  PhaseOf(r)' = PhaseOf(r) /\ AnswerOf(r)' = AnswerOf(r)
  <2>1. pc[r] \in {"idle", "done"}
    BY <1>4 DEF PhaseOf
  <2>2. pc'[r] = pc[r] /\ req' = req /\ resp'[r] = resp[r]
    BY <2>1 DEF Restart, Quiet
  <2> QED
    BY <2>1, <2>2 DEF PhaseOf, AnswerOf
<1>5. Quiet'
  BY DEF Restart, Quiet
<1> QED
  BY <1>2, <1>3, <1>4, <1>5 DEF StartsOver, Restart

LEMMA LifeStep ==
  ASSUME Few, LifeInv, [ServerNext]_allVars
  PROVE  LifeInv' /\ Follows
<1>0. BookInv /\ DeviceInv /\ BelowInv /\ BelowInv' /\ BelowWrap /\ Pages /\ Quiet
  BY LifeGivesBook, BelowInvStep, FewStayBelowWrap DEF LifeInv
<1>1. ASSUME NEW r \in Requests, Serve(r) PROVE Pages' /\ Quiet' /\ Follows
  BY <1>0, <1>1, PagesStep, StepMaps, QuietStep DEF Serve, Follows
<1>2. ASSUME NEW r \in Requests, KeyGenerationPanics(r) \/ SigningPanics(r)
      PROVE  Pages' /\ Quiet' /\ Follows
  <2>1. UNCHANGED <<devices, issued, life>>
    BY <1>2 DEF KeyGenerationPanics, SigningPanics, Recovered, storageVars
  <2>2. Ledger!Next
    BY <1>0, <1>2, PanicMaps DEF Ledger!Next
  <2> QED
    BY <1>0, <1>2, <2>1, <2>2, PagesKept, QuietStep DEF Follows
<1>3. ASSUME Restart PROVE Pages' /\ Quiet' /\ Follows
  BY <1>0, <1>3, RestartStartsOver DEF Follows
<1>4. ASSUME UNCHANGED allVars PROVE Pages' /\ Quiet' /\ Follows
  <2>1. UNCHANGED vars /\ life' = life
    BY <1>4 DEF allVars, serverVars
  <2> QED
    BY <1>0, <2>1, PagesKept, StandingStill DEF vars, Quiet, Follows
<1> QED
  BY <1>0, <1>1, <1>2, <1>3, <1>4 DEF LifeInv, ServerNext, AllOver

\* Panics do not take a server out of the ledger: between two starts of the
\* process, what its handlers do and answer is what requests served one at a
\* time would, those whose handler panicked being refused.
THEOREM LivesImplementLedger == ASSUME Few PROVE ServerSpec => LivesFollowTheLedger
<1>1. ServerInit => LifeInv /\ Ledger!Init
  BY InitBelowInv, InitPages, InitMaps DEF LifeInv, ServerInit, Init, Quiet
<1>2. LifeInv /\ [ServerNext]_allVars
        => LifeInv' /\ [\/ Ledger!Next /\ life' = life
                        \/ StartsOver]_<<Ledger!ledgerVars, life>>
  BY LifeStep DEF Follows
<1> QED
  BY <1>1, <1>2, PTL DEF ServerSpec, LivesFollowTheLedger
=============================================================================
