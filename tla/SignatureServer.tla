-------------------------- MODULE SignatureServer --------------------------
(***************************************************************************)
(* The service with what a process goes through: it is stopped and started *)
(* again, with nothing but the memory of its clients carried over, and a   *)
(* library that generates keys or signs may panic, which Recovery turns    *)
(* into a 500 without running what the handler had left to do.             *)
(***************************************************************************)
EXTENDS SignatureService

CONSTANTS MaxRestarts,   \* bound on the number of restarts
          MayPanic       \* the calls that may panic: "generate", "sign"

ASSUME ServerAssumption == MaxRestarts \in Nat /\ MayPanic \subseteq {"generate", "sign"}

VARIABLES
  life,       \* how often the process was started again
  bornIn,     \* the life in which request r was accepted
  panicked,   \* the requests whose handler panicked in this life
  archive     \* history: the signatures of all lives

serverVars == <<life, bornIn, panicked, archive>>
allVars == <<vars, serverVars>>

ServerInit ==
  /\ Init
  /\ life = 0
  /\ bornIn = [r \in Requests |-> 0]
  /\ panicked = {}
  /\ archive = {}

\* What request r is about to store.
Entry(r) ==
  [by |-> r, life |-> life, id |-> req[r].id, key |-> devices[req[r].id].PublicKeyPem,
   signedData |-> SecuredDataOf(r), signature |-> Base64(signature[r])]

ServiceStep(r) ==
  Accept(r) \/ NotImplemented(r) \/ BeginTx(r) \/ HandlerStep(r) \/ Deliver(r)

\* A step of the service, kept in the history.
Serve(r) ==
  /\ ServiceStep(r)
  /\ bornIn' = IF pc[r] = "idle" THEN [bornIn EXCEPT ![r] = life] ELSE bornIn
  /\ archive' = IF pc[r] = "addSignature" THEN archive \cup {Entry(r)} ELSE archive
  /\ UNCHANGED <<life, panicked>>

\* Recovery answers 500 for a handler that panicked.
Recovered(r) ==
  /\ Respond(r, [status |-> 500])
  /\ Goto(r, "return")
  /\ ForgetLocals(r)
  /\ panicked' = panicked \cup {r}
  /\ UNCHANGED <<req, issued, life, bornIn, archive>>

\* Before Tx the handler holds nothing.
KeyGenerationPanics(r) ==
  /\ "generate" \in MayPanic
  /\ pc[r] = "generate"
  /\ Recovered(r)
  /\ UNCHANGED storageVars

\* Between Tx and Commit it holds the lock, and no Rollback is deferred.
SigningPanics(r) ==
  /\ "sign" \in MayPanic
  /\ pc[r] = "sign"
  /\ Recovered(r)
  /\ UNCHANGED storageVars

\* Run again: NewStorage, and no goroutine of the life before.
Restart ==
  /\ life < MaxRestarts
  /\ life' = life + 1
  /\ mu' = None /\ devices' = EmptyMap /\ signatures' = EmptyMap
  /\ pc' = [r \in Requests |-> IF pc[r] \in {"idle", "done"} THEN pc[r] ELSE "lost"]
  /\ resp' = [r \in Requests |-> IF pc[r] = "done" THEN resp[r] ELSE None]
  /\ keyPair' = [r \in Requests |-> None]
  /\ info' = [r \in Requests |-> None]
  /\ signature' = [r \in Requests |-> None]
  /\ issued' = [id \in DeviceIDs |-> << >>]
  /\ panicked' = {}
  /\ UNCHANGED <<req, bornIn, archive>>

\* Every request is answered or lost.
AllOver ==
  /\ \A r \in Requests : pc[r] \in {"done", "lost"}
  /\ UNCHANGED allVars

ServerNext ==
  \/ \E r \in Requests : Serve(r) \/ KeyGenerationPanics(r) \/ SigningPanics(r)
  \/ Restart
  \/ AllOver

ServerSpec == ServerInit /\ [][ServerNext]_allVars

\* As for the service: a goroutine that can run does, and the lock is handed
\* over; a panic, a restart, a client's request are nobody's duty.
FairServerSpec ==
  /\ ServerSpec
  /\ \A r \in Requests :
       WF_allVars(HandlerStep(r) /\ Serve(r)) /\ SF_allVars(BeginTx(r) /\ Serve(r))
-----------------------------------------------------------------------------
(***************************************************************************)
(* Properties.                                                             *)
(***************************************************************************)
Successful(r, op) ==
  pc[r] \in Answered /\ req[r].op = op /\ resp[r].status = 201

\* Under one public key there is one chain, however often the process has
\* stopped and the same id was created again: no counter is used twice, and
\* every signature but the first follows one made under the same key.
OneChainPerKey ==
  \A a \in archive :
    /\ \A b \in archive :
         a.key = b.key /\ a.signedData.counter = b.signedData.counter => a = b
    /\ \/ a.signedData.counter = 0 /\ a.signedData.last = Base64(a.id)
       \/ \E b \in archive :
            /\ b.key = a.key /\ b.life = a.life
            /\ a.signedData.counter = Inc64(b.signedData.counter)
            /\ a.signedData.last = b.signature

\* A client that kept the public key of a device's creation can verify the
\* signatures of that id made in the same life, and none made in another: the
\* id alone does not tell which device has signed.
AnswersVerifyInTheirLife ==
  \A c, s \in Requests :
    Successful(c, "CreateSignatureDevice") /\ Successful(s, "SignTransaction")
      /\ req[c].id = req[s].id
    => (Verifies(resp[c].PublicKeyPem, resp[s].SignedData, resp[s].Signature.base64)
          <=> bornIn[c] = bornIn[s])

\* The lock belongs to a transaction that is under way, or to one that a panic
\* of the signing library has cut off; no other failure leaves it behind.
LockLeaksOnlyBySigning ==
  mu # None =>
    \/ pc[mu] \in Critical
    \/ mu \in panicked /\ req[mu].op = "SignTransaction"

\* Such a panic is final: until the process is started again, no device is
\* created, read or changed by anyone, and no request in a queue gets further.
Leaked == mu \in panicked
NothingMovesOnceLeaked ==
  [][Leaked /\ life' = life =>
       /\ UNCHANGED storageVars
       /\ \A r \in Requests : pc[r] = "begin" => pc'[r] = "begin"]_allVars

\* A panic during key generation costs one request and nothing else: unless the
\* signing library has panicked under the lock, every request that arrived is
\* answered, or lost with the process.  A request arrives once, so it is enough
\* that no moment leaves one pending for ever.
PanicsAreContained ==
  []<>(Leaked \/ \A r \in Requests : pc[r] \in {"idle", "lost"} \cup Answered)
=============================================================================
