-------------------------- MODULE SignatureLedger --------------------------
(***************************************************************************)
(* What the service promises its clients: every request takes effect at    *)
(* one instant between its arrival and its answer, or has no effect and is *)
(* refused.  A device is the key it was created with and the list of the   *)
(* signatures made so far; counter and last signature are functions of     *)
(* that list.  There is no lock, no snapshot and no unfinished write.      *)
(*                                                                         *)
(* Left open: the items of a list of signatures, and whether an operation  *)
(* is served at all (any request may be refused).                          *)
(***************************************************************************)
EXTENDS Naturals, Sequences, Signing

CONSTANTS Requests, Calls

VARIABLES
  book,     \* device id -> [key, entries], for the ids that were created
  phase,    \* idle, pending, served or replied, per request
  call,     \* the call of each request
  answer    \* its answer, from the instant it is served

ledgerVars == <<book, phase, call, answer>>

Refusals == {400, 500, 501}

NewBook == [id \in {} |-> None]

Init ==
  /\ book = NewBook
  /\ phase = [r \in Requests |-> "idle"]
  /\ call = [r \in Requests |-> None]
  /\ answer = [r \in Requests |-> None]

Open(id) == id \in DOMAIN book

\* Counter and last signature of a device, from the list of its signatures.
CounterOf(id) == Len(book[id].entries)
LastOf(id) ==
  IF book[id].entries = << >> THEN Base64(id)
  ELSE book[id].entries[Len(book[id].entries)].signature

View(id) ==
  [ID               |-> id,
   Algorithm        |-> book[id].key.alg,
   SignatureCounter |-> CounterOf(id),
   LastSignature    |-> LastOf(id),
   PublicKeyPem     |-> PublicKeyPEM(book[id].key)]

Send(r) ==
  /\ phase[r] = "idle"
  /\ \E c \in Calls : call' = [call EXCEPT ![r] = c]
  /\ phase' = [phase EXCEPT ![r] = "pending"]
  /\ UNCHANGED <<book, answer>>

Serves(r, op) == phase[r] = "pending" /\ call[r].op = op

Answer(r, a) ==
  /\ answer' = [answer EXCEPT ![r] = a]
  /\ phase' = [phase EXCEPT ![r] = "served"]
  /\ UNCHANGED call

CreateDevice(r) ==
  /\ Serves(r, "CreateSignatureDevice")
  /\ LET id  == call[r].id
         key == NewKey(call[r].alg, r)
     IN  IF Open(id)
         THEN Answer(r, [status |-> 409]) /\ UNCHANGED book
         ELSE /\ book' = [x \in DOMAIN book \cup {id} |->
                           IF x = id THEN [key |-> key, entries |-> << >>]
                           ELSE book[x]]
              /\ Answer(r, [status |-> 201, ID |-> id,
                            PublicKeyPem |-> PublicKeyPEM(key)])

SignNext(r) ==
  /\ Serves(r, "SignTransaction")
  /\ LET id == call[r].id
     IN  IF ~Open(id)
         THEN Answer(r, [status |-> 404]) /\ UNCHANGED book
         ELSE LET message == SecuredData(CounterOf(id), call[r].data, LastOf(id))
                  sig     == Base64(SignatureOf(book[id].key, message, r))
                  entry   == [by |-> r, signedData |-> message, signature |-> sig]
              IN  /\ book' = [book EXCEPT ![id].entries = Append(@, entry)]
                  /\ Answer(r, [status |-> 201, Signature |-> sig,
                                SignedData |-> message])

ReadDevice(r) ==
  /\ Serves(r, "GetSignatureDevice")
  /\ Answer(r, IF Open(call[r].id)
               THEN [status |-> 200, item |-> View(call[r].id)]
               ELSE [status |-> 404])
  /\ UNCHANGED book

ReadDevices(r) ==
  /\ Serves(r, "ListSignatureDevices")
  /\ Answer(r, [status |-> 200, items |-> [id \in DOMAIN book |-> View(id)]])
  /\ UNCHANGED book

ReadSignatures(r) ==
  /\ Serves(r, "ListDeviceSignatures")
  /\ Answer(r, [status |-> IF Open(call[r].id) THEN 200 ELSE 404])
  /\ UNCHANGED book

ReadSignature(r) ==
  /\ Serves(r, "GetDeviceSignature")
  /\ \E s \in {200, 404} :
       /\ s = 200 => Open(call[r].id)
       /\ Answer(r, [status |-> s])
  /\ UNCHANGED book

Refuse(r) ==
  /\ phase[r] = "pending"
  /\ \E s \in Refusals : Answer(r, [status |-> s])
  /\ UNCHANGED book

\* A request can also be turned away on arrival.
TurnAway(r) ==
  /\ phase[r] = "idle"
  /\ \E c \in Calls : call' = [call EXCEPT ![r] = c]
  /\ \E s \in Refusals : answer' = [answer EXCEPT ![r] = [status |-> s]]
  /\ phase' = [phase EXCEPT ![r] = "served"]
  /\ UNCHANGED book

Reply(r) ==
  /\ phase[r] = "served"
  /\ phase' = [phase EXCEPT ![r] = "replied"]
  /\ UNCHANGED <<book, call, answer>>

Serve(r) ==
  \/ CreateDevice(r)
  \/ SignNext(r)
  \/ ReadDevice(r)
  \/ ReadDevices(r)
  \/ ReadSignatures(r)
  \/ ReadSignature(r)
  \/ Refuse(r)

Next == \E r \in Requests : Send(r) \/ TurnAway(r) \/ Serve(r) \/ Reply(r)

Safety == Init /\ [][Next]_ledgerVars

\* A request that arrived is served in the end.
Spec == Safety /\ \A r \in Requests : WF_ledgerVars(Serve(r))
=============================================================================
