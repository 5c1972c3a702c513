--------------------- MODULE SignatureServiceRefinement --------------------
(***************************************************************************)
(* The service implements the ledger.  A request is served at the step     *)
(* that decides its answer: the write of a device or of a signature, the   *)
(* lookup that fails, the read.  Its answer is already determined then,    *)
(* though the code builds the 201 ones only after Commit.                  *)
(***************************************************************************)
EXTENDS SignatureService

\* The devices, with the signatures history says they made.
BookOfDevices ==
  [id \in DOMAIN devices |->
     [key |-> devices[id].PrivateKey, entries |-> issued[id]]]

PhaseOf(r) ==
  CASE pc[r] = "idle"                             -> "idle"
    [] pc[r] = "done"                             -> "replied"
    [] pc[r] \in {"commit", "rollback", "return"} -> "served"
    [] OTHER                                      -> "pending"

\* The ledger does not say what a list of signatures holds.
StatusOnly == {"ListDeviceSignatures", "GetDeviceSignature"}

AnswerOf(r) ==
  IF pc[r] = "commit" THEN CommitResponse(r)
  ELSE IF PhaseOf(r) \in {"served", "replied"} /\ req[r].op \in StatusOnly
       THEN [status |-> resp[r].status]
       ELSE resp[r]

Ledger == INSTANCE SignatureLedger WITH
  book   <- BookOfDevices,
  phase  <- [r \in Requests |-> PhaseOf(r)],
  call   <- req,
  answer <- [r \in Requests |-> AnswerOf(r)]

\* Seen from outside, the service is the ledger: whatever the interleaving of
\* the handlers, their effects and answers are those of some order in which
\* the requests were served one at a time, each between its arrival and its
\* answer, and a request that arrived is served.
ImplementsLedger == Ledger!Spec
=============================================================================
