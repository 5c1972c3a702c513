--------------------- MODULE SignatureServerRefinement ---------------------
(***************************************************************************)
(* The service with panics and restarts, beside the ledger: each life of   *)
(* the process implements it, and a restart begins another.                *)
(***************************************************************************)
EXTENDS SignatureServer, SignatureServiceRefinement

\* What a restart is to the ledger: the book is empty again, the calls and the
\* answers clients hold stay, and what was under way is nobody's to serve.
StartsOver ==
  /\ life' = life + 1
  /\ BookOfDevices' = Ledger!NewBook
  /\ req' = req
  /\ \A r \in Requests :
       PhaseOf(r) \in {"idle", "replied"} =>
         PhaseOf(r)' = PhaseOf(r) /\ AnswerOf(r)' = AnswerOf(r)

\* Within a life every step is one of the ledger: a handler that panics refuses
\* its request and leaves no trace in the book, whatever it had read or computed,
\* and what is answered before and after is still the work of one order of
\* requests.  Only a restart is not a step of the ledger.
LivesFollowTheLedger ==
  /\ Ledger!Init
  /\ [][\/ Ledger!Next /\ life' = life
        \/ StartsOver]_<<Ledger!ledgerVars, life>>
=============================================================================
