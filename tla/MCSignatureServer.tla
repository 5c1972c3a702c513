------------------------- MODULE MCSignatureServer -------------------------
(***************************************************************************)
(* Values of the constants of SignatureServer for TLC.                     *)
(***************************************************************************)
EXTENDS SignatureServerRefinement, TLC

CONSTANTS d1, tx, s1

\* Writes on one device, of RSA, whose signatures are not randomised and would
\* show what a restart repeats.
Writes ==
  [op : {"CreateSignatureDevice"}, id : {d1}, alg : {"RSA"}]
    \cup [op : {"SignTransaction"}, id : {d1}, data : {tx}]
=============================================================================
