-------------------- MODULE MCSignatureServiceRefinement -------------------
(***************************************************************************)
(* Values of the constants of SignatureServiceRefinement for TLC.          *)
(***************************************************************************)
EXTENDS SignatureServiceRefinement, TLC

CONSTANTS d1, d2, tx, s1

\* Every operation of the code; the reads of one device are those of the first.
EveryCall ==
       [op : {"CreateSignatureDevice"}, id : {d1, d2}, alg : {"ECC"}]
  \cup [op : {"SignTransaction"}, id : {d1, d2}, data : {tx}]
  \cup [op : {"ListSignatureDevices"}]
  \cup [op : {"GetSignatureDevice", "ListDeviceSignatures"}, id : {d1}]
  \cup [op : {"GetDeviceSignature"}, id : {d1}, sig : {s1}]
=============================================================================
