------------------------ MODULE MCSignatureService -------------------------
(***************************************************************************)
(* Values of the constants of SignatureService for TLC.                    *)
(***************************************************************************)
EXTENDS SignatureService, TLC

CONSTANTS d1, d2, tx, s1

Creates(ids, algs) == [op : {"CreateSignatureDevice"}, id : ids, alg : algs]
Signs(ids, data)   == [op : {"SignTransaction"}, id : ids, data : data]
Gets(ids)          == [op : {"GetSignatureDevice"}, id : ids]
Lists              == [op : {"ListSignatureDevices"}]
SigLists(ids)      == [op : {"ListDeviceSignatures"}, id : ids]
SigGets(ids, sigs) == [op : {"GetDeviceSignature"}, id : ids, sig : sigs]

\* Every operation on the devices of those ids.
Everything(ids) ==
  Creates(ids, {"ECC"}) \cup Signs(ids, {tx}) \cup Gets(ids) \cup Lists
    \cup SigLists(ids) \cup SigGets(ids, {s1})
OneDevice  == Everything({d1})
TwoDevices == Everything({d1, d2})

RequestSymmetry == Permutations(Requests)
Symmetry == Permutations(Requests) \cup Permutations(DeviceIDs)
=============================================================================
