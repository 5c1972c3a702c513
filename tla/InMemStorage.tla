--------------------------- MODULE InMemStorage ----------------------------
(***************************************************************************)
(* The repository the server runs on: two Go maps behind one RWMutex of    *)
(* which only the writer side is used (internal/repository/inmem).  A      *)
(* "transaction" is the critical section: Tx locks, and Commit and         *)
(* Rollback both do nothing but unlock, so a write made inside the section *)
(* is in the maps at once and for good.                                    *)
(***************************************************************************)
EXTENDS Integers, Sequences, Signing

CONSTANTS
  Requests,     \* the HTTP requests, one handler goroutine each
  DeviceIDs,    \* the device identifiers clients use
  MaxInt64      \* 2^63 - 1 in the code: where the counter wraps

ASSUME NoneAssumption == None \notin Requests
ASSUME MaxInt64Assumption == MaxInt64 \in Nat \ {0}

VARIABLES
  mu,           \* the request that holds Storage.mu, or None
  devices,      \* Storage.devices: a map, a function on the ids it holds
  signatures    \* Storage.signatures: a map, nil from NewStorage on

storageVars == <<mu, devices, signatures>>

EmptyMap == [k \in {} |-> None]

\* m[k] = v
MapPut(m, k, v) == [x \in DOMAIN m \cup {k} |-> IF x = k THEN v ELSE m[x]]

\* Mutated form of Inc64: a counter that never wraps.
Inc64Unbounded(n) == n + 1

\* n++ on an int64.
Inc64(n) == IF n = MaxInt64 THEN -MaxInt64 - 1 ELSE n + 1

Int64 == (-MaxInt64 - 1) .. MaxInt64

NewStorage ==
  /\ mu = None
  /\ devices = EmptyMap
  /\ signatures = EmptyMap

\* Mutated form of Lock: the mutex left out.
LockWithoutWaiting(r) == mu' = r

Lock(r) ==
  /\ mu = None
  /\ mu' = r

\* A Go mutex has no owner: Unlock frees it whoever holds it.
Unlock == mu' = None

Found(id) == id \in DOMAIN devices

\* The fields every SignatureDevice value has.  The label, which no code reads
\* but to print it, is left out.
DeviceFields == {"ID", "Algorithm", "PrivateKey", "PublicKeyPem",
                 "LastSignature", "SignatureCounter"}

\* What a lookup of an absent key yields.
ZeroDevice == [f \in DeviceFields |-> IF f = "SignatureCounter" THEN 0 ELSE None]

\* The insertion of CreateNewSignatureDevice, once the id is known to be free.
CreateNewSignatureDevice(id, alg, key) ==
  devices' = MapPut(devices, id,
               [ID               |-> id,
                Algorithm        |-> alg,
                PrivateKey       |-> key,
                PublicKeyPem     |-> PublicKeyPEM(key),
                LastSignature    |-> Base64(id),
                SignatureCounter |-> 0])

\* Mutated forms of AddSignature: the counter forgotten, the link forgotten.
AddSignatureSameCounter(id, signature) ==
  LET dev == IF Found(id) THEN devices[id] ELSE ZeroDevice
  IN  devices' = MapPut(devices, id, [dev EXCEPT !.LastSignature = signature])
AddSignatureSameLink(id, signature) ==
  LET dev == IF Found(id) THEN devices[id] ELSE ZeroDevice
  IN  devices' = MapPut(devices, id,
                   [dev EXCEPT !.SignatureCounter = Inc64(@)])

AddSignature(id, signature) ==
  LET dev == IF Found(id) THEN devices[id] ELSE ZeroDevice
  IN  devices' = MapPut(devices, id,
                   [dev EXCEPT !.SignatureCounter = Inc64(@),
                               !.LastSignature    = signature])

DeviceInfo(id) ==
  [Algorithm        |-> devices[id].Algorithm,
   LastSignature    |-> devices[id].LastSignature,
   SignatureCounter |-> devices[id].SignatureCounter,
   PrivateKey       |-> devices[id].PrivateKey]

\* The copy ListDeviceSignatures makes; a nil map reads as empty.
SignaturesOf(id) == IF id \in DOMAIN signatures THEN signatures[id] ELSE << >>
=============================================================================
