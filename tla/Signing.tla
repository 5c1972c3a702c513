------------------------------ MODULE Signing ------------------------------
(***************************************************************************)
(* The signing registry and the values that travel through it              *)
(* (internal/signing, and the two expressions of the service that build    *)
(* what is signed).                                                        *)
(*                                                                         *)
(* Cryptographic values are symbolic terms: a key is known by its          *)
(* algorithm and by the request that generated it, a signature by its key, *)
(* its message and, for ECDSA, the randomness of the call.  Two terms are  *)
(* equal exactly when the byte strings are, up to a collision or a forgery *)
(* of the primitives.                                                      *)
(***************************************************************************)

CONSTANTS None      \* the zero value: no request, no payload, no randomness

\* The enum of CreateSignatureDeviceRequest.algorithm, which the generated
\* validation enforces before a handler runs.
Algorithms == {"ECC", "RSA"}

\* The algorithms Run registers a signer for.
Signers == {"ECC", "RSA"}

\* The private key that request r generates.
NewKey(alg, r) == [alg |-> alg, owner |-> r]

\* EncodePublicKeyPEM of the public half of a private key.
PublicKeyPEM(key) == [pem |-> key]

\* GetSigner, then the type assertion Sign makes on the private key.
CanSign(alg, key) == alg \in Signers /\ key.alg = alg

\* The status of a request whose algorithm the registry looked up in vain, or
\* whose key generation or signing failed.
FailureStatus(alg) == IF alg \in Signers THEN 500 ELSE 400

\* ECDSA draws randomness for every signature; RSA PKCS #1 v1.5 does not.
ECDSASign(key, message, r) == [key |-> key, message |-> message, nonce |-> r]
RSASign(key, message) == [key |-> key, message |-> message, nonce |-> None]

SignatureOf(key, message, r) ==
  IF key.alg = "ECC" THEN ECDSASign(key, message, r) ELSE RSASign(key, message)

\* What a holder of the device's public key can check.
Verifies(pem, message, signature) ==
  signature.message = message /\ PublicKeyPEM(signature.key) = pem

\* Injective, like the encoding.
Base64(bytes) == [base64 |-> bytes]

\* The message "<counter>_<data>_<last signature>".
SecuredData(counter, data, last) ==
  [counter |-> counter, data |-> data, last |-> last]
=============================================================================
