--------------------------------- MODULE Jws ---------------------------------
(***************************************************************************)
(* Signature verification of access tokens and DPoP proofs: which algs are *)
(* accepted, which JWKs are used for them, and on which of the two crypto  *)
(* backends.  The cryptography itself is external: a signature verifies    *)
(* under a key exactly if the holder of that key made it.                  *)
(*                                                                         *)
(* A key pair is <<curve, holder>>, its curve "RSA" for an RSA key.  A JWK *)
(* is a record [kty, crv, x, y, n, e, priv]; a coordinate or modulus is    *)
(* the key pair it was computed from, or None; <<"short", holder>> is a    *)
(* coordinate that is not of any curve's length; priv says that one of the *)
(* members d, p, q, dp, dq, qi is there.                                   *)
(*                                                                         *)
(* A JWS has the header fields alg and typ, for a proof also jwk, and its  *)
(* `signer`: the key pair that signed header and payload, None if none did *)
(* or the signature does not have the form alg prescribes.                 *)
(***************************************************************************)
CONSTANT None   \* an absent header, member, claim or certificate

RsaAlgs == {"RS256", "RS384", "RS512", "PS256", "PS384", "PS512"}

\* The policy allowlist, `SIGNING_ALGS` (`alg_in_policy`).
SigningAlgs == {"ES256", "ES384", "ES512", "EdDSA"} \cup RsaAlgs

\* `alg_is_verifiable`: ES512 only in a build with the `es512` feature.
AlgIsVerifiable(alg, es512) ==
  alg \in SigningAlgs \ {"ES512"} \/ (es512 /\ alg = "ES512")

\* The check of an access token's alg, before its keys are resolved.
AlgAccepted(alg, es512) == alg \in SigningAlgs /\ AlgIsVerifiable(alg, es512)

\* `map_algorithm`: ES512 never reaches `jsonwebtoken`.
MapAlgorithm(alg, es512) == AlgAccepted(alg, es512) /\ alg # "ES512"

\* `typ` is compared without regard to case: a spelling that differs stands
\* for all of them.
Spellings == [want \in {"at+jwt", "dpop+jwt"} |->
                IF want = "at+jwt" THEN {"at+jwt", "AT+JWT"}
                                   ELSE {"dpop+jwt", "DPoP+JWT"}]

EnforceTyp(typ, want) == typ \in Spellings[want]

-----------------------------------------------------------------------------
(* Keys *)

IsSymmetric(jwk) == jwk.kty \in {"oct", "OCT"}

HasPrivateMaterial(jwk) == jwk.priv

\* The guards both backends put first.
PublicKey(jwk) == ~IsSymmetric(jwk) /\ ~HasPrivateMaterial(jwk)

\* `decoding_key_from_jwk`: the members a key of this type needs are there.
\* The curve an EC key declares is not looked at.
DecodingKeyFromJwk(jwk) ==
  /\ PublicKey(jwk)
  /\ \/ jwk.kty = "EC" /\ jwk.x # None /\ jwk.y # None
     \/ jwk.kty = "RSA" /\ jwk.n # None /\ jwk.e # None
     \/ jwk.kty = "OKP" /\ jwk.x # None

\* Bug variant of P521VerifyingKey: the declared curve is not looked at.
P521VerifyingKey_anyCurve(jwk) ==
  /\ PublicKey(jwk)
  /\ jwk.kty \in {"EC", "ec"}
  /\ jwk.x # None /\ jwk.y = jwk.x
  /\ jwk.x[1] = "P-521"

\* `p521_verifying_key_from_jwk`: an EC key that declares P-521, with a point
\* of that curve in coordinates of full length.
P521VerifyingKey(jwk) ==
  /\ PublicKey(jwk)
  /\ jwk.kty \in {"EC", "ec"} /\ jwk.crv = "P-521"
  /\ jwk.x # None /\ jwk.y = jwk.x
  /\ jwk.x[1] = "P-521"

\* The curve an alg signs on.
CurveOf(alg) ==
  CASE alg = "ES256" -> "P-256" [] alg = "ES384" -> "P-384"
    [] alg = "ES512" -> "P-521" [] alg = "EdDSA" -> "Ed25519"
    [] OTHER -> "RSA"

\* The key type an alg needs.
KtyOf(alg) ==
  CASE alg \in {"ES256", "ES384", "ES512"} -> "EC" [] alg = "EdDSA" -> "OKP"
    [] OTHER -> "RSA"

\* `jsonwebtoken::decode` with the key built from `jwk` (external): the key's
\* family is the alg's, and its holder signed, on the alg's curve.
JwtDecode(jwk, alg, signer) ==
  /\ jwk.kty = KtyOf(alg)
  /\ signer # None /\ signer[1] = CurveOf(alg)
  /\ \/ jwk.kty = "EC" /\ jwk.x = signer /\ jwk.y = signer
     \/ jwk.kty = "RSA" /\ jwk.n = signer /\ jwk.e = signer
     \/ jwk.kty = "OKP" /\ jwk.x = signer

\* `p521`'s `verify` (external).
P521Verify(jwk, signer) == jwk.x = signer

\* `verify_es512_over_candidates`: a candidate that is no P-521 key is skipped.
VerifyEs512OverCandidates(jws, candidates) ==
  \E jwk \in candidates : P521VerifyingKey(jwk) /\ P521Verify(jwk, jws.signer)

\* `verify_signature`: ES512 forks off before `map_algorithm`; one candidate
\* that verifies is enough, and one that is unusable does not matter.
VerifySignature(jws, candidates, want, es512) ==
  IF es512 /\ jws.alg = "ES512"
    THEN EnforceTyp(jws.typ, want) /\ VerifyEs512OverCandidates(jws, candidates)
    ELSE /\ MapAlgorithm(jws.alg, es512)
         /\ EnforceTyp(jws.typ, want)
         /\ \E jwk \in candidates : DecodingKeyFromJwk(jwk)
                                      /\ JwtDecode(jwk, jws.alg, jws.signer)

\* `verify_proof_with_embedded_jwk`: the proof is checked with its own key.
VerifyProofWithEmbeddedJwk(jws, es512) ==
  /\ jws.jwk # None
  /\ PublicKey(jws.jwk)
  /\ VerifySignature(jws, {jws.jwk}, "dpop+jwt", es512)

\* `thumbprint_sha256`: a digest of the required members of the key type, as
\* good as those members themselves; None when one is missing or the type is
\* none of the three.
Thumbprint(jwk) ==
  CASE jwk.kty = "EC" /\ jwk.crv # None /\ jwk.x # None /\ jwk.y # None ->
         [kty |-> "EC", crv |-> jwk.crv, x |-> jwk.x, y |-> jwk.y]
    [] jwk.kty = "RSA" /\ jwk.e # None /\ jwk.n # None ->
         [kty |-> "RSA", e |-> jwk.e, n |-> jwk.n]
    [] jwk.kty = "OKP" /\ jwk.crv # None /\ jwk.x # None ->
         [kty |-> "OKP", crv |-> jwk.crv, x |-> jwk.x]
    [] OTHER -> None
=============================================================================
