---------------------------- MODULE VerifierProofs ----------------------------
(***************************************************************************)
(* What `verify` has established by the time it issues credentials, for    *)
(* every number of requests in flight, every configuration that validates, *)
(* every token, proof, key set and profile.                                *)
(***************************************************************************)
EXTENDS Verifier, ReplayMapProofs

(***************************************************************************)
(* The inductive invariant: what a request has shown by the stage it is    *)
(* at.  Each stage adds its part and none is lost on the way, because the  *)
(* request, its keys and the configuration do not change underneath it.    *)
(***************************************************************************)
Received(t) == req[t] \in Requests /\ EarlyAnswer(req[t]) = "none"

Keyed(t) == keys[t] \in KeySets[Token(t).iss] /\ AlgAccepted(Token(t).alg, cfg.es512)

Signed(t) ==
  VerifySignature(Token(t), keys[t], "at+jwt", cfg.es512) /\ cfg.audience \in Token(t).aud

\* What of ProofValid does not depend on the time.
ProofSound(r) ==
  /\ r.proof # NoProof /\ r.token.jkt # None
  /\ VerifyProofWithEmbeddedJwk(r.proof, cfg.es512)
  /\ r.proof.bound /\ r.proof.jti # None
  /\ AthAccepted(r.proof)
  /\ Thumbprint(r.proof.jwk) = r.token.jkt

Possessed(t) ==
  /\ Token(t).x5t # Malformed
  /\ MustDpop(req[t]) => ProofSound(req[t])
  /\ CertMatches(req[t])

Shown(t) ==
  /\ pc[t] = "idle" => req[t] = NoRequest
  /\ pc[t] # "idle" => Received(t)
  /\ pc[t] \in {"token", "pop", "identity", "replay", "profile"} => Keyed(t)
  /\ pc[t] \in {"pop", "identity", "replay", "profile"} => Signed(t)
  /\ pc[t] \in {"identity", "replay", "profile"} => Possessed(t)
  /\ pc[t] \in {"replay", "profile"} => IdentityAccepted(Token(t))
  /\ pc[t] = "replay" => Proof(t) # NoProof

Stages == {"idle", "keys", "token", "pop", "identity", "replay", "profile"}

Shape ==
  /\ pc \in [Threads -> Stages]
  /\ req \in [Threads -> Requests \cup {NoRequest}]
  /\ keys = [t \in Threads |-> keys[t]]
  /\ outcome \in [Threads -> Outcomes]
  /\ cfg \in Configs /\ Validates(cfg)

IndInv == Shape /\ (\A t \in Threads : Shown(t)) /\ asked \subseteq Trusted

-----------------------------------------------------------------------------
(* Leaving a stage *)

\* An early answer is an answer, and going on means a trusted issuer.
LEMMA EarlyAnswers ==
  ASSUME NEW r
  PROVE  /\ EarlyAnswer(r) \in {"none", "public", "invalid_request", "invalid_token"}
         /\ EarlyAnswer(r) = "none" => r.scheme # "none" /\ r.token.iss \in Trusted
BY DEF EarlyAnswer

\* A request that is left alone keeps what it has shown.
LEMMA Frame ==
  ASSUME NEW t, Shown(t), pc'[t] = pc[t], req'[t] = req[t], keys'[t] = keys[t],
         cfg' = cfg
  PROVE  Shown(t)'
BY DEF Shown, Received, EarlyAnswer, BearerRefused, Keyed, Signed, Token, Proof,
       Possessed, MustDpop, ProofSound, AthAccepted, CertMatches,
       IdentityAccepted, PartyAccepted

\* `verify` goes on.
LEMMA GoesOn ==
  ASSUME IndInv, NEW t \in Threads, NEW s \in Stages, Goto(t, s), cfg' = cfg,
         asked' \subseteq Trusted, Shown(t)'
  PROVE  IndInv'
<1>1. Shape'
  BY DEF IndInv, Shape, Goto, Validates
<1>2. ASSUME NEW u \in Threads, u # t PROVE Shown(u)'
  BY <1>2, Frame DEF IndInv, Shape, Goto
<1> QED
  BY <1>1, <1>2 DEF IndInv

\* `verify` returns.
LEMMA Returns ==
  ASSUME IndInv, NEW t \in Threads, NEW o \in Outcomes, Answer(t, o), cfg' = cfg,
         asked' \subseteq Trusted
  PROVE  IndInv'
<1>1. Shape'
  BY DEF IndInv, Shape, Answer, Validates, Stages
<1>2. pc'[t] = "idle" /\ req'[t] = NoRequest
  BY DEF IndInv, Shape, Answer
<1>3. Shown(t)'
  BY <1>2 DEF Shown
<1>4. ASSUME NEW u \in Threads, u # t PROVE Shown(u)'
  <2>1. pc'[u] = pc[u] /\ req'[u] = req[u] /\ keys'[u] = keys[u]
    BY <1>4 DEF IndInv, Shape, Answer
  <2> QED
    BY <2>1, <1>4, Frame DEF IndInv
<1> QED
  BY <1>1, <1>3, <1>4 DEF IndInv

\* Nothing a request has shown depends on the clocks or the store.
LEMMA Unmoved ==
  ASSUME IndInv, UNCHANGED <<cfg, pc, req, keys, outcome, asked>>
  PROVE  IndInv'
<1>1. Shape'
  BY DEF IndInv, Shape, Validates
<1>2. ASSUME NEW u \in Threads PROVE Shown(u)'
  BY <1>2, Frame DEF IndInv
<1> QED
  BY <1>1, <1>2 DEF IndInv

-----------------------------------------------------------------------------
(* The stages *)

LEMMA ReceiveStep ==
  ASSUME IndInv, NEW t \in Threads, NEW r \in Requests, Receive(t, r)
  PROVE  IndInv'
<1>1. CASE EarlyAnswer(r) = "none"
  <2>1. pc' = [pc EXCEPT ![t] = "keys"] /\ req' = [req EXCEPT ![t] = r]
        /\ outcome' = [outcome EXCEPT ![t] = "none"] /\ keys' = keys
        /\ cfg' = cfg /\ asked' = asked
    BY <1>1 DEF Receive
  <2>2. Shape'
    BY <2>1 DEF IndInv, Shape, Validates, Stages, Outcomes
  <2>3. pc'[t] = "keys" /\ req'[t] = r
    BY <2>1 DEF IndInv, Shape
  <2>4. (EarlyAnswer(req[t]) = "none")'
    BY <1>1, <2>1, <2>3 DEF EarlyAnswer, BearerRefused
  <2>5. Shown(t)'
    BY <2>3, <2>4 DEF Shown, Received
  <2>6. ASSUME NEW u \in Threads, u # t PROVE Shown(u)'
    <3>1. pc'[u] = pc[u] /\ req'[u] = req[u] /\ keys'[u] = keys[u]
      BY <2>1, <2>6 DEF IndInv, Shape
    <3> QED
      BY <2>1, <2>6, <3>1, Frame DEF IndInv
  <2> QED
    BY <2>1, <2>2, <2>5, <2>6 DEF IndInv
<1>2. CASE EarlyAnswer(r) # "none"
  <2>1. Answer(t, EarlyAnswer(r)) /\ cfg' = cfg /\ asked' = asked
    BY <1>2 DEF Receive
  <2>2. EarlyAnswer(r) \in Outcomes
    BY EarlyAnswers DEF Outcomes
  <2> QED
    BY <2>1, <2>2, Returns DEF IndInv
<1> QED
  BY <1>1, <1>2

LEMMA ResolveKeysStep ==
  ASSUME IndInv, NEW t \in Threads, ResolveKeys(t)
  PROVE  IndInv'
<1>1. pc[t] = "keys" /\ AlgAccepted(Token(t).alg, cfg.es512) /\ cfg' = cfg
      /\ asked' = asked \cup {Token(t).iss}
  BY DEF ResolveKeys
<1>2. Received(t)
  BY <1>1 DEF IndInv, Shown
<1>3. asked' \subseteq Trusted
  BY <1>1, <1>2, EarlyAnswers DEF IndInv, Received, Token
<1>4. CASE Answer(t, "invalid_token")
  BY <1>1, <1>3, <1>4, Returns DEF Outcomes
<1>5. ASSUME NEW ks \in KeySets[Token(t).iss],
             keys' = [keys EXCEPT ![t] = ks], pc' = [pc EXCEPT ![t] = "token"],
             UNCHANGED <<outcome, req>>
      PROVE  IndInv'
  <2>1. Shape'
    BY <1>1, <1>5 DEF IndInv, Shape, Validates, Stages
  <2>2. pc'[t] = "token" /\ keys'[t] = ks /\ req'[t] = req[t]
    BY <1>5 DEF IndInv, Shape
  <2>3. Received(t)'
    BY <1>1, <1>2, <2>2 DEF Received, EarlyAnswer, BearerRefused
  <2>4. Keyed(t)'
    BY <1>1, <1>5, <2>2 DEF Keyed, Token
  <2>5. Shown(t)'
    BY <2>2, <2>3, <2>4 DEF Shown
  <2>6. ASSUME NEW u \in Threads, u # t PROVE Shown(u)'
    <3>1. pc'[u] = pc[u] /\ req'[u] = req[u] /\ keys'[u] = keys[u]
      BY <1>5, <2>6 DEF IndInv, Shape
    <3> QED
      BY <1>1, <2>6, <3>1, Frame DEF IndInv
  <2> QED
    BY <1>3, <2>1, <2>5, <2>6 DEF IndInv
<1> QED
  BY <1>4, <1>5 DEF ResolveKeys

LEMMA RefuseAlgStep ==
  ASSUME IndInv, NEW t \in Threads, RefuseAlg(t)
  PROVE  IndInv'
BY Returns DEF RefuseAlg, Outcomes, IndInv

\* What the unprimed state shows holds of the primed one when only the stage
\* moves: the part a stage adds is what remains to be proved.
LEMMA Carried ==
  ASSUME IndInv, NEW t \in Threads, NEW s \in Stages, Goto(t, s), cfg' = cfg
  PROVE  /\ pc'[t] = s /\ req'[t] = req[t] /\ keys'[t] = keys[t]
         /\ Received(t)' <=> Received(t)
         /\ Keyed(t)' <=> Keyed(t)
         /\ Signed(t)' <=> Signed(t)
         /\ Possessed(t)' <=> Possessed(t)
         /\ IdentityAccepted(Token(t))' <=> IdentityAccepted(Token(t))
<1>1. pc'[t] = s /\ req'[t] = req[t] /\ keys'[t] = keys[t]
  BY DEF IndInv, Shape, Goto
<1>2. Received(t)' <=> Received(t)
  BY <1>1 DEF Received, EarlyAnswer, BearerRefused
<1>3. Keyed(t)' <=> Keyed(t)
  BY <1>1 DEF Keyed, Token
<1>4. Signed(t)' <=> Signed(t)
  BY <1>1 DEF Signed, Token
<1>5. Possessed(t)' <=> Possessed(t)
  BY <1>1 DEF Possessed, Token, MustDpop, ProofSound, AthAccepted, CertMatches
<1>6. IdentityAccepted(Token(t))' <=> IdentityAccepted(Token(t))
  BY <1>1 DEF IdentityAccepted, PartyAccepted, Token
<1> QED
  BY <1>1, <1>2, <1>3, <1>4, <1>5, <1>6

LEMMA ValidateAccessTokenStep ==
  ASSUME IndInv, NEW t \in Threads, ValidateAccessToken(t)
  PROVE  IndInv'
<1>1. pc[t] = "token" /\ cfg' = cfg /\ asked' \subseteq Trusted
  BY DEF ValidateAccessToken, IndInv
<1>2. CASE AccessTokenValid(Token(t), keys[t], NowSecs(wall))
  <2>1. Goto(t, "pop")
    BY <1>2 DEF ValidateAccessToken, Require
  <2>2. Received(t) /\ Keyed(t) /\ Signed(t)
    BY <1>1, <1>2 DEF IndInv, Shown, AccessTokenValid, Signed
  <2>3. Shown(t)'
    BY <1>1, <2>1, <2>2, Carried DEF Shown, Stages
  <2> QED
    BY <1>1, <2>1, <2>3, GoesOn DEF Stages
<1>3. CASE ~AccessTokenValid(Token(t), keys[t], NowSecs(wall))
  <2>1. Answer(t, "invalid_token")
    BY <1>3 DEF ValidateAccessToken, Require
  <2> QED
    BY <1>1, <2>1, Returns DEF Outcomes
<1> QED
  BY <1>2, <1>3

LEMMA ValidatePopStep ==
  ASSUME IndInv, NEW t \in Threads, ValidatePop(t)
  PROVE  IndInv'
<1>1. pc[t] = "pop" /\ cfg' = cfg /\ asked' \subseteq Trusted
  BY DEF ValidatePop, IndInv
<1> DEFINE lacks == MustDpop(req[t]) /\ ~ProofValid(req[t], NowSecs(wall))
<1>2. \/ Answer(t, "invalid_token")
      \/ Answer(t, "invalid_token_dpop")
      \/ Token(t).x5t # Malformed /\ ~lacks /\ CertMatches(req[t]) /\ Goto(t, "identity")
  BY DEF ValidatePop, Require
<1>3. CASE Answer(t, "invalid_token") \/ Answer(t, "invalid_token_dpop")
  BY <1>1, <1>3, Returns DEF Outcomes
<1>4. ASSUME Token(t).x5t # Malformed, ~lacks, CertMatches(req[t]), Goto(t, "identity")
      PROVE  IndInv'
  <2>1. MustDpop(req[t]) => ProofSound(req[t])
    BY <1>4 DEF ProofValid, ProofSound
  <2>2. Received(t) /\ Keyed(t) /\ Signed(t) /\ Possessed(t)
    BY <1>1, <1>4, <2>1 DEF IndInv, Shown, Possessed
  <2>3. Shown(t)'
    BY <1>1, <1>4, <2>2, Carried DEF Shown, Stages
  <2> QED
    BY <1>1, <1>4, <2>3, GoesOn DEF Stages
<1> QED
  BY <1>2, <1>3, <1>4

LEMMA IdentifyStep ==
  ASSUME IndInv, NEW t \in Threads, Identify(t)
  PROVE  IndInv'
<1>1. pc[t] = "identity" /\ cfg' = cfg /\ asked' \subseteq Trusted
  BY DEF Identify, IndInv
<1>2. CASE IdentityAccepted(Token(t))
  <2>1. Goto(t, Accepted(t)) /\ Accepted(t) \in Stages
    BY <1>2 DEF Identify, Require, Accepted, Stages
  <2>2. Received(t) /\ Keyed(t) /\ Signed(t) /\ Possessed(t)
    BY <1>1 DEF IndInv, Shown
  <2>3. Proof(t)' = Proof(t)
    BY <1>1, <2>1, Carried DEF Proof
  <2>4. Shown(t)'
    BY <1>1, <1>2, <2>1, <2>2, <2>3, Carried DEF Shown, Accepted
  <2> QED
    BY <1>1, <2>1, <2>4, GoesOn
<1>3. CASE ~IdentityAccepted(Token(t))
  <2>1. Answer(t, "invalid_token")
    BY <1>3 DEF Identify, Require
  <2> QED
    BY <1>1, <2>1, Returns DEF Outcomes
<1> QED
  BY <1>2, <1>3

\* From the replay check a request goes on to its profile, or is answered.
LEMMA ReplayStep ==
  ASSUME IndInv, NEW t \in Threads,
         MissingJti(t) \/ MarkNew(t) \/ MarkReplay(t) \/ MarkErr(t) \/ StoreDown(t)
  PROVE  IndInv'
<1>1. pc[t] = "replay" /\ cfg' = cfg /\ asked' \subseteq Trusted
  BY DEF MissingJti, MarkNew, MarkReplay, MarkErr, StoreDown, Mark, IndInv
<1>2. \/ Answer(t, "invalid_token_dpop") \/ Answer(t, "unavailable")
      \/ Goto(t, "profile")
  BY DEF MissingJti, MarkNew, MarkReplay, MarkErr, StoreDown, OnStoreError
<1>3. CASE Answer(t, "invalid_token_dpop") \/ Answer(t, "unavailable")
  BY <1>1, <1>3, Returns DEF Outcomes
<1>4. CASE Goto(t, "profile")
  <2>1. Shown(t)'
    BY <1>1, <1>4, Carried DEF IndInv, Shown, Stages
  <2> QED
    BY <1>1, <1>4, <2>1, GoesOn DEF Stages
<1> QED
  BY <1>2, <1>3, <1>4

LEMMA CheckBidirectionalStep ==
  ASSUME IndInv, NEW t \in Threads, CheckBidirectional(t)
  PROVE  IndInv'
<1>1. cfg' = cfg /\ asked' \subseteq Trusted
  BY DEF CheckBidirectional, IndInv
<1>2. Answer(t, "agent") \/ Answer(t, "invalid_token")
  BY DEF CheckBidirectional
<1> QED
  BY <1>1, <1>2, Returns DEF Outcomes

LEMMA IndStep == IndInv /\ [Next]_vars => IndInv'
<1> SUFFICES ASSUME IndInv, [Next]_vars PROVE IndInv'
  OBVIOUS
<1>1. ASSUME NEW t \in Threads, NEW r \in Requests, Receive(t, r) PROVE IndInv'
  BY <1>1, ReceiveStep
<1>2. ASSUME NEW t \in Threads, Stage(t) PROVE IndInv'
  BY <1>2, ResolveKeysStep, RefuseAlgStep, ValidateAccessTokenStep, ValidatePopStep,
     IdentifyStep, ReplayStep, CheckBidirectionalStep DEF Stage
<1>3. CASE Tick \/ StepForward \/ StepBack \/ UNCHANGED vars
  BY <1>3, Unmoved DEF Tick, StepForward, StepBack, vars
<1> QED
  BY <1>1, <1>2, <1>3 DEF Next

LEMMA InitInv == Init => IndInv
BY DEF Init, IndInv, Shape, Shown, Stages, Outcomes

\* "An untrusted issuer never drives discovery", for every allowlist and every
\* request: keys are resolved for trusted issuers only.
THEOREM TrustedOnly == Spec => []ResolvesOnlyTrusted
<1>1. IndInv => ResolvesOnlyTrusted
  BY DEF IndInv, ResolvesOnlyTrusted
<1> QED
  BY <1>1, InitInv, IndStep, PTL DEF Spec

-----------------------------------------------------------------------------
(* What a verified signature and a matching thumbprint amount to *)

\* On either backend, a signature that verifies was made by the holder of a
\* public candidate key, on the curve of its alg; ES512 only with a P-521 key.
LEMMA SignatureSound ==
  ASSUME NEW jws, NEW ks, NEW want, NEW es512, VerifySignature(jws, ks, want, es512)
  PROVE  /\ jws.alg \in SigningAlgs
         /\ \E jwk \in ks :
              /\ PublicKey(jwk)
              /\ jwk.kty = "RSA" => jwk.n = jws.signer
              /\ jwk.kty # "RSA" => jwk.x = jws.signer
              /\ jws.signer[1] = CurveOf(jws.alg)
              /\ jws.alg = "ES512" => es512 /\ jwk.crv = "P-521"
<1>1. CASE es512 /\ jws.alg = "ES512"
  <2>1. PICK jwk \in ks : P521VerifyingKey(jwk) /\ jwk.x = jws.signer
    BY <1>1 DEF VerifySignature, VerifyEs512OverCandidates, P521Verify
  <2>2. CurveOf(jws.alg) = "P-521" /\ jws.alg \in SigningAlgs
    BY <1>1 DEF CurveOf, SigningAlgs
  <2>3. PublicKey(jwk) /\ jwk.kty # "RSA" /\ jwk.crv = "P-521" /\ jwk.x[1] = "P-521"
    BY <2>1 DEF P521VerifyingKey
  <2> QED
    BY <1>1, <2>1, <2>2, <2>3
<1>2. CASE ~(es512 /\ jws.alg = "ES512")
  <2>1. PICK jwk \in ks : DecodingKeyFromJwk(jwk) /\ JwtDecode(jwk, jws.alg, jws.signer)
    BY <1>2 DEF VerifySignature
  <2>2. jws.alg \in SigningAlgs /\ jws.alg # "ES512"
    BY <1>2 DEF VerifySignature, MapAlgorithm, AlgAccepted
  <2> QED
    BY <2>1, <2>2 DEF DecodingKeyFromJwk, JwtDecode
<1> QED
  BY <1>1, <1>2

\* A proof that verifies with its embedded key, whose thumbprint the token
\* names, was signed by the key pair the token is bound to.
LEMMA ProofByHolder ==
  ASSUME NEW p, NEW es512, NEW jkt, jkt # None,
         VerifyProofWithEmbeddedJwk(p, es512), Thumbprint(p.jwk) = jkt
  PROVE  p.signer = Holder(jkt) /\ ~p.jwk.priv
<1>1. PublicKey(p.jwk) /\ VerifySignature(p, {p.jwk}, "dpop+jwt", es512)
  BY DEF VerifyProofWithEmbeddedJwk
<1>2. /\ p.jwk.kty = "RSA" => p.jwk.n = p.signer
      /\ p.jwk.kty # "RSA" => p.jwk.x = p.signer
  BY <1>1, SignatureSound
<1>3. CASE p.jwk.kty = "EC"
  <2>1. jkt = [kty |-> "EC", crv |-> p.jwk.crv, x |-> p.jwk.x, y |-> p.jwk.y]
    BY <1>3 DEF Thumbprint
  <2> QED
    BY <1>1, <1>2, <1>3, <2>1 DEF Holder, PublicKey, HasPrivateMaterial
<1>4. CASE p.jwk.kty = "RSA"
  <2>1. jkt = [kty |-> "RSA", e |-> p.jwk.e, n |-> p.jwk.n]
    BY <1>4 DEF Thumbprint
  <2> QED
    BY <1>1, <1>2, <1>4, <2>1 DEF Holder, PublicKey, HasPrivateMaterial
<1>5. CASE p.jwk.kty = "OKP"
  <2>1. jkt = [kty |-> "OKP", crv |-> p.jwk.crv, x |-> p.jwk.x]
    BY <1>5 DEF Thumbprint
  <2> QED
    BY <1>1, <1>2, <1>5, <2>1 DEF Holder, PublicKey, HasPrivateMaterial
<1> QED
  BY <1>3, <1>4, <1>5 DEF Thumbprint

\* A request that was received and has shown possession is sender-constrained.
LEMMA Constrained ==
  ASSUME NEW t, Received(t), Possessed(t)
  PROVE  SenderConstrained(req[t])
<1> DEFINE r == req[t]
<1>1. r.token.jkt # None =>
        /\ r.proof # NoProof
        /\ r.proof.signer = Holder(r.token.jkt) /\ ~r.proof.jwk.priv
        /\ r.proof.bound /\ AthAccepted(r.proof)
  <2> SUFFICES ASSUME r.token.jkt # None
               PROVE  /\ r.proof # NoProof
                      /\ r.proof.signer = Holder(r.token.jkt) /\ ~r.proof.jwk.priv
                      /\ r.proof.bound /\ AthAccepted(r.proof)
    OBVIOUS
  <2>1. ProofSound(r)
    BY DEF Possessed, MustDpop
  <2> QED
    BY <2>1, ProofByHolder DEF ProofSound
<1>2. r.token.x5t # None => r.cert # None /\ r.cert = r.token.x5t
  BY DEF Possessed, CertMatches, CertBound, Token
<1>3. r.scheme = "dpop" => r.token.jkt # None
  BY DEF Possessed, MustDpop, ProofSound
<1>4. cfg.requireDpop => r.token.jkt # None \/ r.token.x5t # None
  BY DEF Possessed, MustDpop, ProofSound, CertBound
<1> QED
  BY <1>1, <1>2, <1>3, <1>4 DEF SenderConstrained, AthAccepted

\* One that was received, has its issuer's keys and verified is authentic.
LEMMA Genuine ==
  ASSUME IndInv, NEW t, Received(t), Keyed(t), Signed(t)
  PROVE  Authentic(t)
<1> DEFINE token == Token(t)
<1>1. token.iss \in Trusted /\ keys[t] \in KeySets[token.iss]
  BY EarlyAnswers DEF Received, Keyed, Token
<1>2. cfg.audience # "" /\ cfg.audience \in token.aud
  BY DEF IndInv, Shape, Validates, Signed
<1>3. token.alg \in SigningAlgs
  BY SignatureSound DEF Signed
<1>4. PICK jwk \in keys[t] :
         /\ PublicKey(jwk) /\ token.signer \in {jwk.x, jwk.n}
         /\ token.signer[1] = CurveOf(token.alg)
         /\ token.alg = "ES512" => cfg.es512 /\ jwk.crv = "P-521"
  BY SignatureSound DEF Signed
<1> QED
  BY <1>1, <1>2, <1>3, <1>4 DEF Authentic, PublicKey, HasPrivateMaterial

-----------------------------------------------------------------------------
(* Admission *)

\* Credentials are issued by the last stage only.
LEMMA AdmittedAtProfile ==
  ASSUME IndInv, [Next]_vars, NEW t \in Threads, Admits(t)
  PROVE  pc[t] = "profile" /\ BidirectionalAccepted(req[t])
<1>1. ASSUME NEW u \in Threads, NEW o, Answer(u, o)
      PROVE  u = t /\ o = "agent"
  BY <1>1 DEF Answer, Admits, IndInv, Shape
<1>2. outcome' # outcome
  BY DEF Admits
<1>3. ASSUME NEW u \in Threads, NEW r \in Requests, Receive(u, r) PROVE FALSE
  <2>1. CASE EarlyAnswer(r) = "none"
    BY <1>3, <2>1 DEF Receive, Admits, IndInv, Shape
  <2>2. CASE EarlyAnswer(r) # "none"
    BY <1>1, <1>3, <2>2, EarlyAnswers DEF Receive
  <2> QED
    BY <2>1, <2>2
<1>4. ASSUME NEW u \in Threads, Stage(u) PROVE CheckBidirectional(u)
  <2>1. ~Answer(u, "invalid_token") /\ ~Answer(u, "invalid_token_dpop")
        /\ ~Answer(u, "unavailable")
    BY <1>1
  <2>2. \A s : ~Goto(u, s)
    BY <1>2 DEF Goto
  <2>3. ~ResolveKeys(u) /\ ~RefuseAlg(u)
    BY <1>2, <2>1 DEF ResolveKeys, RefuseAlg
  <2>4. ~ValidateAccessToken(u) /\ ~ValidatePop(u) /\ ~Identify(u)
    BY <2>1, <2>2 DEF ValidateAccessToken, ValidatePop, Identify, Require
  <2>5. ~MissingJti(u) /\ ~MarkNew(u) /\ ~MarkReplay(u) /\ ~MarkErr(u) /\ ~StoreDown(u)
    BY <2>1, <2>2 DEF MissingJti, MarkNew, MarkReplay, MarkErr, StoreDown, OnStoreError
  <2> QED
    BY <1>4, <2>3, <2>4, <2>5 DEF Stage
<1>5. PICK u \in Threads : CheckBidirectional(u)
  BY <1>2, <1>3, <1>4 DEF Next, Tick, StepForward, StepBack, vars
<1>6. u = t /\ BidirectionalAccepted(req[u]) /\ pc[u] = "profile"
  BY <1>1, <1>5 DEF CheckBidirectional
<1> QED
  BY <1>6

\* So they go to a request that has shown everything.
LEMMA AdmittedLast ==
  ASSUME IndInv, [Next]_vars, NEW t \in Threads, Admits(t)
  PROVE  /\ Received(t) /\ Keyed(t) /\ Signed(t) /\ Possessed(t)
         /\ IdentityAccepted(Token(t)) /\ BidirectionalAccepted(req[t])
BY AdmittedAtProfile DEF IndInv, Shown

\* Whatever the number of requests and whatever they carry, no credentials are
\* issued to a request that has not honoured every binding of its token.
THEOREM NoDowngrade == Spec => AdmitsOnlyConstrained
<1>1. IndInv /\ [Next]_vars =>
        \A t \in Threads : Admits(t) => SenderConstrained(req[t])
  BY AdmittedLast, Constrained
<1> QED
  BY <1>1, InitInv, IndStep, PTL DEF Spec, AdmitsOnlyConstrained

\* No credentials for a token its issuer did not sign for this server, for
\* every key set, the defective ones included, and both crypto backends.
THEOREM NoForgery == Spec => AdmitsOnlyAuthentic
<1>1. IndInv /\ [Next]_vars => \A t \in Threads : Admits(t) => Authentic(t)
  BY AdmittedLast, Genuine
<1> QED
  BY <1>1, InitInv, IndStep, PTL DEF Spec, AdmitsOnlyAuthentic

\* A profile that lists the issuer vouches for it.
LEMMA ListedVouches ==
  ASSUME NEW r, Lists(r.profile, r.token.webid, r.token.iss)
  PROVE  /\ r.profile # Unreachable /\ r.profile.turtle
         /\ \E tr \in r.profile.triples : Vouches(r, tr)
<1> DEFINE w == r.token.webid
           home == Canonical[w.doc]
<1>1. r.profile # Unreachable /\ r.profile.turtle
      /\ r.token.iss \in ParseOidcIssuers(r.profile, w)
  BY DEF Lists
<1>2. PICK tr \in r.profile.triples :
         /\ tr.p = OidcIssuer /\ tr.o[1] = "iri" /\ tr.o[2] = r.token.iss
         /\ Resolved(tr.s, r.profile.final) \in {Iri(w), CanonicaliseProfileUrl(w)}
  BY <1>1 DEF ParseOidcIssuers
<1>3. \/ tr.s.doc = w.doc /\ tr.s.frag = w.frag
      \/ tr.s.doc = home /\ tr.s.frag = NoFragment
      \/ tr.s.doc = Relative /\ r.profile.final = w.doc /\ tr.s.frag = w.frag
      \/ tr.s.doc = Relative /\ r.profile.final = home /\ tr.s.frag = NoFragment
  BY <1>2 DEF Resolved, Iri, CanonicaliseProfileUrl
<1> QED
  BY <1>1, <1>2, <1>3 DEF Vouches

\* In strict mode nobody is admitted whose profile does not name the issuer
\* for this WebID, whatever else the profile says and wherever it was served.
THEOREM StrictlyVouched == Spec => AdmitsOnlyVouched
<1>1. ASSUME IndInv, [Next]_vars, NEW t \in Threads, Admits(t), cfg.mode = "strict"
      PROVE  /\ Token(t).webid.scheme = "https" /\ ~Token(t).webid.userinfo
             /\ req[t].profile # Unreachable /\ req[t].profile.turtle
             /\ \E tr \in req[t].profile.triples : Vouches(req[t], tr)
  <2>1. IdentityAccepted(Token(t)) /\ BidirectionalAccepted(req[t])
    BY <1>1, AdmittedLast
  <2>2. Lists(req[t].profile, req[t].token.webid, req[t].token.iss)
    BY <1>1, <2>1 DEF BidirectionalAccepted
  <2> QED
    BY <2>1, <2>2, ListedVouches DEF IdentityAccepted, ValidateWebidClaim
<1>2. IndInv /\ [Next]_vars => \A t \in Threads : (Admits(t) /\ cfg.mode = "strict") =>
        /\ Token(t).webid.scheme = "https" /\ ~Token(t).webid.userinfo
        /\ req[t].profile # Unreachable /\ req[t].profile.turtle
        /\ \E tr \in req[t].profile.triples : Vouches(req[t], tr)
  BY <1>1
<1> QED
  BY <1>2, InitInv, IndStep, PTL DEF Spec, AdmitsOnlyVouched

\* Only the replay check changes the store.
LEMMA SpentAtReplay ==
  ASSUME IndInv, [Next]_vars, map' # map
  PROVE  \E t \in Threads : pc[t] = "replay" /\ pc'[t] # "replay"
<1>1. PICK t \in Threads : MarkNew(t) \/ MarkReplay(t) \/ MarkErr(t) \/ StoreDown(t)
  BY DEF Next, Stage, Receive, ResolveKeys, RefuseAlg, ValidateAccessToken, ValidatePop,
     Identify, MissingJti, CheckBidirectional, Tick, StepForward, StepBack, store, vars
<1>2. pc[t] = "replay"
  BY <1>1 DEF MarkNew, MarkReplay, MarkErr, StoreDown, Mark
<1>3. \/ Answer(t, "invalid_token_dpop") \/ Answer(t, "unavailable")
      \/ Goto(t, "profile")
  BY <1>1 DEF MarkNew, MarkReplay, MarkErr, StoreDown, OnStoreError
<1>4. pc'[t] # "replay"
  BY <1>3 DEF Answer, Goto, IndInv, Shape
<1> QED
  BY <1>2, <1>4

\* The store changes for accepted requests only, so that a proof is not spent
\* by a refusal, for every number of requests in flight.
THEOREM SpentLast == Spec => SpendsOnlyAccepted
<1>1. ASSUME IndInv, [Next]_vars, map' # map
      PROVE  \E t \in Threads :
               /\ pc[t] = "replay" /\ pc'[t] # "replay"
               /\ SenderConstrained(req[t]) /\ Authentic(t)
               /\ IdentityAccepted(Token(t))
  <2>1. PICK t \in Threads : pc[t] = "replay" /\ pc'[t] # "replay"
    BY <1>1, SpentAtReplay
  <2>2. Received(t) /\ Keyed(t) /\ Signed(t) /\ Possessed(t)
        /\ IdentityAccepted(Token(t))
    BY <1>1, <2>1 DEF IndInv, Shown
  <2> QED
    BY <1>1, <2>1, <2>2, Constrained, Genuine
<1>2. IndInv /\ [Next]_vars => (map' # map => \E t \in Threads :
        /\ pc[t] = "replay" /\ pc'[t] # "replay"
        /\ SenderConstrained(req[t]) /\ Authentic(t)
        /\ IdentityAccepted(Token(t)))
  BY <1>1
<1> QED
  BY <1>2, InitInv, IndStep, PTL DEF Spec, SpendsOnlyAccepted

-----------------------------------------------------------------------------
(* The store and the clocks *)

StoreTypes ==
  /\ mono \in 0 .. MaxMono /\ wall \in 0 .. MaxWall /\ steppedBack \in BOOLEAN
  /\ DOMAIN map \subseteq Jtis /\ \A j \in DOMAIN map : map[j] \in Nat
  /\ recorded \subseteq ProofIds
  /\ uses \in [ProofIds -> 0 .. 2]

\* The replay TTL is a positive number of ticks.
LEMMA TtlPositive == ReplayTtl \in Nat /\ ReplayTtl > 0
<1> DEFINE n == WrapU64(2 * HalfWidth + 1)
<1>1. /\ TicksPerSec \in Nat /\ TicksPerSec > 0
      /\ MaxInt \in Nat /\ Modulus = 2 * MaxInt + 2
      /\ MaxAge \in Nat /\ MaxAge < Modulus /\ Tolerance \in Nat /\ Tolerance < Modulus
  BY FreshnessAssumptions DEF Modulus
<1>2. HalfWidth \in Nat /\ HalfWidth < Modulus
  BY <1>1 DEF HalfWidth, WrapU64
<1>3. n \in Nat /\ n > 0
  BY <1>1, <1>2 DEF WrapU64
<1> HIDE DEF n
<1>4. n * TicksPerSec \in Nat /\ n * TicksPerSec > 0
  BY <1>1, <1>3
<1> QED
  BY <1>4 DEF ReplayTtl, n

\* The proof a request brings to the replay check has an identity.
LEMMA Identified ==
  ASSUME IndInv, NEW t \in Threads, pc[t] = "replay", Proof(t).jti # None
  PROVE  Proof(t).jti \in Jtis /\ ProofId(req[t]) \in ProofIds
<1>1. req[t] \in Requests /\ Proof(t) # NoProof
  BY DEF IndInv, Shown, Received
<1> QED
  BY <1>1, RequestAssumptions DEF Proof, ProofId, ProofIds

\* A mark keeps the map's type.
LEMMA MarkTypes ==
  ASSUME StoreTypes, NEW jti \in Jtis
  PROVE  LET m == MarkedMap(map, jti, ReplayTtl, mono, Cap) IN
         DOMAIN m \subseteq Jtis /\ \A j \in DOMAIN m : m[j] \in Nat
<1> DEFINE m == MarkedMap(map, jti, ReplayTtl, mono, Cap)
           records == MarkOutcome(map, jti, ReplayTtl, mono, Cap) = "New" /\ ReplayTtl > 0
<1>1. /\ DOMAIN m \subseteq DOMAIN map \cup {jti}
      /\ \A j \in DOMAIN m : ~(records /\ j = jti) => j \in DOMAIN map /\ m[j] = map[j]
      /\ records => jti \in DOMAIN m /\ m[jti] = mono + ReplayTtl
  BY MarkKeepsLive
<1> HIDE DEF m, records
<1>2. mono + ReplayTtl \in Nat
  BY TtlPositive, VerifierAssumptions DEF StoreTypes
<1>3. ASSUME NEW j \in DOMAIN m PROVE m[j] \in Nat
  <2>1. CASE records /\ j = jti
    BY <1>1, <1>2, <2>1
  <2>2. CASE ~(records /\ j = jti)
    BY <1>1, <1>3, <2>2 DEF StoreTypes
  <2> QED
    BY <2>1, <2>2
<1>4. DOMAIN m \subseteq Jtis
  BY <1>1 DEF StoreTypes
<1> QED
  BY <1>3, <1>4 DEF m

LEMMA UseTypes ==
  ASSUME StoreTypes, NEW t, ProofId(req[t]) \in ProofIds, CountUse(t)
  PROVE  uses' \in [ProofIds -> 0 .. 2]
BY DEF StoreTypes, CountUse

LEMMA StoreStep == IndInv /\ StoreTypes /\ [Next]_vars => StoreTypes'
<1> SUFFICES ASSUME IndInv, StoreTypes, [Next]_vars PROVE StoreTypes'
  OBVIOUS
<1>1. CASE UNCHANGED <<clocks, store>>
  BY <1>1 DEF clocks, store, StoreTypes
<1>2. CASE Tick
  BY <1>2, VerifierAssumptions DEF Tick, store, StoreTypes
<1>3. CASE StepForward
  BY <1>3, VerifierAssumptions DEF StepForward, store, StoreTypes
<1>4. CASE StepBack
  BY <1>4, VerifierAssumptions DEF StepBack, store, StoreTypes
<1>5. ASSUME NEW t \in Threads,
             MarkNew(t) \/ MarkReplay(t) \/ MarkErr(t) \/ StoreDown(t)
      PROVE  StoreTypes'
  <2>1. pc[t] = "replay" /\ Proof(t).jti # None /\ UNCHANGED clocks
        /\ map' \in {map, MarkedMap(map, Proof(t).jti, ReplayTtl, mono, Cap)}
    BY <1>5 DEF MarkNew, MarkReplay, MarkErr, StoreDown, Mark
  <2>2. Proof(t).jti \in Jtis /\ ProofId(req[t]) \in ProofIds
    BY <2>1, Identified
  <2>3. DOMAIN map' \subseteq Jtis /\ \A j \in DOMAIN map' : map'[j] \in Nat
    BY <2>1, <2>2, MarkTypes DEF StoreTypes
  <2>4. UNCHANGED uses \/ CountUse(t)
    BY <1>5 DEF MarkNew, MarkReplay, MarkErr, StoreDown, OnStoreError
  <2>5. uses' \in [ProofIds -> 0 .. 2]
    BY <2>2, <2>4, UseTypes DEF StoreTypes
  <2>6. recorded' = recorded \/ recorded' = recorded \cup {ProofId(req[t])}
    BY <1>5 DEF MarkNew, MarkReplay, MarkErr, StoreDown, OnStoreError
  <2>7. recorded' \subseteq ProofIds
    BY <2>2, <2>6 DEF StoreTypes
  <2> QED
    BY <2>1, <2>3, <2>5, <2>7 DEF StoreTypes, clocks
<1> QED
  BY <1>1, <1>2, <1>3, <1>4, <1>5 DEF Next, Stage, Receive, ResolveKeys, RefuseAlg,
     ValidateAccessToken, ValidatePop, Identify, MissingJti, CheckBidirectional, vars

LEMMA InitStore == Init => StoreTypes
<1> SUFFICES ASSUME Init PROVE StoreTypes
  OBVIOUS
<1>1. MaxMono \in Nat /\ mono = 0 /\ wall \in 0 .. MaxWall /\ steppedBack = FALSE
  BY VerifierAssumptions DEF Init
<1>2. DOMAIN map = {}
  BY DEF Init, EmptyMap
<1>3. recorded \subseteq ProofIds /\ uses \in [ProofIds -> 0 .. 2]
  BY DEF Init
<1>4. mono \in 0 .. MaxMono
  BY <1>1
<1>5. steppedBack \in BOOLEAN
  BY <1>1
<1>6. DOMAIN map \subseteq Jtis /\ \A j \in DOMAIN map : map[j] \in Nat
  BY <1>2
<1> QED
  BY <1>1, <1>3, <1>4, <1>5, <1>6 DEF StoreTypes

\* The verifier's variables keep their types, and a request is held exactly as
\* long as `verify` works on it, for every number of requests in flight.
THEOREM TypeCorrect == Spec => []TypeOK
<1>1. IndInv /\ StoreTypes => TypeOK
  <2> SUFFICES ASSUME IndInv, StoreTypes PROVE TypeOK
    OBVIOUS
  <2>1. ASSUME NEW t \in Threads PROVE req[t] = NoRequest <=> pc[t] = "idle"
    BY <2>1, EarlyAnswers DEF IndInv, Shown, Received, NoRequest
  <2> QED
    BY <2>1 DEF IndInv, Shape, Stages, StoreTypes, TypeOK
<1> QED
  BY <1>1, InitInv, InitStore, IndStep, StoreStep, PTL DEF Spec

\* A request comes to the profile check past the replay check, or with no proof.
LEMMA ComesToProfile ==
  ASSUME IndInv, [Next]_vars, NEW t \in Threads, pc'[t] = "profile"
  PROVE  /\ req'[t] = req[t]
         /\ \/ pc[t] = "profile"
            \/ pc[t] = "identity" /\ Proof(t) = NoProof
            \/ /\ pc[t] = "replay" /\ Proof(t).jti # None /\ CountUse(t)
               /\ cfg.failClosed => MarkNew(t)
<1> DEFINE Goal ==
      /\ req'[t] = req[t]
      /\ \/ pc[t] = "profile"
         \/ pc[t] = "identity" /\ Proof(t) = NoProof
         \/ /\ pc[t] = "replay" /\ Proof(t).jti # None /\ CountUse(t)
            /\ cfg.failClosed => MarkNew(t)
<1>1. ASSUME NEW u \in Threads, NEW o, Answer(u, o) PROVE u # t /\ Goal
  BY <1>1 DEF Answer, IndInv, Shape
<1>2. ASSUME NEW u \in Threads, NEW s, Goto(u, s) PROVE (u = t /\ s = "profile") \/ Goal
  BY <1>2 DEF Goto, IndInv, Shape
<1>3. ASSUME NEW u \in Threads, NEW r \in Requests, Receive(u, r) PROVE Goal
  <2>1. CASE EarlyAnswer(r) = "none"
    BY <1>3, <2>1 DEF Receive, IndInv, Shape
  <2> QED
    BY <1>1, <1>3, <2>1 DEF Receive
<1>4. ASSUME NEW u \in Threads, ResolveKeys(u) PROVE Goal
  <2>1. CASE pc' = [pc EXCEPT ![u] = "token"] /\ UNCHANGED <<outcome, req>>
    BY <2>1 DEF IndInv, Shape
  <2> QED
    BY <1>1, <1>4, <2>1 DEF ResolveKeys
<1>5. ASSUME NEW u \in Threads, RefuseAlg(u) \/ MissingJti(u) \/ MarkReplay(u)
                               \/ CheckBidirectional(u)
      PROVE  Goal
  BY <1>1, <1>5 DEF RefuseAlg, MissingJti, MarkReplay, CheckBidirectional
<1>6. ASSUME NEW u \in Threads, ValidateAccessToken(u) \/ ValidatePop(u) PROVE Goal
  BY <1>1, <1>2, <1>6 DEF ValidateAccessToken, ValidatePop, Require
<1>7. ASSUME NEW u \in Threads, Identify(u) PROVE Goal
  <2>1. CASE Goto(u, Accepted(u))
    <3>1. (u = t /\ Accepted(u) = "profile") \/ Goal
      BY <1>2, <2>1
    <3>2. u = t /\ Accepted(u) = "profile" => Goal
      BY <1>7, <2>1 DEF Accepted, Identify, Goto
    <3> QED
      BY <3>1, <3>2
  <2> QED
    BY <1>1, <1>7, <2>1 DEF Identify, Require
<1>8. ASSUME NEW u \in Threads, MarkNew(u) \/ MarkErr(u) \/ StoreDown(u) PROVE Goal
  <2>1. CASE Goto(u, "profile")
    <3>1. u = t \/ Goal
      BY <1>2, <2>1
    <3>2. /\ pc[u] = "replay" /\ Proof(u).jti # None
          /\ \/ CountUse(u) /\ (cfg.failClosed => MarkNew(u))
             \/ \E o : Answer(u, o)
      BY <1>8 DEF MarkNew, MarkErr, StoreDown, OnStoreError, Mark
    <3>3. u = t => req'[t] = req[t]
      BY <2>1 DEF Goto
    <3> HIDE DEF Goal
    <3>4. (u = t /\ CountUse(u) /\ (cfg.failClosed => MarkNew(u))) => Goal
      BY <3>2, <3>3 DEF Goal
    <3> QED
      BY <1>1, <3>1, <3>2, <3>4
  <2> QED
    BY <1>1, <1>8, <2>1 DEF MarkNew, MarkErr, StoreDown, OnStoreError
<1>9. Tick \/ StepForward \/ StepBack \/ UNCHANGED vars => Goal
  BY DEF Tick, StepForward, StepBack, vars
<1>10. ASSUME NEW u \in Threads, Stage(u) PROVE Goal
  <2> HIDE DEF Goal
  <2> QED
    BY <1>4, <1>5, <1>6, <1>7, <1>8, <1>10 DEF Stage
<1> HIDE DEF Goal
<1>11. Goal
  BY <1>3, <1>9, <1>10 DEF Next
<1> QED
  BY <1>11 DEF Goal

\* Failing closed, whatever the store answers and whoever races, a request gets
\* past the replay check only with its jti live in the store.
THEOREM FailsClosed == Spec => PassesOnlyRecorded
<1>1. ASSUME IndInv, StoreTypes, [Next]_vars, NEW t \in Threads,
             pc[t] = "replay", pc'[t] = "profile", cfg.failClosed
      PROVE  IsLive(map', req[t].proof.jti, mono)
  <2>1. MarkNew(t)
    BY <1>1, ComesToProfile
  <2>2. MarkOutcome(map, Proof(t).jti, ReplayTtl, mono, Cap) = "New"
        /\ map' = MarkedMap(map, Proof(t).jti, ReplayTtl, mono, Cap)
    BY <2>1 DEF MarkNew, Mark
  <2>3. Proof(t).jti \in DOMAIN map' /\ map'[Proof(t).jti] = mono + ReplayTtl
    BY <2>2, TtlPositive, MarkKeepsLive
  <2>4. mono + ReplayTtl > mono
    BY <1>1, TtlPositive, VerifierAssumptions DEF StoreTypes
  <2> QED
    BY <2>3, <2>4 DEF IsLive, Proof
<1>2. IndInv /\ StoreTypes /\ [Next]_vars => \A t \in Threads :
        (pc[t] = "replay" /\ pc'[t] = "profile" /\ cfg.failClosed)
          => IsLive(map', req[t].proof.jti, mono)
  BY <1>1
<1> QED
  BY <1>2, InitInv, InitStore, IndStep, StoreStep, PTL DEF Spec, PassesOnlyRecorded

-----------------------------------------------------------------------------
(* The replay check: who gets around it, and who spends a jti unvalidated *)

\* The histories only grow, and the configuration stays.
LEMMA HistoryGrows ==
  ASSUME IndInv, StoreTypes, [Next]_vars
  PROVE  /\ cfg' = cfg /\ recorded \subseteq recorded'
         /\ \A p \in ProofIds : uses'[p] >= uses[p]
<1>1. ASSUME NEW t \in Threads,
             MarkNew(t) \/ MarkReplay(t) \/ MarkErr(t) \/ StoreDown(t)
      PROVE  /\ cfg' = cfg /\ recorded \subseteq recorded'
             /\ \A p \in ProofIds : uses'[p] >= uses[p]
  <2>1. cfg' = cfg /\ recorded \subseteq recorded' /\ (uses' = uses \/ CountUse(t))
    BY <1>1 DEF MarkNew, MarkReplay, MarkErr, StoreDown, Mark, OnStoreError
  <2>2. \A p \in ProofIds : uses[p] \in 0 .. 2
    BY DEF StoreTypes
  <2>3. uses' = uses \/ uses' = [uses EXCEPT ![ProofId(req[t])] = @ + 1]
    BY <2>1 DEF CountUse
  <2> QED
    BY <2>1, <2>2, <2>3 DEF StoreTypes
<1>2. CASE UNCHANGED <<cfg, recorded, uses>>
  BY <1>2 DEF StoreTypes
<1> QED
  BY <1>1, <1>2 DEF Next, Stage, Receive, ResolveKeys, RefuseAlg, ValidateAccessToken,
     ValidatePop, Identify, MissingJti, CheckBidirectional, Tick, StepForward, StepBack,
     store, vars

\* Past the replay check, the proof of a request under DPoP has been counted and,
\* failing closed, recorded.
OnRecord(t) == /\ uses[ProofId(req[t])] > 0
               /\ cfg.failClosed => ProofId(req[t]) \in recorded

Counted == \A t \in Threads : (pc[t] = "profile" /\ MustDpop(req[t])) => OnRecord(t)

LEMMA CountedStep == IndInv /\ IndInv' /\ StoreTypes /\ Counted /\ [Next]_vars => Counted'
<1> SUFFICES ASSUME IndInv, IndInv', StoreTypes, Counted, [Next]_vars,
                    NEW t \in Threads, pc'[t] = "profile", MustDpop(req[t])'
             PROVE  OnRecord(t)'
  BY DEF Counted
<1>1. /\ cfg' = cfg /\ recorded \subseteq recorded'
      /\ \A p \in ProofIds : uses'[p] >= uses[p]
  BY HistoryGrows
<1>2. /\ req'[t] = req[t]
      /\ \/ pc[t] = "profile"
         \/ pc[t] = "identity" /\ Proof(t) = NoProof
         \/ /\ pc[t] = "replay" /\ Proof(t).jti # None /\ CountUse(t)
            /\ cfg.failClosed => MarkNew(t)
  BY ComesToProfile
<1>3. MustDpop(req[t])
  BY <1>1, <1>2 DEF MustDpop
<1>4. /\ req[t] \in Requests
      /\ req[t].proof # NoProof /\ req[t].proof.jti # None
  <2>1. (Received(t) /\ Possessed(t))'
    BY DEF IndInv, Shown
  <2>2. req'[t] \in Requests /\ ProofSound(req[t])'
    BY <2>1 DEF Received, Possessed
  <2> QED
    BY <1>2, <2>2 DEF ProofSound
<1>5. ProofId(req[t]) \in ProofIds
  BY <1>4, RequestAssumptions DEF ProofId, ProofIds
<1>6. /\ uses[ProofId(req[t])] \in 0 .. 2 /\ uses'[ProofId(req[t])] \in 0 .. 2
      /\ uses'[ProofId(req[t])] >= uses[ProofId(req[t])]
  <2>1. StoreTypes'
    BY StoreStep
  <2> QED
    BY <1>1, <1>5, <2>1 DEF StoreTypes
<1>7. CASE pc[t] = "profile"
  BY <1>1, <1>2, <1>3, <1>6, <1>7 DEF Counted, OnRecord, ProofId
<1>8. CASE pc[t] = "replay" /\ CountUse(t) /\ (cfg.failClosed => MarkNew(t))
  <2>1. uses'[ProofId(req[t])] > 0
    BY <1>3, <1>5, <1>6, <1>8 DEF CountUse, StoreTypes
  <2>2. cfg.failClosed => ProofId(req[t]) \in recorded'
    BY <1>3, <1>8 DEF MarkNew
  <2> QED
    BY <1>1, <1>2, <2>1, <2>2 DEF OnRecord, ProofId
<1>9. Proof(t) # NoProof
  BY <1>4 DEF Proof
<1> QED
  BY <1>2, <1>7, <1>8, <1>9

\* Nobody gets around the replay check: a request that had to prove possession
\* of a key is only admitted when its proof has passed the check and, failing
\* closed, is on record there, whatever its scheme and headers and whoever races.
THEOREM AdmitsOnlyCounted ==
  Spec => [][\A t \in Threads : (Admits(t) /\ MustDpop(req[t])) => OnRecord(t)]_vars
<1>1. Init => Counted
  BY DEF Init, Counted
<1>2. ASSUME IndInv, Counted, [Next]_vars, NEW t \in Threads, Admits(t), MustDpop(req[t])
      PROVE  OnRecord(t)
  BY <1>2, AdmittedAtProfile DEF Counted
<1>3. IndInv /\ Counted /\ [Next]_vars =>
        \A t \in Threads : (Admits(t) /\ MustDpop(req[t])) => OnRecord(t)
  BY <1>2
<1> QED
  BY <1>1, <1>3, InitInv, InitStore, IndStep, StoreStep, CountedStep, PTL DEF Spec

\* A jti is spent for a validated proof; or its request was a Bearer request
\* whose token names no key, under a posture without DPoP or with the certificate
\* the token is bound to.  That is as far as the code departs from "AFTER full
\* DPoP + cnf.jkt validation": no DPoP client can have a jti spent unvalidated.
THEOREM UnvalidatedOnlyAsBearer ==
  Spec => [][map' # map => \E t \in Threads :
               /\ pc[t] = "replay" /\ pc'[t] # "replay"
               /\ \/ ProofSound(req[t])
                  \/ /\ req[t].scheme # "dpop" /\ Token(t).jkt = None
                     /\ cfg.requireDpop => CertBound(Token(t)) /\ req[t].cert = Token(t).x5t]_vars
<1> DEFINE Spends(t) ==
             /\ pc[t] = "replay" /\ pc'[t] # "replay"
             /\ \/ ProofSound(req[t])
                \/ /\ req[t].scheme # "dpop" /\ Token(t).jkt = None
                   /\ cfg.requireDpop => CertBound(Token(t)) /\ req[t].cert = Token(t).x5t
<1>1. ASSUME IndInv, [Next]_vars, map' # map
      PROVE  \E t \in Threads : Spends(t)
  <2>1. PICK t \in Threads : pc[t] = "replay" /\ pc'[t] # "replay"
    BY <1>1, SpentAtReplay
  <2>2. Received(t) /\ Possessed(t)
    BY <1>1, <2>1 DEF IndInv, Shown
  <2>3. CASE MustDpop(req[t])
    BY <2>1, <2>2, <2>3 DEF Possessed
  <2>4. CASE ~MustDpop(req[t])
    <3>1. Token(t).jkt = None /\ (cfg.requireDpop => CertBound(Token(t)))
          /\ req[t].scheme # "dpop"
      BY <2>4 DEF MustDpop, Token
    <3>2. cfg.requireDpop => req[t].cert = Token(t).x5t
      BY <2>2, <3>1 DEF Possessed, CertMatches, Token
    <3> QED
      BY <2>1, <3>1, <3>2
  <2> QED
    BY <2>3, <2>4
<1>2. IndInv /\ [Next]_vars => (map' # map => \E t \in Threads : Spends(t))
  BY <1>1
<1> HIDE DEF Spends
<1>3. Spec => [][map' # map => \E t \in Threads : Spends(t)]_vars
  BY <1>2, InitInv, IndStep, PTL DEF Spec
<1> QED
  BY <1>3 DEF Spends

-----------------------------------------------------------------------------
(* Refinement *)

\* The proof the core sees thread t carry.
Carries(t) == IF CoreStage(t) = "idle" THEN NoProof ELSE ProofId(req[t])

CorePc == [t \in Threads |-> CoreStage(t)]
CoreHeld == [t \in Threads |-> Carries(t)]

\* A request that is left alone looks the same to the core.
LEMMA CoreFrame ==
  ASSUME NEW t \in Threads, pc'[t] = pc[t], req'[t] = req[t], cfg' = cfg
  PROVE  CoreStage(t)' = CoreStage(t) /\ Carries(t)' = Carries(t)
<1>1. CoreStage(t)' = CoreStage(t)
  BY DEF CoreStage, Proof, MustDpop
<1> QED
  BY <1>1 DEF Carries, ProofId

\* When one request moves, the core sees at most that one move.
LEMMA CoreMoves ==
  ASSUME NEW t \in Threads, cfg' = cfg, NEW to, NEW p,
         \A u \in Threads : u # t => pc'[u] = pc[u] /\ req'[u] = req[u],
         CoreStage(t)' = to, Carries(t)' = p
  PROVE  CorePc' = [CorePc EXCEPT ![t] = to] /\ CoreHeld' = [CoreHeld EXCEPT ![t] = p]
<1>1. \A u \in Threads : u # t =>
        CoreStage(u)' = CoreStage(u) /\ Carries(u)' = Carries(u)
  BY CoreFrame
<1> QED
  BY <1>1 DEF CorePc, CoreHeld

\* When it looks the same before and after, the core sees nothing.
LEMMA CoreStutters ==
  ASSUME NEW t \in Threads, cfg' = cfg,
         \A u \in Threads : u # t => pc'[u] = pc[u] /\ req'[u] = req[u],
         CoreStage(t)' = CoreStage(t), Carries(t)' = Carries(t)
  PROVE  CorePc' = CorePc /\ CoreHeld' = CoreHeld
<1>1. \A u \in Threads : u # t =>
        CoreStage(u)' = CoreStage(u) /\ Carries(u)' = Carries(u)
  BY CoreFrame
<1> QED
  BY <1>1 DEF CorePc, CoreHeld

\* Only the moving request's stage and request change.
LEMMA OthersStay ==
  ASSUME IndInv, NEW t \in Threads,
         (\E s : Goto(t, s)) \/ (\E o : Answer(t, o))
  PROVE  \A u \in Threads : u # t => pc'[u] = pc[u] /\ req'[u] = req[u]
BY DEF IndInv, Shape, Goto, Answer

\* An answered request is no longer the core's business.
LEMMA Answered ==
  ASSUME IndInv, NEW t \in Threads, NEW o, Answer(t, o)
  PROVE  CoreStage(t)' = "idle" /\ Carries(t)' = NoProof
<1>1. pc'[t] = "idle"
  BY DEF IndInv, Shape, Answer
<1>2. CoreStage(t)' = "idle"
  BY <1>1 DEF CoreStage
<1> QED
  BY <1>2 DEF Carries

\* A request on its way to "s" carries its proof there if s is a stage of the
\* core's.
LEMMA Gone ==
  ASSUME IndInv, NEW t \in Threads, NEW s, Goto(t, s), cfg' = cfg
  PROVE  /\ pc'[t] = s /\ req'[t] = req[t]
         /\ s \notin {"identity", "replay"} =>
              CoreStage(t)' = "idle" /\ Carries(t)' = NoProof
<1>1. pc'[t] = s /\ req'[t] = req[t]
  BY DEF IndInv, Shape, Goto
<1>2. s \notin {"identity", "replay"} => CoreStage(t)' = "idle"
  BY <1>1 DEF CoreStage
<1> QED
  BY <1>1, <1>2 DEF Carries

CoreVars == <<mono, wall, steppedBack, cfg.failClosed, map, CorePc, CoreHeld,
              recorded, uses>>

LEMMA CoreVarsAre == Core!vars = CoreVars
BY DEF Core!vars, CoreVars, CorePc, CoreHeld, Carries

\* A move of the core, in the verifier's terms.
LEMMA CoreGotoIs ==
  ASSUME NEW t, NEW to, NEW p,
         CorePc' = [CorePc EXCEPT ![t] = to], CoreHeld' = [CoreHeld EXCEPT ![t] = p]
  PROVE  Core!Goto(t, to, p)
BY DEF Core!Goto, CorePc, CoreHeld, Carries

\* Steps that leave the clocks and the store alone and that the core does not
\* see: the stages before the proof is validated, and the profile's.
LEMMA UnseenStage ==
  ASSUME IndInv, NEW t \in Threads,
         ValidateAccessToken(t) \/ RefuseAlg(t) \/ MissingJti(t) \/ CheckBidirectional(t)
  PROVE  UNCHANGED Core!vars
<1>1. cfg' = cfg /\ UNCHANGED <<clocks, store>>
  BY DEF ValidateAccessToken, RefuseAlg, MissingJti, CheckBidirectional
<1>2. (\E o : Answer(t, o)) \/ (pc[t] = "token" /\ Goto(t, "pop"))
  BY DEF ValidateAccessToken, RefuseAlg, MissingJti, CheckBidirectional, Require
<1>3. CoreStage(t) = "idle" /\ Carries(t) = NoProof
  BY DEF ValidateAccessToken, RefuseAlg, MissingJti, CheckBidirectional, CoreStage,
         Carries
<1>4. CoreStage(t)' = "idle" /\ Carries(t)' = NoProof
  BY <1>1, <1>2, Answered, Gone
<1>5. \A u \in Threads : u # t => pc'[u] = pc[u] /\ req'[u] = req[u]
  BY <1>2, OthersStay
<1>6. CorePc' = CorePc /\ CoreHeld' = CoreHeld
  BY <1>1, <1>3, <1>4, <1>5, CoreStutters
<1> QED
  BY <1>1, <1>6, CoreVarsAre DEF CoreVars, clocks, store, Core!vars, CorePc, CoreHeld,
     Carries

LEMMA UnseenStart ==
  ASSUME IndInv, NEW t \in Threads,
         ResolveKeys(t) \/ (\E r \in Requests : Receive(t, r))
  PROVE  UNCHANGED Core!vars
<1>1. cfg' = cfg /\ UNCHANGED <<clocks, store>>
  BY DEF ResolveKeys, Receive
<1>2. CoreStage(t) = "idle" /\ Carries(t) = NoProof
  BY DEF ResolveKeys, Receive, CoreStage, Carries
<1>3. /\ pc'[t] \in {"idle", "keys", "token"}
      /\ \A u \in Threads : u # t => pc'[u] = pc[u] /\ req'[u] = req[u]
  BY DEF ResolveKeys, Receive, Answer, IndInv, Shape
<1>4. CoreStage(t)' = "idle" /\ Carries(t)' = NoProof
  BY <1>3 DEF CoreStage, Carries
<1>5. CorePc' = CorePc /\ CoreHeld' = CoreHeld
  BY <1>1, <1>2, <1>3, <1>4, CoreStutters
<1> QED
  BY <1>1, <1>5 DEF clocks, store, Core!vars, CorePc, CoreHeld, Carries

\* What the core calls a proof.
LEMMA CoreNames == Core!Proofs = ProofIds /\ Core!NoProof = NoProof
BY DEF Core!Proofs, ProofIds, Core!NoProof, NoProof

\* The core's clock arithmetic and store are the verifier's own.
LEMMA CoreFresh ==
  ASSUME NEW i, NEW w
  PROVE  Core!IsFresh(i, Core!NowSecs(w)) <=> IsFresh(i, NowSecs(w))
BY DEF Core!IsFresh, IsFresh, Core!NowSecs, NowSecs, Core!Window, Window,
   Core!WrappingAbs, WrappingAbs, Core!WrappingSub, WrappingSub, Core!MinInt, MinInt,
   Core!Wrap, Wrap, Core!Modulus, Modulus, Core!HalfWidth, HalfWidth,
   Core!WrapU64, WrapU64

\* A validated proof enters the core as checked, fresh by the wall clock; one
\* that came along unvalidated as unchecked.
LEMMA ValidatePopRefines ==
  ASSUME IndInv, NEW t \in Threads, ValidatePop(t)
  PROVE  Core!Next \/ UNCHANGED Core!vars
<1>1. cfg' = cfg /\ UNCHANGED <<clocks, store>> /\ pc[t] = "pop"
  BY DEF ValidatePop
<1> DEFINE lacks == MustDpop(req[t]) /\ ~ProofValid(req[t], NowSecs(wall))
<1>2. (\E o : Answer(t, o)) \/ (~lacks /\ Goto(t, "identity"))
  BY DEF ValidatePop, Require
<1>3. CoreStage(t) = "idle" /\ Carries(t) = NoProof
  BY <1>1 DEF CoreStage, Carries
<1>4. \A u \in Threads : u # t => pc'[u] = pc[u] /\ req'[u] = req[u]
  BY <1>2, OthersStay
<1>5. CASE CoreStage(t)' = "idle"
  <2>1. Carries(t)' = NoProof
    BY <1>5 DEF Carries
  <2>2. CorePc' = CorePc /\ CoreHeld' = CoreHeld
    BY <1>1, <1>3, <1>4, <1>5, <2>1, CoreStutters
  <2> QED
    BY <1>1, <2>2 DEF clocks, store, Core!vars, CorePc, CoreHeld, Carries
<1>6. CASE CoreStage(t)' # "idle"
  <2>1. ~lacks /\ Goto(t, "identity")
    BY <1>2, <1>6, Answered
  <2>2. pc'[t] = "identity" /\ req'[t] = req[t]
    BY <1>1, <2>1, Gone
  <2>3. /\ Proof(t) # NoProof /\ Proof(t).jti # None
        /\ CoreStage(t)' = IF MustDpop(req[t]) THEN "checked" ELSE "unchecked"
        /\ Carries(t)' = ProofId(req[t])
    BY <1>1, <1>6, <2>2 DEF CoreStage, Carries, Proof, MustDpop, ProofId
  <2>4. ProofId(req[t]) \in ProofIds
    <3>1. req[t] \in Requests
      BY <1>1 DEF IndInv, Shown, Received
    <3> QED
      BY <2>3, <3>1, RequestAssumptions DEF Proof, ProofId, ProofIds
  <2>5. CorePc[t] = "idle"
    BY <1>3 DEF CorePc
  <2>6. CASE MustDpop(req[t])
    <3>1. Core!Goto(t, "checked", ProofId(req[t]))
      BY <1>1, <1>4, <2>3, <2>6, CoreMoves, CoreGotoIs
    <3>2. IsFresh(ProofId(req[t]).iat, NowSecs(wall))
      BY <2>1, <2>6 DEF ProofValid, ProofId
    <3>3. Core!Check(t, ProofId(req[t]))
      BY <1>1, <2>5, <3>1, <3>2, CoreFresh DEF Core!Check, CorePc, clocks, store, ProofId
    <3> QED
      BY <2>4, <3>3, CoreNames DEF Core!Next
  <2>7. CASE ~MustDpop(req[t])
    <3>1. Core!Goto(t, "unchecked", ProofId(req[t]))
      BY <1>1, <1>4, <2>3, <2>7, CoreMoves, CoreGotoIs
    <3>2. Core!Skip(t, ProofId(req[t]))
      BY <1>1, <2>5, <3>1 DEF Core!Skip, CorePc, clocks, store
    <3> QED
      BY <2>4, <3>2, CoreNames DEF Core!Next
  <2> QED
    BY <2>6, <2>7
<1> QED
  BY <1>5, <1>6

\* A refusal of the WebID or of the party drops the proof.
LEMMA IdentifyRefines ==
  ASSUME IndInv, NEW t \in Threads, Identify(t)
  PROVE  Core!Next \/ UNCHANGED Core!vars
<1>1. cfg' = cfg /\ UNCHANGED <<clocks, store>> /\ pc[t] = "identity"
  BY DEF Identify
<1>2. Answer(t, "invalid_token") \/ Goto(t, Accepted(t))
  BY DEF Identify, Require
<1>3. \A u \in Threads : u # t => pc'[u] = pc[u] /\ req'[u] = req[u]
  BY <1>2, OthersStay
<1>4. CASE CoreStage(t)' = CoreStage(t) /\ Carries(t)' = Carries(t)
  <2>1. CorePc' = CorePc /\ CoreHeld' = CoreHeld
    BY <1>1, <1>3, <1>4, CoreStutters
  <2> QED
    BY <1>1, <2>1 DEF clocks, store, Core!vars, CorePc, CoreHeld, Carries
<1>5. CASE ~(CoreStage(t)' = CoreStage(t) /\ Carries(t)' = Carries(t))
  <2>1. ~Goto(t, Accepted(t))
    <3> SUFFICES ASSUME Goto(t, Accepted(t)) PROVE FALSE
      OBVIOUS
    <3>1. pc'[t] = Accepted(t) /\ req'[t] = req[t]
      BY <1>1, Gone
    <3>2. CoreStage(t)' = CoreStage(t)
      BY <1>1, <3>1 DEF CoreStage, Accepted, Proof, MustDpop
    <3>3. Carries(t)' = Carries(t)
      BY <3>1, <3>2 DEF Carries, ProofId
    <3> QED
      BY <1>5, <3>2, <3>3
  <2>2. CoreStage(t)' = "idle" /\ Carries(t)' = NoProof
    BY <1>2, <2>1, Answered
  <2>3. CoreStage(t) # "idle"
    BY <1>5, <2>2 DEF Carries
  <2>4. CoreStage(t) \in {"checked", "unchecked"}
    BY <2>3 DEF CoreStage
  <2>5. CorePc[t] \in {"checked", "unchecked"}
    BY <2>4 DEF CorePc
  <2>6. Core!Goto(t, "idle", NoProof)
    BY <1>1, <1>3, <2>2, CoreMoves, CoreGotoIs
  <2>7. Core!Drop(t)
    BY <1>1, <2>5, <2>6, CoreNames DEF Core!Drop, CorePc, clocks, store
  <2> QED
    BY <2>7 DEF Core!Next
<1> QED
  BY <1>4, <1>5

\* What the store answers and holds, on both levels.
LEMMA CoreStore ==
  ASSUME NEW m, NEW j, NEW now
  PROVE  /\ Core!MarkOutcome(m, j, Core!ReplayTtl, now, Cap)
             = MarkOutcome(m, j, ReplayTtl, now, Cap)
         /\ Core!MarkedMap(m, j, Core!ReplayTtl, now, Cap)
             = MarkedMap(m, j, ReplayTtl, now, Cap)
<1>1. Core!ReplayTtl = ReplayTtl
  BY DEF Core!ReplayTtl, ReplayTtl, Core!HalfWidth, HalfWidth,
         Core!WrapU64, WrapU64, Core!Modulus, Modulus
<1>2. \A S : Core!Cardinality(S) = Cardinality(S)
  BY DEF Core!Cardinality, Cardinality
<1>3. Core!MarkOutcome(m, j, Core!ReplayTtl, now, Cap)
        = MarkOutcome(m, j, ReplayTtl, now, Cap)
  BY <1>1, <1>2 DEF Core!MarkOutcome, MarkOutcome, Core!IsLive, IsLive, Core!NeedsRoom,
     NeedsRoom, Core!AtCapacity, AtCapacity, Core!PruneExpired, PruneExpired,
     Core!LiveJtis, LiveJtis
<1>4. Core!Swept(m, j, Core!ReplayTtl, now, Cap) = Swept(m, j, ReplayTtl, now, Cap)
  BY <1>1, <1>2 DEF Core!Swept, Swept, Core!NeedsRoom, NeedsRoom, Core!AtCapacity,
     AtCapacity, Core!PruneExpired, PruneExpired, Core!LiveJtis, LiveJtis
<1> QED
  BY <1>1, <1>3, <1>4 DEF Core!MarkedMap, MarkedMap, Core!Insert, Insert

\* A request about to consume its jti is one the core holds.
LEMMA AtReplay ==
  ASSUME NEW t \in Threads, pc[t] = "replay", Proof(t).jti # None,
         Proof(t) # NoProof
  PROVE  /\ CorePc[t] = IF MustDpop(req[t]) THEN "checked" ELSE "unchecked"
         /\ CoreHeld[t] = ProofId(req[t])
<1>1. CoreStage(t) = IF MustDpop(req[t]) THEN "checked" ELSE "unchecked"
  BY DEF CoreStage
<1>2. Carries(t) = ProofId(req[t])
  BY <1>1 DEF Carries
<1> QED
  BY <1>1, <1>2 DEF CorePc, CoreHeld

\* Past the replay check, or refused by it, a request is out of the core.
LEMMA LeavesCore ==
  ASSUME IndInv, NEW t \in Threads, cfg' = cfg,
         (\E o : Answer(t, o)) \/ Goto(t, "profile")
  PROVE  Core!Goto(t, "idle", NoProof)
<1>1. CoreStage(t)' = "idle" /\ Carries(t)' = NoProof
  BY Answered, Gone
<1>2. \A u \in Threads : u # t => pc'[u] = pc[u] /\ req'[u] = req[u]
  BY OthersStay
<1> QED
  BY <1>1, <1>2, CoreMoves, CoreGotoIs

\* Consuming the jti is the core's consuming it.
LEMMA MarkRefines ==
  ASSUME IndInv, NEW t \in Threads,
         MarkNew(t) \/ MarkReplay(t) \/ MarkErr(t) \/ StoreDown(t)
  PROVE  Core!Next
<1>1. /\ pc[t] = "replay" /\ Proof(t).jti # None
      /\ UNCHANGED <<mono, wall, steppedBack, cfg>>
      /\ (\E o : Answer(t, o)) \/ Goto(t, "profile")
  BY DEF MarkNew, MarkReplay, MarkErr, StoreDown, Mark, OnStoreError, clocks
<1>2. Proof(t) # NoProof
  BY <1>1 DEF IndInv, Shown, Proof
<1>3. /\ CorePc[t] = IF MustDpop(req[t]) THEN "checked" ELSE "unchecked"
      /\ CoreHeld[t] = ProofId(req[t])
  BY <1>1, <1>2, AtReplay
<1>4. /\ CorePc[t] \in {"checked", "unchecked"}
      /\ CorePc[t] = "checked" <=> MustDpop(req[t])
      /\ CoreHeld[t].jti = Proof(t).jti
  BY <1>3 DEF ProofId, Proof
<1>5. Core!Goto(t, "idle", Core!NoProof)
  BY <1>1, LeavesCore, CoreNames
<1>6. /\ Core!Answer(t) = MarkOutcome(map, Proof(t).jti, ReplayTtl, mono, Cap)
      /\ Core!Stored(t) = MarkedMap(map, Proof(t).jti, ReplayTtl, mono, Cap)
  BY <1>4, CoreStore DEF Core!Answer, Core!Stored, CoreHeld, Carries
<1>7. CountUse(t) => Core!CountUse(t)
  BY <1>3, <1>4 DEF CountUse, Core!CountUse, CorePc, CoreHeld, Carries
<1>8. \A r : Mark(t, r) => Core!Consume(t, r)
  BY <1>1, <1>4, <1>5, <1>6 DEF Mark, Core!Consume, CorePc
<1>9. OnStoreError(t) => Core!OnError(t)
  BY <1>7 DEF OnStoreError, Core!OnError
<1>10. CASE MarkNew(t)
  <2>1. recorded' = IF CorePc[t] = "checked" THEN recorded \cup {CoreHeld[t]}
                                             ELSE recorded
    BY <1>3, <1>4, <1>10 DEF MarkNew
  <2>2. Core!MarkNew(t)
    BY <1>7, <1>8, <1>10, <2>1 DEF MarkNew, Core!MarkNew, CorePc, CoreHeld, Carries
  <2> QED
    BY <2>2 DEF Core!Next
<1>11. CASE MarkReplay(t)
  BY <1>8, <1>11 DEF MarkReplay, Core!MarkReplay, Core!Next
<1>12. CASE MarkErr(t)
  BY <1>8, <1>9, <1>12 DEF MarkErr, Core!MarkErr, Core!Next
<1>13. CASE StoreDown(t)
  <2>1. Core!StoreDown(t)
    BY <1>1, <1>4, <1>5, <1>6, <1>9, <1>13 DEF StoreDown, Core!StoreDown, CorePc
  <2> QED
    BY <2>1 DEF Core!Next
<1> QED
  BY <1>10, <1>11, <1>12, <1>13

\* Time is the same on both levels.
LEMMA ClockRefines ==
  ASSUME Tick \/ StepForward \/ StepBack
  PROVE  Core!Next
<1>1. cfg' = cfg /\ pc' = pc /\ req' = req /\ UNCHANGED store
  BY DEF Tick, StepForward, StepBack
<1>2. CorePc' = CorePc /\ CoreHeld' = CoreHeld
  <2>1. \A u \in Threads : CoreStage(u)' = CoreStage(u) /\ Carries(u)' = Carries(u)
    BY <1>1, CoreFrame
  <2> QED
    BY <2>1 DEF CorePc, CoreHeld
<1>3. Tick => Core!Tick
  BY <1>1, <1>2 DEF Tick, Core!Tick, store, CorePc, CoreHeld, Carries
<1>4. StepForward => Core!StepForward
  BY <1>1, <1>2 DEF StepForward, Core!StepForward, store, CorePc, CoreHeld, Carries
<1>5. StepBack => Core!StepBack
  BY <1>1, <1>2 DEF StepBack, Core!StepBack, store, CorePc, CoreHeld, Carries
<1> QED
  BY <1>3, <1>4, <1>5 DEF Core!Next

LEMMA CoreInit == Init => Core!Init
<1> SUFFICES ASSUME Init PROVE Core!Init
  OBVIOUS
<1>1. \A t \in Threads : CoreStage(t) = "idle"
  BY DEF Init, CoreStage
<1>2. CorePc = [t \in Threads |-> "idle"] /\ CoreHeld = [t \in Threads |-> NoProof]
  BY <1>1 DEF CorePc, CoreHeld, Carries
<1>3. cfg.failClosed \in BOOLEAN
  BY RequestAssumptions DEF Init
<1> QED
  BY <1>2, <1>3, CoreNames DEF Init, Core!Init, CorePc, CoreHeld, Carries, EmptyMap,
     Core!EmptyMap

LEMMA CoreStep == IndInv /\ [Next]_vars => [Core!Next]_(Core!vars)
<1> SUFFICES ASSUME IndInv, [Next]_vars PROVE [Core!Next]_(Core!vars)
  OBVIOUS
<1>1. CASE UNCHANGED vars
  <2>1. cfg' = cfg /\ pc' = pc /\ req' = req /\ UNCHANGED <<clocks, store>>
    BY <1>1 DEF vars
  <2>2. \A u \in Threads : CoreStage(u)' = CoreStage(u) /\ Carries(u)' = Carries(u)
    BY <2>1, CoreFrame
  <2>3. CorePc' = CorePc /\ CoreHeld' = CoreHeld
    BY <2>2 DEF CorePc, CoreHeld
  <2> QED
    BY <2>1, <2>3 DEF clocks, store, Core!vars, CorePc, CoreHeld, Carries
<1>2. CASE \E t \in Threads, r \in Requests : Receive(t, r)
  BY <1>2, UnseenStart
<1>3. ASSUME NEW t \in Threads, Stage(t) PROVE [Core!Next]_(Core!vars)
  <2>1. CASE ResolveKeys(t)
    BY <2>1, UnseenStart
  <2>2. CASE RefuseAlg(t) \/ ValidateAccessToken(t) \/ MissingJti(t)
             \/ CheckBidirectional(t)
    BY <2>2, UnseenStage
  <2>3. CASE ValidatePop(t)
    BY <2>3, ValidatePopRefines
  <2>4. CASE Identify(t)
    BY <2>4, IdentifyRefines
  <2>5. CASE MarkNew(t) \/ MarkReplay(t) \/ MarkErr(t) \/ StoreDown(t)
    BY <2>5, MarkRefines
  <2> QED
    BY <1>3, <2>1, <2>2, <2>3, <2>4, <2>5 DEF Stage
<1>4. CASE Tick \/ StepForward \/ StepBack
  BY <1>4, ClockRefines
<1> QED
  BY <1>1, <1>2, <1>3, <1>4 DEF Next

\* Whatever `verify` does around the freshness check and the replay store, for
\* any number of racing requests, it behaves as the proof-replay core does: what
\* ProofReplayProofs proves of the core holds of the verifier.
THEOREM ImplementsCore == Spec => ImplementsProofReplay
<1>1. Init => Core!Init
  BY CoreInit
<1>2. IndInv /\ [Next]_vars => [Core!Next]_(Core!vars)
  BY CoreStep
<1>3. Spec => []IndInv
  BY InitInv, IndStep, PTL DEF Spec
<1> QED
  BY <1>1, <1>2, <1>3, PTL DEF Spec, ImplementsProofReplay, Core!Spec

-----------------------------------------------------------------------------
(* The core's theorems, brought home to the verifier *)

CoreProofs == INSTANCE ProofReplayProofs WITH
                failClosed <- cfg.failClosed,
                pc <- [t \in Threads |-> CoreStage(t)],
                held <- [t \in Threads |-> IF CoreStage(t) = "idle"
                                             THEN NoProof ELSE ProofId(req[t])]

\* What the core assumes of its constants the verifier assumes too.
LEMMA CoreAssumptions ==
  CoreProofs!FreshnessAssumptions /\ CoreProofs!ProofReplayAssumptions
<1>1. CoreProofs!FreshnessAssumptions
  BY FreshnessAssumptions DEF CoreProofs!FreshnessAssumptions, CoreProofs!Modulus, Modulus
<1>2. CoreProofs!ProofReplayAssumptions
  BY VerifierAssumptions DEF CoreProofs!ProofReplayAssumptions, CoreProofs!MinInt, MinInt,
     CoreProofs!NowSecs, NowSecs
<1> QED
  BY <1>1, <1>2

\* The two instances of the core are one specification.
LEMMA OneCore == Core!Spec => CoreProofs!Spec
<1>1. CoreProofs!vars = Core!vars
  BY DEF CoreProofs!vars, Core!vars
<1>2. Core!Init => CoreProofs!Init
  BY DEF CoreProofs!Init, Core!Init, CoreProofs!EmptyMap, Core!EmptyMap,
     CoreProofs!Proofs, Core!Proofs, CoreProofs!NoProof, Core!NoProof
<1>3. CoreProofs!ReplayTtl = Core!ReplayTtl
  BY DEF CoreProofs!ReplayTtl, Core!ReplayTtl, CoreProofs!WrapU64, Core!WrapU64,
     CoreProofs!HalfWidth, Core!HalfWidth, CoreProofs!Modulus, Core!Modulus
<1>4. \A i, s : CoreProofs!IsFresh(i, s) <=> Core!IsFresh(i, s)
  BY DEF CoreProofs!IsFresh, Core!IsFresh, CoreProofs!WrappingAbs, Core!WrappingAbs,
     CoreProofs!WrappingSub, Core!WrappingSub, CoreProofs!Wrap, Core!Wrap,
     CoreProofs!Window, Core!Window, CoreProofs!WrapU64, Core!WrapU64,
     CoreProofs!HalfWidth, Core!HalfWidth, CoreProofs!Modulus, Core!Modulus,
     CoreProofs!MinInt, Core!MinInt
<1>5. CoreProofs!Proofs = Core!Proofs /\ CoreProofs!NoProof = Core!NoProof
  BY DEF CoreProofs!Proofs, Core!Proofs, CoreProofs!NoProof, Core!NoProof
<1>6. ASSUME NEW t \in Threads
      PROVE  /\ CoreProofs!Answer(t) = Core!Answer(t)
             /\ CoreProofs!Stored(t) = Core!Stored(t)
  <2>1. \A S : CoreProofs!Cardinality(S) = Core!Cardinality(S)
    BY DEF CoreProofs!Cardinality, Core!Cardinality
  <2>2. CoreProofs!Answer(t) = Core!Answer(t)
    BY <1>3, <2>1 DEF CoreProofs!Answer, Core!Answer, CoreProofs!MarkOutcome,
       Core!MarkOutcome, CoreProofs!IsLive, Core!IsLive, CoreProofs!NeedsRoom,
       Core!NeedsRoom, CoreProofs!AtCapacity, Core!AtCapacity,
       CoreProofs!PruneExpired, Core!PruneExpired, CoreProofs!LiveJtis, Core!LiveJtis
  <2>3. \A m, j, x, n, c : CoreProofs!Swept(m, j, x, n, c) = Core!Swept(m, j, x, n, c)
    BY <2>1 DEF CoreProofs!Swept, Core!Swept, CoreProofs!NeedsRoom, Core!NeedsRoom,
       CoreProofs!AtCapacity, Core!AtCapacity, CoreProofs!PruneExpired,
       Core!PruneExpired, CoreProofs!LiveJtis, Core!LiveJtis
  <2>4. CoreProofs!Stored(t) = Core!Stored(t)
    BY <1>3, <2>2, <2>3 DEF CoreProofs!Stored, Core!Stored, CoreProofs!MarkedMap,
       Core!MarkedMap, CoreProofs!Answer, Core!Answer, CoreProofs!Insert, Core!Insert
  <2> QED
    BY <2>2, <2>4
<1>7. ASSUME NEW t \in Threads, NEW p \in Core!Proofs
      PROVE  Core!Check(t, p) \/ Core!Skip(t, p) => CoreProofs!Check(t, p) \/ CoreProofs!Skip(t, p)
  BY <1>4 DEF CoreProofs!Check, Core!Check, CoreProofs!Skip, Core!Skip,
     CoreProofs!Goto, Core!Goto, CoreProofs!NowSecs, Core!NowSecs
<1>8. ASSUME NEW t \in Threads
      PROVE  /\ Core!Drop(t) => CoreProofs!Drop(t)
             /\ Core!MarkNew(t) => CoreProofs!MarkNew(t)
             /\ Core!MarkReplay(t) => CoreProofs!MarkReplay(t)
             /\ Core!MarkErr(t) => CoreProofs!MarkErr(t)
             /\ Core!StoreDown(t) => CoreProofs!StoreDown(t)
  <2>1. \A a : Core!Consume(t, a) => CoreProofs!Consume(t, a)
    BY <1>5, <1>6 DEF CoreProofs!Consume, Core!Consume, CoreProofs!Goto, Core!Goto
  <2>2. Core!CountUse(t) => CoreProofs!CountUse(t)
    BY DEF CoreProofs!CountUse, Core!CountUse
  <2>3. Core!OnError(t) => CoreProofs!OnError(t)
    BY <2>2 DEF CoreProofs!OnError, Core!OnError
  <2>4. Core!StoreDown(t) => CoreProofs!StoreDown(t)
    BY <1>5, <1>6, <2>3 DEF CoreProofs!StoreDown, Core!StoreDown, CoreProofs!Goto,
       Core!Goto
  <2>5. Core!Drop(t) => CoreProofs!Drop(t)
    BY <1>5 DEF CoreProofs!Drop, Core!Drop, CoreProofs!Goto, Core!Goto
  <2> QED
    BY <2>1, <2>2, <2>3, <2>4, <2>5 DEF CoreProofs!MarkNew, Core!MarkNew,
       CoreProofs!MarkReplay, Core!MarkReplay, CoreProofs!MarkErr, Core!MarkErr
<1>9. Core!Tick \/ Core!StepForward \/ Core!StepBack
        => CoreProofs!Tick \/ CoreProofs!StepForward \/ CoreProofs!StepBack
  BY DEF CoreProofs!Tick, Core!Tick, CoreProofs!StepForward, Core!StepForward,
     CoreProofs!StepBack, Core!StepBack
<1>10. Core!Next => CoreProofs!Next
  BY <1>5, <1>7, <1>8, <1>9 DEF CoreProofs!Next, Core!Next
<1>11. [Core!Next]_(Core!vars) => [CoreProofs!Next]_(CoreProofs!vars)
  BY <1>10 DEF CoreProofs!vars, Core!vars
<1> QED
  BY <1>2, <1>11, PTL DEF CoreProofs!Spec, Core!Spec

\* `verify` behaves as the core, theorems and all.
LEMMA CoreHolds ==
  Spec => CoreProofs!Spec /\ CoreProofs!NoSecondUseWhileFresh
          /\ []CoreProofs!RetainedWhileFresh
<1>1. Spec => CoreProofs!Spec
  BY ImplementsCore, OneCore, PTL DEF ImplementsProofReplay
<1>2. CoreProofs!Spec => CoreProofs!NoSecondUseWhileFresh
  BY CoreProofs!NoReplay, CoreAssumptions
<1>3. CoreProofs!Spec => []CoreProofs!RetainedWhileFresh
  BY CoreProofs!Retention, CoreAssumptions
<1> QED
  BY <1>1, <1>2, <1>3, PTL

\* The end of the chain, for `verify` itself: with fail-closed errors and a
\* wall clock that is not set back, no DPoP proof gets a second request past
\* the replay check while it is fresh, whatever else the racing requests carry
\* and however long each of them stalls between two stages.
THEOREM VerifyOncePerProof ==
  Spec => [][\A p \in ProofIds :
               (cfg.failClosed /\ ~steppedBack /\ uses[p] > 0 /\ uses'[p] # uses[p])
                 => ~IsFresh(p.iat, NowSecs(wall))]_vars
<1> DEFINE Once == \A p \in ProofIds :
             (cfg.failClosed /\ ~steppedBack /\ uses[p] > 0 /\ uses'[p] # uses[p])
               => ~IsFresh(p.iat, NowSecs(wall))
           CoreOnce == \A p \in CoreProofs!Proofs :
             (cfg.failClosed /\ ~steppedBack /\ uses[p] > 0 /\ uses'[p] # uses[p])
               => ~CoreProofs!IsFresh(p.iat, CoreProofs!NowSecs(wall))
<1>1. CoreOnce => Once
  BY DEF CoreProofs!Proofs, ProofIds, CoreProofs!IsFresh, IsFresh, CoreProofs!NowSecs,
     NowSecs, CoreProofs!WrappingAbs, WrappingAbs, CoreProofs!WrappingSub, WrappingSub,
     CoreProofs!Wrap, Wrap, CoreProofs!Window, Window, CoreProofs!WrapU64, WrapU64,
     CoreProofs!HalfWidth, HalfWidth, CoreProofs!Modulus, Modulus, CoreProofs!MinInt, MinInt
<1>2. UNCHANGED CoreProofs!vars => Once
  BY DEF CoreProofs!vars
<1>3. [CoreOnce]_(CoreProofs!vars) => [Once]_vars
  BY <1>1, <1>2
<1>4. CoreProofs!NoSecondUseWhileFresh <=> [][CoreOnce]_(CoreProofs!vars)
  BY DEF CoreProofs!NoSecondUseWhileFresh
<1> HIDE DEF Once, CoreOnce
<1>5. Spec => [][Once]_vars
  BY <1>3, <1>4, CoreHolds, PTL
<1> QED
  BY <1>5 DEF Once

\* And the retention it rests on: the verifier's store holds the jti of every
\* proof it has let pass for as long as that proof stays fresh.
THEOREM VerifyRemembers ==
  Spec => [](~steppedBack => \A p \in recorded :
               IsFresh(p.iat, NowSecs(wall)) => IsLive(map, p.jti, mono))
<1> DEFINE Kept == ~steppedBack => \A p \in recorded :
             IsFresh(p.iat, NowSecs(wall)) => IsLive(map, p.jti, mono)
<1>1. CoreProofs!RetainedWhileFresh => Kept
  BY DEF CoreProofs!RetainedWhileFresh, CoreProofs!IsLive, IsLive,
     CoreProofs!IsFresh, IsFresh, CoreProofs!NowSecs,
     NowSecs, CoreProofs!WrappingAbs, WrappingAbs, CoreProofs!WrappingSub, WrappingSub,
     CoreProofs!Wrap, Wrap, CoreProofs!Window, Window, CoreProofs!WrapU64, WrapU64,
     CoreProofs!HalfWidth, HalfWidth, CoreProofs!Modulus, Modulus, CoreProofs!MinInt, MinInt
<1> HIDE DEF Kept
<1>2. Spec => []Kept
  BY <1>1, CoreHolds, PTL
<1> QED
  BY <1>2 DEF Kept

\* So, failing closed and with a clock that is not set back, a proof that is on
\* record and still fresh gets no other request past the replay check, and one
\* that does get past is on record from then on.  With AdmitsOnlyCounted: of all
\* requests that carry the same proof, however they race, one is admitted.
THEOREM PassesOnce ==
  Spec => [][\A t \in Threads :
               (/\ pc[t] = "replay" /\ pc'[t] = "profile" /\ MustDpop(req[t])
                /\ cfg.failClosed /\ ~steppedBack)
               => /\ ProofId(req[t]) \in recorded => ~IsFresh(req[t].proof.iat, NowSecs(wall))
                  /\ ProofId(req[t]) \in recorded']_vars
<1> DEFINE Kept == ~steppedBack => \A p \in recorded :
             IsFresh(p.iat, NowSecs(wall)) => IsLive(map, p.jti, mono)
           Enters(t) == /\ pc[t] = "replay" /\ pc'[t] = "profile" /\ MustDpop(req[t])
                        /\ cfg.failClosed /\ ~steppedBack
           Once(t) ==
             /\ ProofId(req[t]) \in recorded => ~IsFresh(req[t].proof.iat, NowSecs(wall))
             /\ ProofId(req[t]) \in recorded'
<1>1. ASSUME IndInv, Kept, [Next]_vars, NEW t \in Threads, Enters(t)
      PROVE  Once(t)
  <2>1. MarkNew(t)
    BY <1>1, ComesToProfile
  <2>2. ProofId(req[t]) \in recorded'
    BY <1>1, <2>1 DEF MarkNew
  <2>3. ~IsLive(map, req[t].proof.jti, mono)
    BY <2>1 DEF MarkNew, Mark, MarkOutcome, Proof
  <2>4. ProofId(req[t]).jti = req[t].proof.jti /\ ProofId(req[t]).iat = req[t].proof.iat
    BY DEF ProofId
  <2> QED
    BY <1>1, <2>2, <2>3, <2>4
<1>2. IndInv /\ Kept /\ [Next]_vars => \A t \in Threads : Enters(t) => Once(t)
  BY <1>1
<1>3. Spec => []Kept
  BY VerifyRemembers
<1> HIDE DEF Kept, Enters, Once
<1>4. Spec => [][\A t \in Threads : Enters(t) => Once(t)]_vars
  BY <1>2, <1>3, InitInv, IndStep, PTL DEF Spec
<1> QED
  BY <1>4 DEF Enters, Once
=============================================================================
