------------------------------ MODULE Verifier ------------------------------
(***************************************************************************)
(* `Verifier::verify`, for requests that share one verifier and one replay *)
(* store.  A request moves through the stages of `verify` in the order of  *)
(* the code; between two stages other requests move and both clocks run,   *)
(* so each stage that reads a clock or the store reads it at its own time. *)
(* JSON, base64 and the cryptography are reduced to the facts a stage      *)
(* tests: which key signed, which claims a token or a proof carries.       *)
(***************************************************************************)
EXTENDS Freshness, ReplayMap, Jws, WebIdProfile

CONSTANTS Threads,    \* requests in flight
          Trusted,    \* config.trusted_issuers (validate: not empty)
          Configs,    \* the other settings a deployment may ask for
          Requests,   \* the requests that may arrive
          KeySets,    \* KeySets[iss]: what keys_for(iss) may return
          Jtis, Iats, \* the jti and iat claims of proofs
          Cap, MaxMono, MaxWall

(***************************************************************************)
(* A request is [scheme, token, proof, cert, profile].                     *)
(*   scheme   "none" (nothing parseable), "bearer", "dpop" or "other"      *)
(*   cert     thumbprint of the TLS client certificate, or None            *)
(*   profile  what a fetch of the WebID's document would return            *)
(*   proof    NoProof, or a JWS with the claims [bound, jti, iat, ath]:    *)
(*              bound  htm and htu are this request's, and it has an iat   *)
(*              ath    "match", "wrong", "empty" or "absent"               *)
(*   token    a JWS with the claims [iss, complete, client, azp, aud, exp, *)
(*            nbf, iat, webid, jkt, x5t]:                                  *)
(*              complete  sub, jti, exp and iat are there                  *)
(*              aud       the audiences it names                           *)
(*              jkt, x5t  cnf.jkt and cnf.x5t#S256 (perhaps Malformed)     *)
(*            A token that is not three parts of JSON has no iss, one with *)
(*            a broken header no alg.                                      *)
(* A configuration is [requireDpop, allowMissingAth, failClosed, mode,     *)
(* resolver, parties, audience] and, of the build, es512.                  *)
(***************************************************************************)
NoProof == [jti |-> "none", iat |-> 0]

Malformed == "malformed"

ASSUME VerifierAssumptions ==
  /\ Trusted # {}
  /\ Iats \subseteq MinInt .. MaxInt
  /\ Cap \in Nat /\ MaxMono \in Nat /\ MaxWall \in Nat
  /\ 2 * NowSecs(MaxWall) <= MaxInt  \* the year is not beyond 10^11

ASSUME RequestAssumptions ==
  /\ None \notin Jtis
  /\ \A r \in Requests :
       r.proof # NoProof => r.proof.jti \in Jtis \cup {None} /\ r.proof.iat \in Iats
  /\ \A c \in Configs : c.failClosed \in BOOLEAN

VARIABLES mono, wall,    \* the monotonic and the wall clock
          steppedBack,   \* the wall clock was once set back
          cfg,           \* the deployment's settings, fixed
          map,           \* the replay store
          pc,            \* the stage each request is at
          req,           \* the request each thread works on
          keys,          \* the candidate keys of each request
          outcome,       \* what each thread's latest `verify` returned
          asked,         \* history: issuers whose keys were resolved
          recorded,      \* history: proofs validated and recorded as New
          uses           \* history: passes of each validated proof (max 2)

clocks == <<mono, wall, steppedBack>>
store == <<map, recorded, uses>>
vars == <<clocks, cfg, store, pc, req, keys, outcome, asked>>

NoRequest == [scheme |-> "none"]

ProofIds == [jti : Jtis, iat : Iats]

Outcomes == {"none", "public", "agent", "invalid_request", "invalid_token",
             "invalid_token_dpop", "unavailable"}

\* `VerifierConfig::validate`, which `Verifier::new` insists on.
Validates(c) == c.audience # "" /\ (c.mode # "off" => c.resolver)

Init ==
  /\ mono = 0
  /\ wall \in 0 .. MaxWall
  /\ steppedBack = FALSE
  /\ cfg \in Configs /\ Validates(cfg)
  /\ map = EmptyMap
  /\ pc = [t \in Threads |-> "idle"]
  /\ req = [t \in Threads |-> NoRequest]
  /\ keys = [t \in Threads |-> {}]
  /\ outcome = [t \in Threads |-> "none"]
  /\ asked = {}
  /\ recorded = {}
  /\ uses = [p \in ProofIds |-> 0]

-----------------------------------------------------------------------------
(* Leaving a stage *)

\* On to the next stage.
Goto(t, stage) ==
  /\ pc' = [pc EXCEPT ![t] = stage]
  /\ UNCHANGED <<outcome, req, keys>>

\* Bug variant of Answer: the request is not let go of.
Answer_keepsRequest(t, o) ==
  /\ pc' = [pc EXCEPT ![t] = "idle"]
  /\ outcome' = [outcome EXCEPT ![t] = o]
  /\ UNCHANGED <<req, keys>>

\* `verify` returns.
Answer(t, o) ==
  /\ pc' = [pc EXCEPT ![t] = "idle"]
  /\ outcome' = [outcome EXCEPT ![t] = o]
  /\ req' = [req EXCEPT ![t] = NoRequest]
  /\ keys' = [keys EXCEPT ![t] = {}]

\* The stage passes if `ok`, else `verify` returns the error.
Require(t, ok, error, stage) == IF ok THEN Goto(t, stage) ELSE Answer(t, error)

Token(t) == req[t].token
Proof(t) == req[t].proof

-----------------------------------------------------------------------------
(* The stages *)

\* A well-formed cnf.x5t#S256 (`token_is_cert_bound`, `cert_thumbprint`).
CertBound(token) == token.x5t \notin {None, Malformed}

\* A Bearer presentation is refused where DPoP is required, unless the
\* certificate can stand in for the proof.
BearerRefused(r) ==
  r.scheme = "bearer" /\ cfg.requireDpop /\ ~CertBound(r.token)

\* Bug variant of EarlyAnswer: the allowlist is not consulted up front.
EarlyAnswer_anyIssuer(r) ==
  IF r.scheme = "none" THEN "public"
  ELSE IF r.scheme = "other" \/ BearerRefused(r) THEN "invalid_request"
  ELSE IF r.token.iss = None THEN "invalid_token" ELSE "none"

\* What `verify` answers before any key is resolved, "none" if it goes on:
\* the parse, the scheme gate, the unverified issuer against the allowlist.
EarlyAnswer(r) ==
  IF r.scheme = "none" THEN "public"
  ELSE IF r.scheme = "other" \/ BearerRefused(r) THEN "invalid_request"
  ELSE IF r.token.iss \notin Trusted THEN "invalid_token" ELSE "none"

Receive(t, r) ==
  /\ pc[t] = "idle"
  /\ IF EarlyAnswer(r) = "none"
       THEN /\ pc' = [pc EXCEPT ![t] = "keys"]
            /\ req' = [req EXCEPT ![t] = r]
            /\ outcome' = [outcome EXCEPT ![t] = "none"]
            /\ UNCHANGED keys
       ELSE Answer(t, EarlyAnswer(r))
  /\ UNCHANGED <<clocks, cfg, store, asked>>

\* The alg check, then `jwks.keys_for(claimed_issuer)`, which may fail.
ResolveKeys(t) ==
  /\ pc[t] = "keys" /\ AlgAccepted(Token(t).alg, cfg.es512)
  /\ asked' = asked \cup {Token(t).iss}
  /\ \/ \E ks \in KeySets[Token(t).iss] :
          /\ keys' = [keys EXCEPT ![t] = ks]
          /\ pc' = [pc EXCEPT ![t] = "token"]
          /\ UNCHANGED <<outcome, req>>
     \/ Answer(t, "invalid_token")
  /\ UNCHANGED <<clocks, cfg, store>>

RefuseAlg(t) ==
  /\ pc[t] = "keys" /\ ~AlgAccepted(Token(t).alg, cfg.es512)
  /\ Answer(t, "invalid_token")
  /\ UNCHANGED <<clocks, cfg, store, asked>>

\* Signature, required claims, audience and temporal claims.  The issuer is
\* the one the keys belong to: peeked and verified claims are one payload.
AccessTokenValid(token, ks, secs) ==
  /\ VerifySignature(token, ks, "at+jwt", cfg.es512)
  /\ token.complete /\ token.client # None
  /\ cfg.audience \in token.aud
  /\ TokenTimely(token.exp, token.nbf, token.iat, secs)

\* `validate_access_token`, with the keys it resolved.
ValidateAccessToken(t) ==
  /\ pc[t] = "token"
  /\ Require(t, AccessTokenValid(Token(t), keys[t], NowSecs(wall)),
             "invalid_token", "pop")
  /\ UNCHANGED <<clocks, cfg, store, asked>>

\* Bug variant of MustDpop: the scheme and the posture decide, cnf.jkt does not.
MustDpop_ignoresJkt(r) ==
  r.scheme = "dpop" \/ (cfg.requireDpop /\ ~CertBound(r.token))

\* Whether a DPoP proof is demanded of this request.
MustDpop(r) ==
  \/ r.token.jkt # None
  \/ r.scheme = "dpop"
  \/ cfg.requireDpop /\ ~CertBound(r.token)

\* The ath check: strict unless the deployment tolerates a missing ath AND the
\* proof has none; an empty string is present, and wrong.
AthAccepted(p) == p.ath = "match" \/ (cfg.allowMissingAth /\ p.ath = "absent")

\* Bug variant of ProofValid: a proof of any age will do.
ProofValid_anyAge(r, secs) ==
  LET p == r.proof IN
  /\ p # NoProof
  /\ r.token.jkt # None
  /\ VerifyProofWithEmbeddedJwk(p, cfg.es512)
  /\ p.bound /\ p.jti # None
  /\ AthAccepted(p)
  /\ Thumbprint(p.jwk) = r.token.jkt

\* `validate_dpop_proof`, for a token that names the key it is bound to.
ProofValid(r, secs) ==
  LET p == r.proof IN
  /\ p # NoProof
  /\ r.token.jkt # None
  /\ VerifyProofWithEmbeddedJwk(p, cfg.es512)
  /\ p.bound /\ p.jti # None
  /\ IsFresh(p.iat, secs)
  /\ AthAccepted(p)
  /\ Thumbprint(p.jwk) = r.token.jkt

\* `validate_cert_binding`, asked of every cert-bound token.
CertMatches(r) == CertBound(r.token) => r.cert = r.token.x5t

\* The rest of `validate_token`: malformed binding, proof, certificate.
ValidatePop(t) ==
  /\ pc[t] = "pop"
  /\ IF Token(t).x5t = Malformed THEN Answer(t, "invalid_token")
     ELSE IF MustDpop(req[t]) /\ ~ProofValid(req[t], NowSecs(wall))
            THEN Answer(t, "invalid_token_dpop")
            ELSE Require(t, CertMatches(req[t]), "invalid_token", "identity")
  /\ UNCHANGED <<clocks, cfg, store, asked>>

\* `check_authorized_party`: azp, or else client_id, on the allowlist if any.
PartyAccepted(token) ==
  cfg.parties = {}
    \/ (IF token.azp # None THEN token.azp ELSE token.client) \in cfg.parties

\* Where `verify` goes once a request has shown who it is.
Accepted(t) == IF Proof(t) = NoProof THEN "profile" ELSE "replay"

\* `extract_webid` and `check_authorized_party` both pass.
IdentityAccepted(token) == ValidateWebidClaim(token.webid) /\ PartyAccepted(token)

\* Bug variant of Identify: the jti of a refused request is spent as well.
Identify_spendsRefused(t) ==
  /\ pc[t] = "identity"
  /\ Require(t, IdentityAccepted(Token(t)), "invalid_token", Accepted(t))
  /\ map' = IF IdentityAccepted(Token(t)) \/ Proof(t).jti \notin Jtis
              THEN map ELSE MarkedMap(map, Proof(t).jti, ReplayTtl, mono, Cap)
  /\ UNCHANGED <<clocks, cfg, recorded, uses, asked>>

\* `extract_webid` and `check_authorized_party`; a request without a DPoP
\* header has no jti to consume.
Identify(t) ==
  /\ pc[t] = "identity"
  /\ Require(t, IdentityAccepted(Token(t)), "invalid_token", Accepted(t))
  /\ UNCHANGED <<clocks, cfg, store, asked>>

ProofId(r) == [jti |-> r.proof.jti, iat |-> r.proof.iat]

\* `check_replay` on an unvalidated proof without a jti.
MissingJti(t) ==
  /\ pc[t] = "replay" /\ Proof(t).jti = None
  /\ Answer(t, "invalid_token_dpop")
  /\ UNCHANGED <<clocks, cfg, store, asked>>

\* History: a validated proof gets past the replay check once more.
CountUse(t) ==
  LET p == ProofId(req[t]) IN
  uses' = IF MustDpop(req[t]) /\ uses[p] < 2 THEN [uses EXCEPT ![p] = @ + 1]
                                             ELSE uses

\* `replay.mark(jti, ttl)` on the in-memory store.
Mark(t, result) ==
  /\ pc[t] = "replay" /\ Proof(t).jti # None
  /\ MarkOutcome(map, Proof(t).jti, ReplayTtl, mono, Cap) = result
  /\ map' = MarkedMap(map, Proof(t).jti, ReplayTtl, mono, Cap)
  /\ UNCHANGED <<clocks, cfg, asked>>

MarkNew(t) ==
  /\ Mark(t, "New")
  /\ Goto(t, "profile")
  /\ CountUse(t)
  /\ recorded' = IF MustDpop(req[t]) THEN recorded \cup {ProofId(req[t])}
                                     ELSE recorded

MarkReplay(t) ==
  /\ Mark(t, "Replay")
  /\ Answer(t, "invalid_token_dpop")
  /\ UNCHANGED <<recorded, uses>>

\* Bug variant of OnStoreError: the posture is not consulted.
OnStoreError_open(t) ==
  /\ Goto(t, "profile") /\ CountUse(t)
  /\ UNCHANGED recorded

\* `Err(_)`: 503 when failing closed, treated as fresh when not.
OnStoreError(t) ==
  /\ IF cfg.failClosed THEN Answer(t, "unavailable") /\ UNCHANGED uses
                       ELSE Goto(t, "profile") /\ CountUse(t)
  /\ UNCHANGED recorded

MarkErr(t) == Mark(t, "Err") /\ OnStoreError(t)

\* The same when the store is a shared backend that does not answer; it may or
\* may not have recorded the jti before the reply was lost.
StoreDown(t) ==
  /\ pc[t] = "replay" /\ Proof(t).jti # None
  /\ map' \in {map, MarkedMap(map, Proof(t).jti, ReplayTtl, mono, Cap)}
  /\ OnStoreError(t)
  /\ UNCHANGED <<clocks, cfg, asked>>

\* `check_bidirectional`: off asks nobody, warn accepts whatever the answer,
\* strict needs a resolver and a profile that lists the issuer.
BidirectionalAccepted(r) ==
  cfg.mode = "strict" => cfg.resolver /\ Lists(r.profile, r.token.webid, r.token.iss)

CheckBidirectional(t) ==
  /\ pc[t] = "profile"
  /\ Answer(t, IF BidirectionalAccepted(req[t]) THEN "agent" ELSE "invalid_token")
  /\ UNCHANGED <<clocks, cfg, store, asked>>

-----------------------------------------------------------------------------
(* The clocks *)

Tick ==
  /\ mono < MaxMono /\ wall < MaxWall
  /\ mono' = mono + 1 /\ wall' = wall + 1
  /\ UNCHANGED <<steppedBack, cfg, store, pc, req, keys, outcome, asked>>

StepForward ==
  /\ wall' \in wall + 1 .. MaxWall
  /\ UNCHANGED <<mono, steppedBack, cfg, store, pc, req, keys, outcome, asked>>

StepBack ==
  /\ ~steppedBack  \* bound: one step back
  /\ wall' \in 0 .. wall - 1
  /\ steppedBack' = TRUE
  /\ UNCHANGED <<mono, cfg, store, pc, req, keys, outcome, asked>>

Stage(t) ==
  \/ ResolveKeys(t) \/ RefuseAlg(t) \/ ValidateAccessToken(t) \/ ValidatePop(t)
  \/ Identify(t) \/ MissingJti(t) \/ MarkNew(t) \/ MarkReplay(t) \/ MarkErr(t)
  \/ StoreDown(t) \/ CheckBidirectional(t)

Next == \/ \E t \in Threads, r \in Requests : Receive(t, r)
        \/ \E t \in Threads : Stage(t)
        \/ Tick \/ StepForward \/ StepBack

Spec == Init /\ [][Next]_vars

-----------------------------------------------------------------------------
\* Every variable stays in its type.
TypeOK ==
  /\ mono \in 0 .. MaxMono /\ wall \in 0 .. MaxWall /\ steppedBack \in BOOLEAN
  /\ cfg \in Configs
  /\ DOMAIN map \subseteq Jtis /\ \A j \in DOMAIN map : map[j] \in Nat
  /\ pc \in [Threads -> {"idle", "keys", "token", "pop", "identity", "replay",
                         "profile"}]
  /\ \A t \in Threads : req[t] = NoRequest <=> pc[t] = "idle"
  /\ outcome \in [Threads -> Outcomes]
  /\ recorded \subseteq ProofIds
  /\ uses \in [ProofIds -> 0 .. 2]

\* "An untrusted issuer never drives discovery": keys are only ever resolved
\* for issuers on the allowlist.
ResolvesOnlyTrusted == asked \subseteq Trusted

\* Credentials are issued to thread t.
Admits(t) == outcome[t] # "agent" /\ outcome'[t] = "agent"

\* Whose key pair a cnf.jkt names.
Holder(jkt) == IF jkt.kty = "RSA" THEN jkt.n ELSE jkt.x

\* The proof of possession an admitted request has shown, said without the
\* routing of `validate_token`: every binding the token carries was honoured,
\* the proof signed by the very key pair the token is bound to, and where DPoP
\* is required or was claimed some binding was there.
SenderConstrained(r) ==
  /\ r.token.jkt # None =>
       /\ r.proof # NoProof
       /\ r.proof.signer = Holder(r.token.jkt) /\ ~r.proof.jwk.priv
       /\ r.proof.bound
       /\ r.proof.ath = "match" \/ (cfg.allowMissingAth /\ r.proof.ath = "absent")
  /\ r.token.x5t # None => r.cert # None /\ r.cert = r.token.x5t
  /\ cfg.requireDpop => r.token.jkt # None \/ r.token.x5t # None
  /\ r.scheme = "dpop" => r.token.jkt # None

\* No downgrade: whatever the scheme, the posture and the headers sent along,
\* credentials are only issued to a sender-constrained request.
AdmitsOnlyConstrained ==
  [][\A t \in Threads : Admits(t) => SenderConstrained(req[t])]_vars

\* The token was signed, for this server, by the holder of a public key its
\* trusted issuer publishes, with an alg of the policy that fits that key and
\* that this build can verify; P-521 and the other curves do not mix.
Authentic(t) ==
  LET token == Token(t) IN
  /\ token.iss \in Trusted /\ keys[t] \in KeySets[token.iss]
  /\ token.alg \in SigningAlgs /\ token.signer[1] = CurveOf(token.alg)
  /\ cfg.audience # "" /\ cfg.audience \in token.aud
  /\ \E jwk \in keys[t] :
       /\ token.signer \in {jwk.x, jwk.n} /\ ~jwk.priv
       /\ token.alg = "ES512" => cfg.es512 /\ jwk.crv = "P-521"

\* No forged, foreign or misdirected token: what is admitted was signed by its
\* issuer, across the alg checks, the key lookup and two crypto backends.
AdmitsOnlyAuthentic ==
  [][\A t \in Threads : Admits(t) => Authentic(t)]_vars

\* The profile says, of this WebID or of its document, that the token's issuer
\* speaks for it; what it says relative to itself counts where it was served.
Vouches(r, tr) ==
  LET w == r.token.webid
      home == Canonical[w.doc]
  IN /\ tr.p = OidcIssuer /\ tr.o[1] = "iri" /\ tr.o[2] = r.token.iss
     /\ \/ tr.s.doc = w.doc /\ tr.s.frag = w.frag
        \/ tr.s.doc = home /\ tr.s.frag = NoFragment
        \/ tr.s.doc = Relative /\ r.profile.final = w.doc /\ tr.s.frag = w.frag
        \/ tr.s.doc = Relative /\ r.profile.final = home /\ tr.s.frag = NoFragment

\* Strict mode: nobody is admitted under a WebID, https and without userinfo,
\* whose profile was not fetched, is broken, or names the issuer only for
\* someone else, also when the fetch was redirected.
AdmitsOnlyVouched ==
  [][\A t \in Threads : (Admits(t) /\ cfg.mode = "strict") =>
       /\ Token(t).webid.scheme = "https" /\ ~Token(t).webid.userinfo
       /\ req[t].profile # Unreachable /\ req[t].profile.turtle
       /\ \E tr \in req[t].profile.triples : Vouches(req[t], tr)]_vars

\* A jti is spent last: the store changes only for a request that every check
\* but the profile's has accepted, so any other refusal, of the token, of the
\* proof or of the party, leaves the proof usable for another try.
SpendsOnlyAccepted ==
  [][map' # map => \E t \in Threads :
       /\ pc[t] = "replay" /\ pc'[t] # "replay"
       /\ SenderConstrained(req[t]) /\ Authentic(t)
       /\ IdentityAccepted(Token(t))]_vars

\* Fail-closed: a request that carries a proof gets past the replay check only
\* with its jti live in the store, also when the store is full or down.
PassesOnlyRecorded ==
  [][\A t \in Threads :
       (pc[t] = "replay" /\ pc'[t] = "profile" /\ cfg.failClosed)
         => IsLive(map', req[t].proof.jti, mono)]_vars

\* Everything `verify` does around the two clocks leaves the proof-replay core
\* intact: the verifier implements ProofReplay.
CoreStage(t) ==
  IF pc[t] \in {"identity", "replay"} /\ Proof(t) # NoProof /\ Proof(t).jti # None
    THEN IF MustDpop(req[t]) THEN "checked" ELSE "unchecked"
    ELSE "idle"

Core == INSTANCE ProofReplay WITH
          failClosed <- cfg.failClosed,
          pc <- [t \in Threads |-> CoreStage(t)],
          held <- [t \in Threads |-> IF CoreStage(t) = "idle"
                                       THEN NoProof ELSE ProofId(req[t])]

ImplementsProofReplay == Core!Spec

\* replay.rs on mark: "the only place a jti is recorded (the verifier calls it
\* AFTER full DPoP + cnf.jkt validation)".
RecordsOnlyValidated ==
  [][map' # map => \E t \in Threads :
       pc[t] = "replay" /\ pc'[t] # "replay" /\ MustDpop(req[t])]_vars
=============================================================================
