----------------------------- MODULE MCVerifier -----------------------------
(* A small instance of Verifier for TLC.  A deployment either sees one       *)
(* request at a time, of every kind, or a handful of kinds two at a time,    *)
(* that meet in the replay store.                                           *)
EXTENDS Verifier, TLC

Symmetry == Permutations(Threads)

MCIats == {1, 3}

\* Two spellings of Alice's document, and Mallory's.
MCCanonical == [d \in {"alice", "Alice", "mallory"} |->
                  IF d = "Alice" THEN "alice" ELSE d]

-----------------------------------------------------------------------------
(* Keys: key pairs and their JWKs *)

Jwk(kty, crv, xy, ne) ==
  [kty |-> kty, crv |-> crv, x |-> xy, y |-> IF kty = "OKP" THEN None ELSE xy,
   n |-> ne, e |-> ne, priv |-> FALSE]

Ec(curve, holder) == Jwk("EC", curve, <<curve, holder>>, None)
Rsa(holder) == Jwk("RSA", None, None, <<"RSA", holder>>)
Okp(holder) == Jwk("OKP", "Ed25519", <<"Ed25519", holder>>, None)
Oct == Jwk("OCT", None, None, None)

\* A key set with every type of key, and one entry of each defect: private,
\* half a point, a P-521 key under another curve's name, a short coordinate.
FullKeySet ==
  {Ec("P-256", "op"), Ec("P-521", "op"), Rsa("op"), Okp("op"), Oct,
   [Ec("P-256", "leak") EXCEPT !.priv = TRUE],
   [Ec("P-256", "half") EXCEPT !.y = None],
   [Ec("P-521", "lie") EXCEPT !.crv = "P-256"],
   Jwk("EC", "P-521", <<"short", "op">>, None)}

Signers ==
  {jwk.x : jwk \in FullKeySet} \cup {<<"RSA", "op">>, <<"P-256", "mallory">>, None}

MCKeySets == [i \in {"op", "evil"} |-> {{}, FullKeySet}]

-----------------------------------------------------------------------------
(* Configurations: what is refused at construction included *)

AllConfigs ==
  {[requireDpop |-> d, allowMissingAth |-> a, failClosed |-> TRUE, mode |-> m[1],
    resolver |-> m[2], parties |-> m[3], es512 |-> m[4], audience |-> m[5]] :
     d \in BOOLEAN, a \in BOOLEAN,
     m \in {<<"strict", TRUE, {}, TRUE, "rs">>,
            <<"warn", TRUE, {"app"}, FALSE, "rs">>,
            <<"off", FALSE, {}, FALSE, "rs">>,
            <<"strict", FALSE, {}, TRUE, "rs">>,
            <<"off", FALSE, {}, TRUE, "">>}}

-----------------------------------------------------------------------------
(* Requests *)

Alice == [scheme |-> "https", userinfo |-> FALSE, doc |-> "alice", frag |-> "me"]

Issuer(s, o) == [s |-> s, p |-> OidcIssuer, o |-> o]

Me == [doc |-> Relative, frag |-> "me"]

Document(final, triples) == [final |-> final, turtle |-> TRUE, triples |-> triples]

AliceProfile == Document("alice", {Issuer(Me, <<"iri", "op">>)})

\* What else a fetch of Alice's document may bring: an absolute subject, the
\* document as subject, someone else's, a blank node, a literal, another
\* predicate, another issuer, broken syntax, a redirect to Mallory's document.
Profiles ==
  {Document(f, {Issuer(s, <<"iri", "op">>)}) :
     f \in {"alice", "mallory"},
     s \in {Iri(Alice), [Iri(Alice) EXCEPT !.frag = NoFragment],
            [Iri(Alice) EXCEPT !.frag = "other"], [Iri(Alice) EXCEPT !.doc = "mallory"],
            [Me EXCEPT !.frag = NoFragment], [doc |-> Blank, frag |-> "me"]}}
  \cup {Document("alice", {Issuer(Me, <<"literal", "op">>), Issuer(Me, <<"iri", "evil">>),
                           [Issuer(Me, <<"iri", "op">>) EXCEPT !.p = "other"]}),
        Document("mallory", {Issuer(Me, <<"iri", "op">>)}),
        [AliceProfile EXCEPT !.turtle = FALSE], Document("alice", {}), Unreachable}

D1 == Ec("P-256", "d1")
D5 == Ec("P-521", "d5")

PlainToken == [alg |-> "ES256", typ |-> "at+jwt", signer |-> <<"P-256", "op">>,
               iss |-> "op", complete |-> TRUE, client |-> "app", azp |-> None,
               aud |-> {"rs"}, exp |-> 2, nbf |-> NoNbf, iat |-> 0,
               webid |-> Alice, jkt |-> None, x5t |-> None]

DpopToken == [PlainToken EXCEPT !.jkt = Thumbprint(D1)]
CertToken == [PlainToken EXCEPT !.x5t = "c1"]
BothToken == [DpopToken EXCEPT !.x5t = "c1"]

GoodProof == [alg |-> "ES256", typ |-> "dpop+jwt", jwk |-> D1, signer |-> D1.x,
              bound |-> TRUE, jti |-> "a", iat |-> 1, ath |-> "match"]

Request(s, tk, p, c) ==
  [scheme |-> s, token |-> tk, proof |-> p, cert |-> c, profile |-> AliceProfile]

DpopRequest == Request("dpop", DpopToken, GoodProof, None)
CertRequest == Request("bearer", CertToken, NoProof, "c1")

Bases == {DpopRequest, CertRequest, Request("dpop", BothToken, GoodProof, "c1"),
          Request("bearer", PlainToken, NoProof, None)}

\* The record with one attribute changed.
Vary(rec, values) ==
  UNION {{[rec EXCEPT ![f] = v] : v \in values[f]} : f \in DOMAIN values}

TokenDefects ==
  [iss |-> {"evil", None}, typ |-> {"AT+JWT", "dpop+jwt", None},
   complete |-> {FALSE}, client |-> {None, "web"}, azp |-> {"app", "web"},
   aud |-> {{}, {"other"}, {"other", "rs"}, {""}}, exp |-> {-1, MinInt},
   nbf |-> {1, 2}, iat |-> {2, MinInt},
   webid |-> Vary(Alice, [scheme |-> {"http", "none"}, userinfo |-> {TRUE},
                          doc |-> {"Alice"}, frag |-> {NoFragment}])]

ProofDefects ==
  [signer |-> {None, <<"P-256", "mallory">>}, typ |-> {"at+jwt", "DPoP+JWT"},
   bound |-> {FALSE}, jti |-> {None}, iat |-> {3},
   ath |-> {"wrong", "empty", "absent"}, jwk |-> {D5, None}]

\* The proofs the routing is tried with.
RoutedProofs ==
  {NoProof, GoodProof, [GoodProof EXCEPT !.signer = <<"P-256", "mallory">>],
   [GoodProof EXCEPT !.jti = None], [GoodProof EXCEPT !.ath = "absent"]}

Algs == {"ES256", "ES384", "ES512", "RS256", "EdDSA", "HS256", None}

\* The keys a proof may embed: sound, and with each defect of a key.
EmbeddedKeys ==
  {D1, D5, Rsa("d2"), Okp("d3"), Oct, [D1 EXCEPT !.priv = TRUE],
   [D5 EXCEPT !.crv = "P-256"], [D1 EXCEPT !.crv = "P-521"],
   [D5 EXCEPT !.kty = "ec"], [D1 EXCEPT !.y = None], [D1 EXCEPT !.crv = None]}

\* Every embedded key under every alg, in a proof for a token bound to it.
BoundTo(jwk, alg) ==
  LET holder == IF jwk.kty = "RSA" THEN jwk.n ELSE jwk.x
      bound == IF Thumbprint(jwk) = None THEN Thumbprint(D5) ELSE Thumbprint(jwk)
  IN Request("dpop", [PlainToken EXCEPT !.jkt = bound],
             [GoodProof EXCEPT !.alg = alg, !.jwk = jwk, !.signer = holder], None)

\* Everything the proof-of-possession routing looks at, in every combination;
\* every alg with every signer, of a token and of a proof; every profile; every
\* defect of a proof, and of a token in each of the four requests.
ManyRequests ==
  {Request(s, [PlainToken EXCEPT !.jkt = j, !.x5t = x], p, c) :
     s \in {"none", "bearer", "dpop", "other"}, j \in {None, Thumbprint(D1)},
     x \in {None, "c1", Malformed}, p \in RoutedProofs, c \in {None, "c1", "c2"}}
  \cup {[DpopRequest EXCEPT !.proof = p] : p \in Vary(GoodProof, ProofDefects)}
  \cup {[CertRequest EXCEPT !.token.alg = a, !.token.signer = k] :
          a \in Algs, k \in Signers}
  \cup {BoundTo(jwk, a) : jwk \in EmbeddedKeys, a \in Algs}
  \cup {[r EXCEPT !.profile = doc] : r \in {DpopRequest, CertRequest}, doc \in Profiles}
  \cup {[CertRequest EXCEPT !.token.webid.doc = "Alice", !.profile = doc] :
          doc \in Profiles}
  \cup UNION {{[r EXCEPT !.token = tk] : tk \in Vary(r.token, TokenDefects)} :
                r \in Bases}

-----------------------------------------------------------------------------
\* Requests that compete for a store with room for one jti: a proof and its
\* replay, a certificate-bound Bearer request that carries some unvalidated
\* proof along, and a request that fails after its proof was checked.
RivalRequests ==
  {DpopRequest,
   [CertRequest EXCEPT !.proof = [GoodProof EXCEPT !.signer = None, !.jti = "b"]],
   [DpopRequest EXCEPT !.token.webid.scheme = "http"]}

RivalKeySets == [i \in {"op"} |-> {{Ec("P-256", "op")}}]

RivalConfigs == [requireDpop : {TRUE}, allowMissingAth : {FALSE},
                 failClosed : BOOLEAN, mode : {"strict"}, resolver : {TRUE},
                 parties : {{}}, audience : {"rs"}, es512 : {FALSE}]

-----------------------------------------------------------------------------
(* Both in one run: which of the two a deployment sees, its settings tell *)

AllRequests == ManyRequests \cup RivalRequests
EveryConfig == AllConfigs \cup RivalConfigs

ForRivals == cfg \in RivalConfigs

\* Nobody was ever served by t.
Unused(t) == pc[t] = "idle" /\ outcome[t] = "none"

\* Bound: what arrives next.  A request that is not a rival has no other beside
\* it, nor after it on another thread.
Arriving(t) ==
  IF ForRivals THEN RivalRequests
  ELSE IF \A u \in Threads \ {t} : Unused(u) THEN ManyRequests ELSE {}

\* Bound: a lone request sees the wall clock move by a second, no more.
LoneClocks == mono = 0 /\ wall <= 1

MCInit == Init /\ (ForRivals \/ LoneClocks)

MCNext ==
  \/ \E t \in Threads : \E r \in Arriving(t) : Receive(t, r)
  \/ \E t \in Threads : Stage(t)
  \/ (Tick \/ StepForward \/ StepBack) /\ (ForRivals \/ LoneClocks')

\* Some of the behaviours of Spec.
MCSpec == MCInit /\ [][MCNext]_vars
=============================================================================
