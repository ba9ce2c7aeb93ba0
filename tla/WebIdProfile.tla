----------------------------- MODULE WebIdProfile -----------------------------
(***************************************************************************)
(* The WebID claim of a token and the profile document behind it: which    *)
(* issuers does the document list for this WebID?                          *)
(*                                                                         *)
(* A WebID claim is a record [scheme, userinfo, doc, frag]; a claim that   *)
(* is missing or no URL has the scheme "none".  An IRI is [doc, frag].     *)
(* The fetcher returns Unreachable or a document [final, turtle, triples]: *)
(* the URL it was served at after redirects, whether all of it parses, and *)
(* its triples [s, p, o].  A subject is an IRI, relative when its doc is   *)
(* Relative, or a blank node, whose doc is Blank; an object is             *)
(* <<"iri", name>> or <<"literal", text>>.                                 *)
(***************************************************************************)
CONSTANTS Canonical,   \* external: the spelling `Url` gives a document's URL
          Unreachable  \* the fetch failed

Relative == "relative"
NoFragment == "none"
Blank == "blank"
OidcIssuer == "solid:oidcIssuer"

\* `extract_webid`, `validate_webid_claim`: an https URL without userinfo.
ValidateWebidClaim(webid) == webid.scheme = "https" /\ ~webid.userinfo

Iri(webid) == [doc |-> webid.doc, frag |-> webid.frag]

\* `canonicalise_profile_url`: the document, without fragment and userinfo.
CanonicaliseProfileUrl(webid) == [doc |-> Canonical[webid.doc], frag |-> NoFragment]

\* The parser resolves a relative subject against the URL the document was
\* really served at.
Resolved(subject, base) ==
  IF subject.doc = Relative THEN [subject EXCEPT !.doc = base] ELSE subject

\* Bug variant of ParseOidcIssuers: relative to the URL asked for.
ParseOidcIssuers_unredirected(response, webid) ==
  LET own == {tr \in response.triples :
                /\ tr.p = OidcIssuer
                /\ tr.s.doc # Blank
                /\ Resolved(tr.s, CanonicaliseProfileUrl(webid).doc)
                     \in {Iri(webid), CanonicaliseProfileUrl(webid)}
                /\ tr.o[1] = "iri"}
  IN {tr.o[2] : tr \in own}

\* `parse_oidc_issuers`: the IRIs the document gives as solid:oidcIssuer of
\* the WebID, or of the document itself.
ParseOidcIssuers(response, webid) ==
  LET own == {tr \in response.triples :
                /\ tr.p = OidcIssuer
                /\ tr.s.doc # Blank
                /\ Resolved(tr.s, response.final)
                     \in {Iri(webid), CanonicaliseProfileUrl(webid)}
                /\ tr.o[1] = "iri"}
  IN {tr.o[2] : tr \in own}

\* `NetworkWebIdResolver::resolve`, then the lookup of the token's issuer: a
\* failed fetch and a document with a syntax error anywhere list nobody.
Lists(response, webid, issuer) ==
  /\ response # Unreachable
  /\ response.turtle
  /\ issuer \in ParseOidcIssuers(response, webid)
=============================================================================
