------------------------------ MODULE JwksCache ------------------------------
(***************************************************************************)
(* `NetworkJwksProvider`: threads resolving issuers' keys through a shared *)
(* cache, while the issuers rotate their keys.  A lookup holds the mutex;  *)
(* the two fetches of a miss do not, so several threads may fetch for one  *)
(* issuer at once and store in any order.  An entry is stamped when it is  *)
(* stored, not when the issuer served it.                                  *)
(***************************************************************************)
EXTENDS Integers, FiniteSets

CONSTANTS Threads,  \* callers of keys_for
          Issuers,  \* trusted issuers
          Nobody,   \* no issuer
          Ttl,      \* cache_ttl, in ticks
          Latency,  \* longest time from an issuer's answer to its storing
          MaxKeys,  \* MAX_KEYS
          Documents,  \* JWKS documents issuers publish: the kinds of entry of each
          MaxGen,   \* bound: rotations of each issuer
          MaxTime   \* bound: the clock stops here

\* What an entry of a JWKS may be.
Kinds == {"public", "symmetric", "private", "unreadable"}

ASSUME JwksAssumptions ==
  /\ Nobody \notin Issuers
  /\ Ttl \in Nat /\ Latency \in Nat /\ MaxKeys \in Nat
  /\ MaxGen \in Nat \ {0} /\ MaxTime \in Nat
  /\ Documents \subseteq SUBSET Kinds

(***************************************************************************)
(* An issuer's key set is known by the issuer, its generation (each        *)
(* rotation is a new one) and the kinds of JWK in it.                      *)
(***************************************************************************)
KeySet(i, g, ks) == [iss |-> i, gen |-> g, kinds |-> ks]

NoKeys == KeySet(Nobody, 0, {})

VARIABLES now,        \* Instant::now()
          published,  \* each issuer's current key set
          since,      \* history: when each generation was published
          cache,      \* issuer -> its keys and when they were stored
          pc,         \* where each thread is
          issuer,     \* the issuer each thread was asked for
          source,     \* whose discovery document the thread follows
          keys,       \* what the thread has fetched
          served,     \* history: when that was the issuer's answer
          result      \* what its latest keys_for returned: keys, or NoKeys for Err

vars == <<now, published, since, cache, pc, issuer, source, keys, served, result>>
idp == <<now, published, since>>

Init ==
  /\ now = 0
  /\ published \in {[i \in Issuers |-> KeySet(i, 1, ks[i])] :
                      ks \in [Issuers -> Documents]}
  /\ since = [i \in Issuers |-> [g \in 1 .. MaxGen |-> 0]]
  /\ cache = [i \in {} |-> 0]
  /\ pc = [t \in Threads |-> "idle"]
  /\ issuer = [t \in Threads |-> Nobody]
  /\ source = [t \in Threads |-> Nobody]
  /\ keys = [t \in Threads |-> NoKeys]
  /\ served = [t \in Threads |-> 0]
  /\ result = [t \in Threads |-> NoKeys]

-----------------------------------------------------------------------------
\* `keys_for` returns r.
Return(t, r) ==
  /\ pc' = [pc EXCEPT ![t] = "idle"]
  /\ issuer' = [issuer EXCEPT ![t] = Nobody]
  /\ source' = [source EXCEPT ![t] = Nobody]
  /\ keys' = [keys EXCEPT ![t] = NoKeys]
  /\ result' = [result EXCEPT ![t] = r]

\* `at.elapsed() < self.cache_ttl`
Cached(i) == i \in DOMAIN cache /\ now - cache[i].at < Ttl

\* `keys_for(i)` is called and queues for the mutex.
KeysFor(t, i) ==
  /\ pc[t] = "idle"
  /\ pc' = [pc EXCEPT ![t] = "lookup"]
  /\ issuer' = [issuer EXCEPT ![t] = i]
  /\ result' = [result EXCEPT ![t] = NoKeys]
  /\ UNCHANGED <<idp, cache, source, keys, served>>

\* Bug variant of Hit: using an entry renews it.
Hit_renews(t) ==
  /\ pc[t] = "lookup" /\ Cached(issuer[t])
  /\ cache' = [cache EXCEPT ![issuer[t]].at = now]
  /\ Return(t, cache[issuer[t]].keys)
  /\ UNCHANGED <<idp, served>>

\* The lookup finds a fresh entry.
Hit(t) ==
  /\ pc[t] = "lookup" /\ Cached(issuer[t])
  /\ Return(t, cache[issuer[t]].keys)
  /\ UNCHANGED <<idp, cache, served>>

\* Bug variant of Miss: the call is lost track of.
Miss_forgets(t) ==
  /\ pc[t] = "lookup" /\ ~Cached(issuer[t])
  /\ pc' = [pc EXCEPT ![t] = "discover"]
  /\ issuer' = [issuer EXCEPT ![t] = Nobody]
  /\ UNCHANGED <<idp, cache, source, keys, served, result>>

\* It does not: the lock is released and the thread goes to the network.
Miss(t) ==
  /\ pc[t] = "lookup" /\ ~Cached(issuer[t])
  /\ pc' = [pc EXCEPT ![t] = "discover"]
  /\ UNCHANGED <<idp, cache, issuer, source, keys, served, result>>

\* Bug variant of SameIssuer: the discovery document's issuer is not compared.
SameIssuer_any(t, d) == TRUE

\* `Some(i) if i == issuer`
SameIssuer(t, d) == d = issuer[t]

\* A discovery document arrives; it is d's, and names d's jwks_uri.
Discover(t, d) ==
  /\ pc[t] = "discover" /\ SameIssuer(t, d)
  /\ pc' = [pc EXCEPT ![t] = "jwks"]
  /\ source' = [source EXCEPT ![t] = d]
  /\ UNCHANGED <<idp, cache, issuer, keys, served, result>>

\* The entries `parse_jwks` keeps.
Usable(kinds) == kinds \cap {"public"}

\* `parse_jwks` accepts: a bounded number of keys, one usable at least.
Parses(kinds) == Cardinality(kinds) <= MaxKeys /\ Usable(kinds) # {}

\* The JWKS arrives; it is what the issuer serves now.
FetchJwks(t) ==
  LET doc == published[source[t]] IN
  /\ pc[t] = "jwks" /\ Parses(doc.kinds)
  /\ keys' = [keys EXCEPT ![t] = KeySet(doc.iss, doc.gen, Usable(doc.kinds))]
  /\ served' = [served EXCEPT ![t] = now]
  /\ pc' = [pc EXCEPT ![t] = "store"]
  /\ UNCHANGED <<idp, cache, issuer, source, result>>

\* Either fetch fails, the document is another issuer's or does not parse.
\* The cache keeps whatever it has.
FetchFails(t) ==
  /\ pc[t] \in {"discover", "jwks"}
  /\ Return(t, NoKeys)
  /\ UNCHANGED <<idp, cache, served>>

\* The lock again, the insertion, stamped with the time of the insertion.
Store(t) ==
  LET entry == [keys |-> keys[t], at |-> now] IN
  /\ pc[t] = "store"
  /\ cache' = [i \in DOMAIN cache \cup {issuer[t]} |->
                 IF i = issuer[t] THEN entry ELSE cache[i]]
  /\ Return(t, keys[t])
  /\ UNCHANGED <<idp, served>>

-----------------------------------------------------------------------------
\* External: an issuer rotates its keys.
Rotate(i) ==
  LET g == published[i].gen + 1 IN
  /\ g <= MaxGen
  /\ \E ks \in Documents : published' = [published EXCEPT ![i] = KeySet(i, g, ks)]
  /\ since' = [since EXCEPT ![i][g] = now]
  /\ UNCHANGED <<now, cache, pc, issuer, source, keys, served, result>>

\* Time passes, but no answer stays under way for longer than Latency.
Tick ==
  /\ now < MaxTime
  /\ \A t \in Threads : pc[t] = "store" => now - served[t] < Latency
  /\ now' = now + 1
  /\ UNCHANGED <<published, since, cache, pc, issuer, source, keys, served, result>>

Next ==
  \/ \E t \in Threads, i \in Issuers : KeysFor(t, i) \/ Discover(t, i)
  \/ \E t \in Threads : Hit(t) \/ Miss(t) \/ FetchJwks(t) \/ FetchFails(t) \/ Store(t)
  \/ \E i \in Issuers : Rotate(i)
  \/ Tick

Spec == Init /\ [][Next]_vars

-----------------------------------------------------------------------------
KeySets == [iss : Issuers, gen : 1 .. MaxGen, kinds : SUBSET Kinds]

\* Every variable stays in its type.
TypeOK ==
  /\ now \in Nat
  /\ published \in [Issuers -> KeySets]
  /\ since \in [Issuers -> [1 .. MaxGen -> Nat]]
  /\ DOMAIN cache \subseteq Issuers
  /\ \A i \in DOMAIN cache : cache[i] \in [keys : KeySets, at : Nat]
  /\ pc \in [Threads -> {"idle", "lookup", "discover", "jwks", "store"}]
  /\ issuer \in [Threads -> Issuers \cup {Nobody}]
  /\ source \in [Threads -> Issuers \cup {Nobody}]
  /\ \A t \in Threads : issuer[t] = Nobody <=> pc[t] = "idle"
  /\ keys \in [Threads -> KeySets \cup {NoKeys}]
  /\ served \in [Threads -> Nat]
  /\ result \in [Threads -> KeySets \cup {NoKeys}]

\* No mix-up: what the cache holds for an issuer are public keys of that
\* issuer, whoever's discovery document or JWKS entries were served.
CacheSound ==
  \A i \in DOMAIN cache : /\ cache[i].keys.iss = i
                          /\ cache[i].keys.kinds = {"public"}

\* Key set ks was published at some time since `limit` ticks ago.
PublishedWithin(ks, limit) ==
  \/ ks.gen = published[ks.iss].gen
  \/ now - since[ks.iss][ks.gen + 1] <= limit

\* A rotated-out key set is not returned for longer than the cache's TTL plus
\* the time an answer may be under way, whichever of several overlapping
\* fetches stores last and however often the entry is used.
BoundedStaleness ==
  [][\A t \in Threads :
       (pc[t] # "idle" /\ pc'[t] = "idle" /\ result'[t] # NoKeys)
         => PublishedWithin(result'[t], Ttl + Latency)]_vars
=============================================================================
