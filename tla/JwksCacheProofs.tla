--------------------------- MODULE JwksCacheProofs ---------------------------
(* The JWKS cache, for every number of threads, issuers, TTL and latency.    *)
EXTENDS JwksCache, TLAPS

(***************************************************************************)
(* The inductive invariant.  The entry's stamp says when it was stored;    *)
(* what bounds its age is when the issuer served it, so the invariant      *)
(* follows a key set from the answer (InFlight) into the cache (Stamped),  *)
(* each time relating it to the rotations that have happened since.        *)
(***************************************************************************)
\* Key set ks was the issuer's current one at time s, or later.
CurrentSince(ks, s) ==
  \/ ks.gen = published[ks.iss].gen
  \/ ks.gen < published[ks.iss].gen /\ since[ks.iss][ks.gen + 1] >= s

\* An issuer publishes its own keys.
Owned == \A i \in Issuers : published[i].iss = i

\* A thread follows its own issuer, and what it is about to store is recent.
InFlight ==
  \A t \in Threads :
    /\ pc[t] \in {"jwks", "store"} => source[t] = issuer[t]
    /\ pc[t] = "store" =>
         /\ keys[t] \in KeySets
         /\ keys[t].iss = issuer[t] /\ keys[t].kinds = {"public"}
         /\ served[t] <= now /\ now - served[t] <= Latency
         /\ CurrentSince(keys[t], served[t])

\* A stored key set was current at most Latency before its stamp.
Stamped ==
  \A i \in DOMAIN cache :
    /\ cache[i].at <= now
    /\ CurrentSince(cache[i].keys, cache[i].at - Latency)

\* The inductive invariant.
IndInv == TypeOK /\ Owned /\ InFlight /\ CacheSound /\ Stamped

-----------------------------------------------------------------------------
\* The invariant holds before the first call.
LEMMA InitInv == Init => IndInv
<1> SUFFICES ASSUME Init PROVE IndInv
  OBVIOUS
<1>1. PICK ks \in [Issuers -> Documents] :
        published = [i \in Issuers |-> KeySet(i, 1, ks[i])]
  BY DEF Init
<1>2. published \in [Issuers -> KeySets] /\ Owned
  BY <1>1, JwksAssumptions DEF KeySet, KeySets, Owned
<1>3. TypeOK
  BY <1>2, JwksAssumptions DEF Init, TypeOK
<1>4. InFlight /\ CacheSound /\ Stamped
  BY DEF Init, InFlight, CacheSound, Stamped
<1> QED
  BY <1>2, <1>3, <1>4 DEF IndInv

\* Returning an answer is type-correct and leaves the other threads alone.
LEMMA ReturnInv ==
  ASSUME IndInv, NEW t \in Threads, NEW r \in KeySets \cup {NoKeys}, Return(t, r),
         UNCHANGED <<idp, served>>
  PROVE  /\ pc' \in [Threads -> {"idle", "lookup", "discover", "jwks", "store"}]
         /\ issuer' \in [Threads -> Issuers \cup {Nobody}]
         /\ source' \in [Threads -> Issuers \cup {Nobody}]
         /\ \A u \in Threads : issuer'[u] = Nobody <=> pc'[u] = "idle"
         /\ keys' \in [Threads -> KeySets \cup {NoKeys}]
         /\ result' \in [Threads -> KeySets \cup {NoKeys}]
         /\ InFlight'
<1>1. /\ pc' \in [Threads -> {"idle", "lookup", "discover", "jwks", "store"}]
      /\ issuer' \in [Threads -> Issuers \cup {Nobody}]
      /\ source' \in [Threads -> Issuers \cup {Nobody}]
      /\ \A u \in Threads : issuer'[u] = Nobody <=> pc'[u] = "idle"
      /\ keys' \in [Threads -> KeySets \cup {NoKeys}]
      /\ result' \in [Threads -> KeySets \cup {NoKeys}]
  BY DEF Return, IndInv, TypeOK
<1>2. InFlight'
  <2> SUFFICES ASSUME NEW u \in Threads, pc'[u] \in {"jwks", "store"}
               PROVE  /\ source'[u] = issuer'[u]
                      /\ pc'[u] = "store" =>
                           /\ keys'[u] \in KeySets
                           /\ keys'[u].iss = issuer'[u] /\ keys'[u].kinds = {"public"}
                           /\ served[u] <= now /\ now - served[u] <= Latency
                           /\ CurrentSince(keys'[u], served[u])
    BY DEF InFlight, CurrentSince, idp
  <2>1. /\ pc'[u] = pc[u] /\ source'[u] = source[u] /\ issuer'[u] = issuer[u]
        /\ keys'[u] = keys[u]
    BY DEF Return, IndInv, TypeOK
  <2> QED
    BY <2>1 DEF IndInv, InFlight
<1> QED
  BY <1>1, <1>2

\* Every step keeps the invariant.
LEMMA IndStep == IndInv /\ [Next]_vars => IndInv'
<1> SUFFICES ASSUME IndInv, [Next]_vars PROVE IndInv'
  OBVIOUS
<1> USE JwksAssumptions
<1>1. ASSUME NEW t \in Threads, NEW i \in Issuers, KeysFor(t, i) PROVE IndInv'
  <2>1. TypeOK'
    BY <1>1 DEF KeysFor, IndInv, TypeOK, idp
  <2>2. Owned' /\ CacheSound' /\ Stamped'
    BY <1>1 DEF KeysFor, IndInv, Owned, CacheSound, Stamped, CurrentSince, idp
  <2>3. InFlight'
    BY <1>1 DEF KeysFor, IndInv, TypeOK, InFlight, CurrentSince, idp
  <2> QED
    BY <2>1, <2>2, <2>3 DEF IndInv
<1>2. ASSUME NEW t \in Threads, Hit(t) PROVE IndInv'
  <2>1. cache[issuer[t]].keys \in KeySets
    BY <1>2 DEF Hit, Cached, IndInv, TypeOK
  <2>2. TypeOK' /\ InFlight'
    BY <1>2, <2>1, ReturnInv DEF Hit, IndInv, TypeOK, idp
  <2>3. Owned' /\ CacheSound' /\ Stamped'
    BY <1>2 DEF Hit, IndInv, Owned, CacheSound, Stamped, CurrentSince, idp
  <2> QED
    BY <2>2, <2>3 DEF IndInv
<1>3. ASSUME NEW t \in Threads, Miss(t) PROVE IndInv'
  <2>1. TypeOK' /\ Owned' /\ CacheSound' /\ Stamped'
    BY <1>3 DEF Miss, IndInv, TypeOK, Owned, CacheSound, Stamped, CurrentSince, idp
  <2>2. InFlight'
    BY <1>3 DEF Miss, IndInv, TypeOK, InFlight, CurrentSince, idp
  <2> QED
    BY <2>1, <2>2 DEF IndInv
<1>4. ASSUME NEW t \in Threads, NEW d \in Issuers, Discover(t, d) PROVE IndInv'
  <2>1. TypeOK' /\ Owned' /\ CacheSound' /\ Stamped'
    BY <1>4 DEF Discover, IndInv, TypeOK, Owned, CacheSound, Stamped, CurrentSince, idp
  <2>2. InFlight'
    BY <1>4 DEF Discover, SameIssuer, IndInv, TypeOK, InFlight, CurrentSince, idp
  <2> QED
    BY <2>1, <2>2 DEF IndInv
<1>5. ASSUME NEW t \in Threads, FetchJwks(t) PROVE IndInv'
  <2> DEFINE doc == published[source[t]]
             ks == KeySet(doc.iss, doc.gen, Usable(doc.kinds))
  <2>1. source[t] \in Issuers /\ source[t] = issuer[t]
    BY <1>5 DEF FetchJwks, IndInv, TypeOK, InFlight
  <2>2. doc \in KeySets /\ doc.iss = issuer[t]
    BY <2>1 DEF IndInv, TypeOK, Owned
  <2>3. ks \in KeySets /\ ks.iss = issuer[t] /\ ks.gen = doc.gen /\ ks.kinds = {"public"}
    BY <1>5, <2>2 DEF FetchJwks, Parses, Usable, KeySet, KeySets, Kinds
  <2>4. /\ keys' = [keys EXCEPT ![t] = ks]
        /\ served' = [served EXCEPT ![t] = now]
        /\ pc' = [pc EXCEPT ![t] = "store"]
        /\ UNCHANGED <<now, published, since, cache, issuer, source, result>>
        /\ pc[t] = "jwks"
    BY <1>5 DEF FetchJwks, idp
  <2>5. CurrentSince(ks, now)
    BY <2>1, <2>3 DEF CurrentSince
  <2> HIDE DEF ks, doc
  <2>6. TypeOK' /\ Owned' /\ CacheSound' /\ Stamped'
    BY <2>3, <2>4 DEF IndInv, TypeOK, Owned, CacheSound, Stamped, CurrentSince
  <2>7. InFlight'
    <3> SUFFICES ASSUME NEW u \in Threads
                 PROVE  /\ pc'[u] \in {"jwks", "store"} => source[u] = issuer[u]
                        /\ pc'[u] = "store" =>
                             /\ keys'[u] \in KeySets
                             /\ keys'[u].iss = issuer[u] /\ keys'[u].kinds = {"public"}
                             /\ served'[u] <= now /\ now - served'[u] <= Latency
                             /\ CurrentSince(keys'[u], served'[u])
      BY <2>4 DEF InFlight, CurrentSince
    <3>1. CASE u = t
      <4>1. keys'[u] = ks /\ served'[u] = now
        BY <2>4, <3>1 DEF IndInv, TypeOK
      <4> QED
        BY <2>1, <2>3, <2>5, <3>1, <4>1 DEF IndInv, TypeOK
    <3>2. CASE u # t
      <4>1. keys'[u] = keys[u] /\ served'[u] = served[u] /\ pc'[u] = pc[u]
        BY <2>4, <3>2 DEF IndInv, TypeOK
      <4> QED
        BY <4>1 DEF IndInv, InFlight
    <3> QED
      BY <3>1, <3>2
  <2> QED
    BY <2>6, <2>7 DEF IndInv
<1>6. ASSUME NEW t \in Threads, FetchFails(t) PROVE IndInv'
  <2>1. TypeOK' /\ InFlight'
    BY <1>6, ReturnInv DEF FetchFails, IndInv, TypeOK, idp
  <2>2. Owned' /\ CacheSound' /\ Stamped'
    BY <1>6 DEF FetchFails, IndInv, Owned, CacheSound, Stamped, CurrentSince, idp
  <2> QED
    BY <2>1, <2>2 DEF IndInv
<1>7. ASSUME NEW t \in Threads, Store(t) PROVE IndInv'
  <2>1. /\ pc[t] = "store" /\ issuer[t] \in Issuers
        /\ keys[t] \in KeySets /\ keys[t].iss = issuer[t] /\ keys[t].kinds = {"public"}
        /\ now \in Nat /\ served[t] \in Nat /\ now - served[t] <= Latency
        /\ CurrentSince(keys[t], served[t])
    BY <1>7 DEF Store, IndInv, TypeOK, InFlight
  <2>2. /\ cache' = [i \in DOMAIN cache \cup {issuer[t]} |->
                       IF i = issuer[t] THEN [keys |-> keys[t], at |-> now] ELSE cache[i]]
        /\ Return(t, keys[t])
        /\ UNCHANGED <<now, published, since, served>>
    BY <1>7 DEF Store, idp
  <2>3. TypeOK' /\ InFlight'
    <3>1. /\ DOMAIN cache' \subseteq Issuers
          /\ \A i \in DOMAIN cache' : cache'[i] \in [keys : KeySets, at : Nat]
      BY <2>1, <2>2 DEF IndInv, TypeOK
    <3> QED
      BY <2>1, <2>2, <3>1, ReturnInv DEF IndInv, TypeOK, idp
  <2>4. Owned' /\ CacheSound'
    BY <2>1, <2>2 DEF IndInv, Owned, CacheSound
  <2>5. CurrentSince(keys[t], now - Latency)
    <3>1. since[keys[t].iss] \in [1 .. MaxGen -> Nat]
          /\ keys[t].gen \in 1 .. MaxGen /\ published[keys[t].iss].gen \in 1 .. MaxGen
      BY <2>1 DEF IndInv, TypeOK, KeySets
    <3>2. served[t] >= now - Latency
      BY <2>1
    <3> DEFINE r == since[keys[t].iss][keys[t].gen + 1]
    <3>3. keys[t].gen < published[keys[t].iss].gen => r \in Nat
      BY <3>1
    <3>4. \/ keys[t].gen = published[keys[t].iss].gen
          \/ keys[t].gen < published[keys[t].iss].gen /\ r >= served[t]
      BY <2>1 DEF CurrentSince
    <3> HIDE DEF r
    <3>5. r \in Nat /\ r >= served[t] => r >= now - Latency
      BY <2>1, <3>2
    <3> QED
      BY <3>3, <3>4, <3>5 DEF CurrentSince, r
  <2>6. Stamped'
    <3> SUFFICES ASSUME NEW i \in DOMAIN cache'
                 PROVE  /\ cache'[i].at <= now
                        /\ CurrentSince(cache'[i].keys, cache'[i].at - Latency)
      BY <2>2 DEF Stamped, CurrentSince
    <3>1. CASE i = issuer[t]
      BY <2>1, <2>2, <2>5, <3>1
    <3>2. CASE i # issuer[t]
      BY <2>2, <3>2 DEF IndInv, Stamped
    <3> QED
      BY <3>1, <3>2
  <2> QED
    BY <2>3, <2>4, <2>6 DEF IndInv
<1>8. ASSUME NEW i \in Issuers, Rotate(i) PROVE IndInv'
  <2> DEFINE g == published[i].gen + 1
  <2>0. published[i] \in KeySets /\ published[i].gen \in 1 .. MaxGen /\ g <= MaxGen
    BY <1>8 DEF Rotate, IndInv, TypeOK, KeySets
  <2>1. PICK ks \in Documents :
          /\ published' = [published EXCEPT ![i] = KeySet(i, g, ks)]
          /\ since' = [since EXCEPT ![i][g] = now]
          /\ g \in 1 .. MaxGen
          /\ UNCHANGED <<now, cache, pc, issuer, source, keys, served, result>>
    <3>1. g \in 1 .. MaxGen
      BY <2>0
    <3> QED
      BY <1>8, <3>1, Zenon DEF Rotate
  <2>2. /\ published' \in [Issuers -> KeySets] /\ Owned'
        /\ since' \in [Issuers -> [1 .. MaxGen -> Nat]]
    BY <2>1 DEF IndInv, TypeOK, KeySets, KeySet, Owned
  <2>3. TypeOK' /\ CacheSound'
    BY <2>1, <2>2 DEF IndInv, TypeOK, CacheSound
  <2>4. ASSUME NEW x \in KeySets, NEW s \in Int, s <= now, CurrentSince(x, s)
        PROVE  CurrentSince(x, s)'
    <3>1. /\ published[x.iss].gen \in 1 .. MaxGen /\ x.gen \in 1 .. MaxGen /\ x.iss \in Issuers
          /\ now \in Nat
      BY DEF IndInv, TypeOK, KeySets
    <3>2. CASE x.iss # i
      BY <2>1, <2>4, <3>1, <3>2 DEF CurrentSince, IndInv, TypeOK
    <3>3. CASE x.iss = i
      <4>1. published'[i].gen = g /\ g = published[i].gen + 1
        BY <2>1 DEF IndInv, TypeOK, KeySet
      <4>2. since'[i] = [since[i] EXCEPT ![g] = now]
        BY <2>1 DEF IndInv, TypeOK
      <4>3. CASE x.gen = published[i].gen
        <5>1. x.gen + 1 = g /\ since'[i][g] = now
          BY <2>1, <4>2, <4>3 DEF IndInv, TypeOK
        <5> QED
          BY <2>4, <3>1, <3>3, <4>1, <4>3, <5>1 DEF CurrentSince
      <4>4. CASE x.gen < published[i].gen /\ since[i][x.gen + 1] >= s
        <5>1. x.gen + 1 # g /\ x.gen + 1 \in 1 .. MaxGen
          BY <3>1, <3>3, <4>1, <4>4
        <5>2. since'[i][x.gen + 1] = since[i][x.gen + 1]
          BY <4>2, <5>1 DEF IndInv, TypeOK
        <5>3. x.gen < g
          BY <3>1, <3>3, <4>1, <4>4
        <5> QED
          BY <3>3, <4>1, <4>4, <5>2, <5>3 DEF CurrentSince
      <4> QED
        BY <2>4, <3>3, <4>3, <4>4 DEF CurrentSince
    <3> QED
      BY <3>2, <3>3
  <2>5. InFlight'
    <3> SUFFICES ASSUME NEW t \in Threads
                 PROVE  /\ pc[t] \in {"jwks", "store"} => source[t] = issuer[t]
                        /\ pc[t] = "store" =>
                             /\ keys[t] \in KeySets
                             /\ keys[t].iss = issuer[t] /\ keys[t].kinds = {"public"}
                             /\ served[t] <= now /\ now - served[t] <= Latency
                             /\ CurrentSince(keys[t], served[t])'
      BY <2>1 DEF InFlight, CurrentSince
    <3>1. served[t] \in Int
      BY DEF IndInv, TypeOK
    <3>2. CASE pc[t] = "store"
      <4>1. /\ keys[t] \in KeySets /\ served[t] <= now /\ CurrentSince(keys[t], served[t])
            /\ UNCHANGED <<keys, served>>
        BY <2>1, <3>2 DEF IndInv, InFlight
      <4>2. CurrentSince(keys[t], served[t])'
        <5> DEFINE x == keys[t]
                   s == served[t]
        <5>1. ASSUME NEW y \in KeySets, NEW r \in Int, y = x, r = s
              PROVE CurrentSince(y, r)'
          BY <2>4, <4>1, <5>1
        <5> QED
          BY <3>1, <4>1, <5>1 DEF CurrentSince
      <4> QED
        BY <3>2, <4>2 DEF IndInv, InFlight
    <3>3. CASE pc[t] # "store"
      BY <3>3 DEF IndInv, InFlight
    <3> QED
      BY <3>2, <3>3
  <2>6. Stamped'
    <3> SUFFICES ASSUME NEW j \in DOMAIN cache
                 PROVE  /\ cache[j].at <= now
                        /\ CurrentSince(cache[j].keys, cache[j].at - Latency)'
      BY <2>1 DEF Stamped, CurrentSince
    <3>1. /\ cache[j].at \in Nat /\ cache[j].keys \in KeySets /\ cache[j].at <= now
          /\ now \in Nat
          /\ CurrentSince(cache[j].keys, cache[j].at - Latency)
      BY DEF IndInv, TypeOK, Stamped
    <3>2. cache[j].at - Latency \in Int /\ cache[j].at - Latency <= now
      BY <3>1
    <3>3. ASSUME NEW y \in KeySets, NEW r \in Int,
                 y = cache[j].keys, r = cache[j].at - Latency
          PROVE  CurrentSince(y, r)'
      BY <2>4, <3>1, <3>2, <3>3
    <3> QED
      BY <2>1, <3>1, <3>2, <3>3 DEF CurrentSince
  <2> QED
    BY <2>2, <2>3, <2>5, <2>6 DEF IndInv
<1>9. CASE Tick
  <2>1. TypeOK' /\ Owned' /\ CacheSound'
    BY <1>9 DEF Tick, IndInv, TypeOK, Owned, CacheSound
  <2>2. InFlight'
    BY <1>9 DEF Tick, IndInv, TypeOK, InFlight, CurrentSince
  <2>3. Stamped'
    BY <1>9 DEF Tick, IndInv, TypeOK, Stamped, CurrentSince
  <2> QED
    BY <2>1, <2>2, <2>3 DEF IndInv
<1>10. CASE UNCHANGED vars
  <2>1. TypeOK' /\ Owned' /\ CacheSound' /\ Stamped'
    BY <1>10 DEF vars, IndInv, TypeOK, Owned, CacheSound, Stamped, CurrentSince
  <2>2. InFlight'
    BY <1>10 DEF vars, IndInv, InFlight, CurrentSince
  <2> QED
    BY <2>1, <2>2 DEF IndInv
<1> QED
  BY <1>1, <1>2, <1>3, <1>4, <1>5, <1>6, <1>7, <1>8, <1>9, <1>10 DEF Next

\* The cache, the fetches in flight and the published key sets keep their
\* types, whatever order the steps of `keys_for` overlap in.
THEOREM TypeCorrect == Spec => []TypeOK
<1>1. IndInv => TypeOK
  BY DEF IndInv
<1> QED
  BY <1>1, InitInv, IndStep, PTL DEF Spec

\* The issuer comparison in `fetch_keys` rules out a mix-up: the cache only
\* ever holds an issuer's own public keys.
THEOREM NoMixUp == Spec => []CacheSound
<1>1. IndInv => CacheSound
  BY DEF IndInv
<1> QED
  BY <1>1, InitInv, IndStep, PTL DEF Spec

\* A key set that was rotated out is never returned for longer than cache_ttl
\* plus the latency of a fetch, whichever overlapping fetch stores last.
THEOREM Staleness == Spec => BoundedStaleness
<1> DEFINE Fine == \A t \in Threads :
             (pc[t] # "idle" /\ pc'[t] = "idle" /\ result'[t] # NoKeys)
               => PublishedWithin(result'[t], Ttl + Latency)
<1>1. IndInv /\ [Next]_vars => [Fine]_vars
  <2> SUFFICES ASSUME IndInv, Next, NEW t \in Threads,
                      pc[t] # "idle", pc'[t] = "idle", result'[t] # NoKeys
               PROVE  PublishedWithin(result'[t], Ttl + Latency)
    OBVIOUS
  <2> USE JwksAssumptions
  <2>1. ASSUME NEW x \in KeySets, NEW s \in Int, CurrentSince(x, s), now - s <= Ttl + Latency
        PROVE  PublishedWithin(x, Ttl + Latency)
    <3>1. CASE x.gen = published[x.iss].gen
      BY <3>1 DEF PublishedWithin
    <3>2. CASE x.gen < published[x.iss].gen /\ since[x.iss][x.gen + 1] >= s
      <4>0. /\ x.gen \in 1 .. MaxGen /\ x.iss \in Issuers
            /\ published[x.iss].gen \in 1 .. MaxGen
        BY DEF IndInv, TypeOK, KeySets
      <4>1. x.gen + 1 \in 1 .. MaxGen
        BY <3>2, <4>0
      <4>2. since[x.iss][x.gen + 1] \in Nat /\ now \in Nat
        BY <4>0, <4>1 DEF IndInv, TypeOK
      <4>3. now - since[x.iss][x.gen + 1] <= Ttl + Latency
        BY <2>1, <3>2, <4>2
      <4> QED
        BY <4>3 DEF PublishedWithin
    <3> QED
      BY <2>1, <3>1, <3>2 DEF CurrentSince
  <2>2. PICK u \in Threads : Hit(u) \/ FetchFails(u) \/ Store(u)
    BY DEF Next, KeysFor, Miss, Discover, FetchJwks, Rotate, Tick, IndInv, TypeOK
  <2>3. u = t
    BY <2>2 DEF Hit, FetchFails, Store, Return, IndInv, TypeOK
  <2>4. CASE Hit(t)
    <3> DEFINE e == cache[issuer[t]]
    <3>1. /\ result'[t] = e.keys /\ e \in [keys : KeySets, at : Nat]
          /\ now - e.at < Ttl /\ now \in Nat
          /\ CurrentSince(e.keys, e.at - Latency)
      BY <2>4 DEF Hit, Cached, Return, IndInv, TypeOK, Stamped
    <3> HIDE DEF e
    <3>2. e.keys \in KeySets /\ e.at \in Nat
      BY <3>1
    <3>3. e.at - Latency \in Int /\ now - (e.at - Latency) <= Ttl + Latency
      BY <3>1, <3>2
    <3> QED
      BY <2>1, <3>1, <3>2, <3>3
  <2>5. CASE Store(t)
    <3>1. /\ result'[t] = keys[t] /\ keys[t] \in KeySets
          /\ served[t] \in Int /\ now \in Nat /\ now - served[t] <= Latency
          /\ CurrentSince(keys[t], served[t])
      BY <2>5 DEF Store, Return, IndInv, TypeOK, InFlight
    <3>2. now - served[t] <= Ttl + Latency
      BY <3>1
    <3> QED
      BY <2>1, <3>1, <3>2
  <2>6. CASE FetchFails(t)
    BY <2>6 DEF FetchFails, Return, IndInv, TypeOK
  <2> QED
    BY <2>2, <2>3, <2>4, <2>5, <2>6
<1> QED
  BY <1>1, InitInv, IndStep, PTL DEF Spec, BoundedStaleness

\* What `keys_for` hands to the signature check, from the cache or from a fetch
\* of its own, are public keys of the issuer that was asked for: no overlap of
\* calls for several issuers answers one with the keys of another.
THEOREM AnswersOwnPublicKeys ==
  Spec => [][\A t \in Threads :
               (pc[t] # "idle" /\ pc'[t] = "idle" /\ result'[t] # NoKeys)
                 => result'[t].iss = issuer[t] /\ result'[t].kinds = {"public"}]_vars
<1>1. IndInv /\ [Next]_vars =>
        \A t \in Threads :
          (pc[t] # "idle" /\ pc'[t] = "idle" /\ result'[t] # NoKeys)
            => result'[t].iss = issuer[t] /\ result'[t].kinds = {"public"}
  <2> SUFFICES ASSUME IndInv, [Next]_vars, NEW t \in Threads,
                      pc[t] # "idle", pc'[t] = "idle", result'[t] # NoKeys
               PROVE  result'[t].iss = issuer[t] /\ result'[t].kinds = {"public"}
    OBVIOUS
  <2>1. PICK u \in Threads : Hit(u) \/ FetchFails(u) \/ Store(u)
    BY DEF Next, vars, KeysFor, Miss, Discover, FetchJwks, Rotate, Tick, IndInv, TypeOK
  <2>2. u = t
    BY <2>1 DEF Hit, FetchFails, Store, Return, IndInv, TypeOK
  <2>3. CASE Hit(t)
    BY <2>3 DEF Hit, Cached, Return, IndInv, TypeOK, CacheSound
  <2>4. CASE Store(t)
    BY <2>4 DEF Store, Return, IndInv, TypeOK, InFlight
  <2>5. CASE FetchFails(t)
    BY <2>5 DEF FetchFails, Return, IndInv, TypeOK
  <2> QED
    BY <2>1, <2>2, <2>3, <2>4, <2>5
<1> QED
  BY <1>1, InitInv, IndStep, PTL DEF Spec

\* Overlapping fetches may store in the wrong order, and an older key set
\* replace a newer one; but only while the rotation is no older than the latency
\* of a fetch, so the cache cannot fall back on keys retired long ago.
THEOREM RollsBackOnlyJustRotated ==
  Spec => [][\A i \in DOMAIN cache :
               /\ i \in DOMAIN cache' /\ cache'[i].at >= cache[i].at
               /\ cache'[i].keys.gen < cache[i].keys.gen =>
                    now - since[i][cache'[i].keys.gen + 1] <= Latency]_vars
<1>1. ASSUME IndInv, [Next]_vars, NEW i \in DOMAIN cache
      PROVE  /\ i \in DOMAIN cache' /\ cache'[i].at >= cache[i].at
             /\ cache'[i].keys.gen < cache[i].keys.gen =>
                  now - since[i][cache'[i].keys.gen + 1] <= Latency
  <2>1. /\ i \in Issuers /\ cache[i] \in [keys : KeySets, at : Nat]
        /\ cache[i].at \in Nat /\ cache[i].keys.gen \in 1 .. MaxGen
        /\ published[i].gen \in 1 .. MaxGen
        /\ cache[i].keys.iss = i /\ cache[i].at <= now
        /\ cache[i].keys.gen <= published[i].gen
    <3>1. i \in Issuers /\ cache[i] \in [keys : KeySets, at : Nat]
      BY <1>1 DEF IndInv, TypeOK
    <3>2. cache[i].at \in Nat /\ cache[i].keys.gen \in 1 .. MaxGen
      BY <3>1 DEF KeySets
    <3>3. published[i].gen \in 1 .. MaxGen
      BY <1>1, <3>1 DEF IndInv, TypeOK, KeySets
    <3>4. cache[i].keys.iss = i /\ cache[i].at <= now
      BY <1>1 DEF IndInv, CacheSound, Stamped
    <3>5. cache[i].keys.gen <= published[i].gen
      BY <1>1, <3>2, <3>3, <3>4, JwksAssumptions DEF IndInv, Stamped, CurrentSince
    <3> QED
      BY <3>1, <3>2, <3>3, <3>4, <3>5
  <2>2. CASE cache' = cache
    BY <1>1, <2>1, <2>2
  <2>3. ASSUME NEW t \in Threads, Store(t), i = issuer[t]
        PROVE  /\ i \in DOMAIN cache' /\ cache'[i].at >= cache[i].at
               /\ cache'[i].keys.gen < cache[i].keys.gen =>
                    now - since[i][cache'[i].keys.gen + 1] <= Latency
    <3>1. cache'[i] = [keys |-> keys[t], at |-> now] /\ i \in DOMAIN cache'
      BY <2>3 DEF Store
    <3>2. /\ keys[t] \in KeySets /\ keys[t].iss = i
          /\ served[t] \in Nat /\ now \in Nat /\ now - served[t] <= Latency
          /\ CurrentSince(keys[t], served[t])
      BY <1>1, <2>3 DEF Store, IndInv, TypeOK, InFlight
    <3>3. keys[t].gen \in 1 .. MaxGen
      BY <3>2 DEF KeySets
    <3>4. ASSUME keys[t].gen < cache[i].keys.gen
          PROVE  now - since[i][keys[t].gen + 1] <= Latency
      <4>1. keys[t].gen # published[i].gen /\ keys[t].gen + 1 \in 1 .. MaxGen
        BY <2>1, <3>3, <3>4, JwksAssumptions
      <4>2. since[i][keys[t].gen + 1] \in Nat
        <5>1. since[i] \in [1 .. MaxGen -> Nat]
          BY <1>1, <2>1 DEF IndInv, TypeOK
        <5> QED
          BY <4>1, <5>1
      <4>3. since[i][keys[t].gen + 1] >= served[t]
        BY <3>2, <4>1 DEF CurrentSince
      <4> QED
        BY <3>2, <4>2, <4>3, JwksAssumptions
    <3> QED
      BY <2>1, <3>1, <3>2, <3>4
  <2>4. ASSUME NEW t \in Threads, Store(t), i # issuer[t]
        PROVE  i \in DOMAIN cache' /\ cache'[i] = cache[i]
    BY <1>1, <2>4 DEF Store
  <2>5. cache' = cache \/ \E t \in Threads : Store(t)
    BY <1>1 DEF Next, vars, KeysFor, Hit, Miss, Discover, FetchJwks, FetchFails, Rotate, Tick
  <2> QED
    BY <2>1, <2>2, <2>3, <2>4, <2>5
<1>2. IndInv /\ [Next]_vars =>
        \A i \in DOMAIN cache :
          /\ i \in DOMAIN cache' /\ cache'[i].at >= cache[i].at
          /\ cache'[i].keys.gen < cache[i].keys.gen =>
               now - since[i][cache'[i].keys.gen + 1] <= Latency
  BY <1>1
<1> QED
  BY <1>2, InitInv, IndStep, PTL DEF Spec
=============================================================================
