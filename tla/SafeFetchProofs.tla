--------------------------- MODULE SafeFetchProofs ---------------------------
(***************************************************************************)
(* The safety properties of SafeFetch, for any names, addresses, classes,  *)
(* timeout, cap and number of redirects.  The invariant has a part for     *)
(* each thing a later step relies on: what passed the gate and the         *)
(* classifier stays in `url` and `pinned` until the connection, reading    *)
(* never runs past the body, and each wait's time is counted once.         *)
(***************************************************************************)
EXTENDS SafeFetch, TLAPS

\* The gate's conditions on a URL other than its host.
Clean(u) ==
  /\ u.scheme = "https" \/ (u.scheme = "http" /\ allow_loopback)
  /\ ~u.userinfo

\* Between the gate and the connection: the URL is the one that passed, and
\* every address still pinned is one that passed.
Gated ==
  /\ pc \in {"resolve", "connect", "await"} => Clean(url)
  /\ pc \in {"connect", "await"} => \A a \in pinned : Acceptable(a, url.scheme)

\* Nothing is read before a response, and nothing the server did not send.
Reading ==
  /\ pc \in {"gate", "resolve", "connect", "await"} => got = 0
  /\ pc = "read" => got <= size
  /\ pc # "idle" => result = "none"

\* Every wait before this one took at most the timeout: one for each hop, and
\* one for each unit read.
Accounted ==
  /\ hop <= MaxRedirects
  /\ pc \in {"gate", "resolve", "connect", "await"} => elapsed <= hop * Timeout + spent
  /\ elapsed <= (hop + 1 + got) * Timeout + spent

\* The inductive invariant.
IndInv ==
  /\ TypeOK
  /\ Gated
  /\ ContactsOnlyPublic
  /\ CleartextStaysLocal
  /\ Reading
  /\ WholeBodyOrNone
  /\ Accounted

-----------------------------------------------------------------------------
\* The invariant holds initially, before the first call.
LEMMA InitInd == Init => IndInv
  <1> SUFFICES ASSUME Init PROVE IndInv
    OBVIOUS
  <1> USE FetchAssumptions
  <1>1. TypeOK
    BY DEF Init, TypeOK
  <1>2. Gated /\ ContactsOnlyPublic /\ CleartextStaysLocal /\ Reading
    BY DEF Init, Gated, ContactsOnlyPublic, CleartextStaysLocal, Reading
  <1>3. WholeBodyOrNone
    BY DEF Init, WholeBodyOrNone
  <1>4. Accounted
    BY DEF Init, Accounted
  <1> QED
    BY <1>1, <1>2, <1>3, <1>4 DEF IndInv

\* A step of any action keeps every variable in its type.
LEMMA TypeStep == TypeOK /\ [Next]_vars => TypeOK'
  <1> SUFFICES ASSUME TypeOK, [Next]_vars PROVE TypeOK'
    OBVIOUS
  <1> USE FetchAssumptions DEF TypeOK, env, body, clocks
  <1>1. ASSUME NEW u \in Urls, Get(u) PROVE TypeOK'
    BY <1>1 DEF Get
  <1>2. CASE Gate
    BY <1>2 DEF Gate, Urls
  <1>3. CASE GateRefuses \/ ResolveRefuses \/ TooManyRedirects \/ HopFails \/ TimedOut
    BY <1>3 DEF GateRefuses, ResolveRefuses, TooManyRedirects, HopFails, TimedOut, Return
  <1>4. CASE Resolve
    BY <1>4 DEF Resolve
  <1>5. ASSUME NEW a \in Addrs, Connect(a) PROVE TypeOK'
    BY <1>5 DEF Connect
  <1>6. CASE ReadEnd
    BY <1>6 DEF ReadEnd, Return
  <1>7. CASE TryNext \/ Chunk
    BY <1>7 DEF TryNext, Chunk, NextRead
  <1>8. ASSUME NEW u \in Urls, Redirect(u) PROVE TypeOK'
    BY <1>8 DEF Redirect
  <1>9. ASSUME NEW n \in 0 .. MaxSize, Respond(n) \/ RefuseLength(n) PROVE TypeOK'
    BY <1>9 DEF Respond, NextRead, RefuseLength, Return
  <1>10. CASE Tick
    BY <1>10 DEF Tick
  <1>11. ASSUME NEW n \in Names, NEW records \in SUBSET Addrs, Rebind(n, records)
         PROVE TypeOK'
    BY <1>11 DEF Rebind
  <1>12. CASE UNCHANGED vars
    BY <1>12 DEF vars
  <1> QED
    BY <1>1, <1>2, <1>3, <1>4, <1>5, <1>6, <1>7, <1>8, <1>9, <1>10, <1>11, <1>12
    DEF Next, Fetcher, Server

\* What passed the gate and the classifier is what is connected to.
LEMMA ContactStep ==
  TypeOK /\ Gated /\ ContactsOnlyPublic /\ CleartextStaysLocal /\ [Next]_vars
    => Gated' /\ ContactsOnlyPublic' /\ CleartextStaysLocal'
  <1> SUFFICES ASSUME TypeOK, Gated, ContactsOnlyPublic, CleartextStaysLocal, [Next]_vars
               PROVE Gated' /\ ContactsOnlyPublic' /\ CleartextStaysLocal'
    OBVIOUS
  <1> DEFINE Goal == Gated' /\ ContactsOnlyPublic' /\ CleartextStaysLocal'
  <1> USE DEF Gated, ContactsOnlyPublic, CleartextStaysLocal, env, body, clocks,
              Clean, Acceptable, IsPublic
  <1>1. ASSUME NEW u \in Urls, Get(u) PROVE Goal
    BY <1>1 DEF Get
  <1>2. CASE Gate
    BY <1>2 DEF Gate, GatePasses
  <1>3. CASE GateRefuses \/ ResolveRefuses \/ TooManyRedirects \/ HopFails \/ TimedOut
    BY <1>3 DEF GateRefuses, ResolveRefuses, TooManyRedirects, HopFails, TimedOut, Return
  <1>4. CASE Resolve
    BY <1>4 DEF Resolve, AllAcceptable
  <1>5. ASSUME NEW a \in Addrs, Connect(a) PROVE Goal
    <2>1. Acceptable(a, url.scheme) /\ Clean(url)
      BY <1>5 DEF Connect, Pinned
    <2>2. \A c \in contacted' : c \in contacted \/ (c.url = url /\ c.addr = a)
      BY <1>5 DEF Connect
    <2>3. Gated'
      BY <1>5 DEF Connect
    <2>4. allow_loopback' = allow_loopback
      BY <1>5 DEF Connect
    <2> QED
      BY <2>1, <2>2, <2>3, <2>4
  <1>6. CASE ReadEnd
    BY <1>6 DEF ReadEnd, Return
  <1>7. CASE TryNext \/ Chunk
    BY <1>7 DEF TryNext, Chunk, NextRead
  <1>8. ASSUME NEW u \in Urls, Redirect(u) PROVE Goal
    BY <1>8 DEF Redirect
  <1>9. ASSUME NEW n \in 0 .. MaxSize, Respond(n) \/ RefuseLength(n) PROVE Goal
    BY <1>9 DEF Respond, NextRead, RefuseLength, Return
  <1>10. CASE Tick
    BY <1>10 DEF Tick
  <1>11. ASSUME NEW n \in Names, NEW records \in SUBSET Addrs, Rebind(n, records)
         PROVE Goal
    BY <1>11 DEF Rebind
  <1>12. CASE UNCHANGED vars
    BY <1>12 DEF vars
  <1> QED
    BY <1>1, <1>2, <1>3, <1>4, <1>5, <1>6, <1>7, <1>8, <1>9, <1>10, <1>11, <1>12
    DEF Next, Fetcher, Server

\* The reader stops one past the cap, and only a whole body is returned.
LEMMA BodyStep ==
  TypeOK /\ Reading /\ WholeBodyOrNone /\ [Next]_vars => Reading' /\ WholeBodyOrNone'
  <1> SUFFICES ASSUME TypeOK, Reading, WholeBodyOrNone, [Next]_vars
               PROVE Reading' /\ WholeBodyOrNone'
    OBVIOUS
  <1> DEFINE Goal == Reading' /\ WholeBodyOrNone'
  <1> USE FetchAssumptions DEF TypeOK, Reading, WholeBodyOrNone, env, body, clocks, Limit
  <1>1. ASSUME NEW u \in Urls, Get(u) PROVE Goal
    BY <1>1 DEF Get
  <1>2. CASE Gate
    BY <1>2 DEF Gate
  <1>3. CASE GateRefuses \/ ResolveRefuses \/ TooManyRedirects \/ HopFails \/ TimedOut
    BY <1>3 DEF GateRefuses, ResolveRefuses, TooManyRedirects, HopFails, TimedOut, Return
  <1>4. CASE Resolve
    BY <1>4 DEF Resolve
  <1>5. ASSUME NEW a \in Addrs, Connect(a) PROVE Goal
    BY <1>5 DEF Connect
  <1>6. CASE ReadEnd
    BY <1>6 DEF ReadEnd, Return
  <1>7. CASE TryNext \/ Chunk
    BY <1>7 DEF TryNext, Chunk, NextRead
  <1>8. ASSUME NEW u \in Urls, Redirect(u) PROVE Goal
    BY <1>8 DEF Redirect
  <1>9. ASSUME NEW n \in 0 .. MaxSize, Respond(n) \/ RefuseLength(n) PROVE Goal
    BY <1>9 DEF Respond, NextRead, RefuseLength, Return
  <1>10. CASE Tick
    BY <1>10 DEF Tick
  <1>11. ASSUME NEW n \in Names, NEW records \in SUBSET Addrs, Rebind(n, records)
         PROVE Goal
    BY <1>11 DEF Rebind
  <1>12. CASE UNCHANGED vars
    BY <1>12 DEF vars
  <1> QED
    BY <1>1, <1>2, <1>3, <1>4, <1>5, <1>6, <1>7, <1>8, <1>9, <1>10, <1>11, <1>12
    DEF Next, Fetcher, Server

\* A product with one more, for the solver.
LEMMA OneMore == ASSUME NEW n \in Nat, NEW t \in Nat
                 PROVE  /\ n * t \in Nat
                        /\ (n + 1) * t = n * t + t
  OBVIOUS

\* A bound stays one with more on its side.
LEMMA Slack == ASSUME NEW a \in Nat, NEW b \in Nat, NEW c \in Nat, a <= b
               PROVE  a <= b + c
  OBVIOUS

\* A step adds at most one wait of at most the timeout.
LEMMA TimeStep == TypeOK /\ Reading /\ Accounted /\ [Next]_vars => Accounted'
  <1> SUFFICES ASSUME TypeOK, Reading, Accounted, [Next]_vars PROVE Accounted'
    OBVIOUS
  <1>1. /\ hop \in Nat /\ got \in Nat /\ elapsed \in Nat
        /\ spent \in Nat /\ spent <= Timeout /\ Timeout \in Nat /\ MaxRedirects \in Nat
    BY FetchAssumptions DEF TypeOK
  <1>2. /\ hop * Timeout \in Nat
        /\ (hop + 1) * Timeout = hop * Timeout + Timeout
    BY <1>1, OneMore
  <1>3. /\ (hop + 1 + got) * Timeout \in Nat
        /\ (hop + 1 + got + 1) * Timeout = (hop + 1 + got) * Timeout + Timeout
    BY <1>1, OneMore
  <1>4. hop + 1 + (got + 1) = hop + 1 + got + 1 /\ hop + 1 + 0 = hop + 1
        /\ hop + 1 + 1 + 0 = hop + 1 + 1
    BY <1>1
  <1>5. ASSUME NEW u \in Urls, Get(u) PROVE Accounted'
    <2>1. hop' = 0 /\ got' = 0 /\ spent' = 0 /\ elapsed' = 0
      BY <1>5 DEF Get
    <2> QED
      BY <1>1, <2>1 DEF Accounted
  <1>6. ASSUME NEW u \in Urls, Redirect(u) PROVE Accounted'
    <2>1. /\ hop' = hop + 1 /\ hop < MaxRedirects
          /\ elapsed' = elapsed /\ spent' = 0 /\ got = 0 /\ got' = 0
          /\ elapsed <= hop * Timeout + spent
      BY <1>6 DEF Redirect, HopsLeft, Reading, Accounted, body
    <2>2. /\ (hop + 1) * Timeout \in Nat
          /\ (hop + 1 + 1) * Timeout = (hop + 1) * Timeout + Timeout
      BY <1>1, OneMore
    <2>3. elapsed <= (hop + 1) * Timeout /\ elapsed <= (hop + 1 + 1) * Timeout
      BY <1>1, <1>2, <2>1, <2>2
    <2> QED
      BY <1>1, <1>4, <2>1, <2>3 DEF Accounted
  <1>7. CASE Tick
    <2>1. /\ hop' = hop /\ elapsed' = elapsed + 1 /\ spent' = spent + 1
          /\ got' = got /\ pc' = pc
      BY <1>7 DEF Tick, body
    <2> QED
      BY <1>1, <1>2, <1>3, <2>1 DEF Accounted
  <1>8. ASSUME NEW n \in 0 .. MaxSize, Respond(n) PROVE Accounted'
    <2>1. /\ hop' = hop /\ elapsed' = elapsed /\ got = 0 /\ got' = 0 /\ pc' = "read"
          /\ spent' \in {spent, 0} /\ elapsed <= hop * Timeout + spent
      BY <1>8 DEF Respond, NextRead, Reading, Accounted
    <2>2. elapsed <= (hop + 1) * Timeout /\ spent' >= 0 /\ spent' \in Nat
      BY <1>1, <1>2, <2>1
    <2>3. (hop' + 1 + got') * Timeout = (hop + 1) * Timeout
      BY <1>4, <2>1
    <2>4. (hop + 1) * Timeout \in Nat
      BY <1>1, OneMore
    <2>5. elapsed <= (hop + 1) * Timeout + spent'
      BY <1>1, <2>2, <2>4, Slack
    <2> QED
      BY <2>1, <2>3, <2>5 DEF Accounted
  <1>9. CASE Chunk
    <2>1. /\ hop' = hop /\ elapsed' = elapsed /\ got' = got + 1
          /\ pc = "read" /\ pc' = "read" /\ spent' \in {spent, 0}
      BY <1>9 DEF Chunk, NextRead
    <2>2. (hop' + 1 + got') * Timeout = (hop + 1 + got + 1) * Timeout
      BY <1>4, <2>1
    <2>3. elapsed <= (hop + 1 + got) * Timeout + spent
      BY DEF Accounted
    <2>4. elapsed <= (hop + 1 + got + 1) * Timeout /\ spent' \in Nat
      BY <1>1, <1>3, <2>1, <2>3
    <2>5. (hop + 1 + got + 1) * Timeout \in Nat
      BY <1>1, <1>3
    <2>6. elapsed <= (hop + 1 + got + 1) * Timeout + spent'
      BY <1>1, <2>4, <2>5, Slack
    <2> QED
      BY <2>1, <2>2, <2>6 DEF Accounted
  <1>10. CASE /\ UNCHANGED <<hop, elapsed, spent, got>>
              /\ \/ pc' = "idle"
                 \/ pc' = "read" /\ pc = "read"
                 \/ pc \in {"gate", "resolve", "connect", "await"}
                 \/ pc' = pc
    BY <1>1, <1>2, <1>3, <1>10 DEF Accounted
  <1> QED
    BY <1>5, <1>6, <1>7, <1>8, <1>9, <1>10
    DEF Next, Fetcher, Server, Gate, GateRefuses, Resolve, ResolveRefuses, Connect,
        ReadEnd, TimedOut, TryNext, TooManyRedirects, HopFails, RefuseLength, Rebind,
        Return, vars, env, body, clocks

-----------------------------------------------------------------------------
\* Every step preserves the invariant, so it holds throughout.
LEMMA Inductive == Spec => []IndInv
  <1>1. IndInv /\ [Next]_vars => IndInv'
    BY TypeStep, ContactStep, BodyStep, TimeStep DEF IndInv
  <1> QED
    BY InitInd, <1>1, PTL DEF Spec

\* The state of a call of `SafeFetcher::get` keeps its type: only a URL with a
\* host name is ever resolved, and the wait never outlasts the timeout.
THEOREM TypeCorrect == Spec => []TypeOK
  <1>1. IndInv => TypeOK
    BY DEF IndInv
  <1> QED
    BY Inductive, <1>1, PTL

\* `SafeFetcher::get` never connects to an address that is not public (or
\* allowed loopback), with any records, rebindings and redirects.
THEOREM PublicOnly == Spec => []ContactsOnlyPublic
  <1>1. IndInv => ContactsOnlyPublic
    BY DEF IndInv
  <1> QED
    BY Inductive, <1>1, PTL

\* Cleartext http, and so a downgrading redirect, never leaves the machine.
THEOREM LocalCleartext == Spec => []CleartextStaysLocal
  <1>1. IndInv => CleartextStaysLocal
    BY DEF IndInv
  <1> QED
    BY Inductive, <1>1, PTL

\* `read_bounded` returns a whole body within the cap or none.
THEOREM WholeBody == Spec => []WholeBodyOrNone
  <1>1. IndInv => WholeBodyOrNone
    BY DEF IndInv
  <1> QED
    BY Inductive, <1>1, PTL

\* One call's HTTP exchanges take a number of timeouts that the two bounds of
\* the configuration, redirects and body cap, fix.
THEOREM TimeBound == Spec => []TimeBounded
  <1>1. IndInv => TimeBounded
    <2> SUFFICES ASSUME IndInv PROVE TimeBounded
      OBVIOUS
    <2>1. /\ hop \in Nat /\ hop <= MaxRedirects /\ MaxRedirects \in Nat
          /\ got \in Nat /\ got <= MaxBody + 1 /\ MaxBody \in Nat
          /\ spent \in Nat /\ spent <= Timeout /\ Timeout \in Nat /\ elapsed \in Nat
          /\ elapsed <= (hop + 1 + got) * Timeout + spent
      BY FetchAssumptions DEF IndInv, TypeOK, Accounted, WholeBodyOrNone
    <2> DEFINE m == hop + 1 + got
               k == (MaxRedirects - hop) + (MaxBody + 1 - got)
    <2>2. m \in Nat /\ k \in Nat /\ MaxRedirects + 1 + MaxBody + 2 = m + k + 1
      BY <2>1
    <2>3. elapsed <= m * Timeout + spent
      BY <2>1
    <2> HIDE DEF m, k
    <2>4. k * Timeout \in Nat /\ m * Timeout \in Nat
      BY <2>1, <2>2, OneMore
    <2>5. (m + k + 1) * Timeout = m * Timeout + k * Timeout + Timeout
      BY <2>1, <2>2
    <2>6. elapsed <= (m + k + 1) * Timeout
      BY <2>1, <2>3, <2>4, <2>5
    <2> QED
      BY <2>2, <2>6 DEF TimeBounded
  <1> QED
    BY Inductive, <1>1, PTL
=============================================================================
