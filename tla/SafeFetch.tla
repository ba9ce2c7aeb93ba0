------------------------------ MODULE SafeFetch ------------------------------
(***************************************************************************)
(* `SafeFetcher::get`: one GET at a time, every hop of it gated, resolved, *)
(* classified and pinned afresh, while the DNS records change underneath   *)
(* and servers redirect, stall, or send any amount.  The fetcher keeps no  *)
(* state between calls.                                                    *)
(***************************************************************************)
EXTENDS Integers

CONSTANTS Names,         \* host names
          Addrs,         \* IP addresses
          Public,        \* those the classifier finds public
          Loopback,      \* those `is_loopback_address` recognises
          Embedded,      \* loopback v4 addresses embedded in other v6 forms
          Timeout,       \* config.timeout, in ticks
          MaxBody,       \* config.max_body_bytes, in units
          MaxRedirects,  \* config.max_redirects
          MaxSize        \* bound: the largest body a server sends

ASSUME FetchAssumptions ==
  /\ Public \subseteq Addrs /\ Loopback \subseteq Addrs /\ Embedded \subseteq Addrs
  /\ Public \cap (Loopback \cup Embedded) = {}
  /\ Names \cap Addrs = {}
  /\ Timeout \in Nat /\ MaxBody \in Nat /\ MaxRedirects \in Nat /\ MaxSize \in Nat

\* What the gate looks at: an address as host is an IP literal.
Urls == [scheme : {"https", "http", "other"}, userinfo : BOOLEAN, host : Names \cup Addrs]

VARIABLES allow_loopback,  \* the configured flag
          dns,             \* what each name resolves to now
          pc,              \* where the call is
          url,             \* `current`
          hop,             \* redirects followed
          pinned,          \* the pinned addresses not tried yet
          size,            \* how much the server sends
          got,             \* how much was read of it
          spent,           \* how long the client has waited: what its timeout limits
          elapsed,         \* history: how long all exchanges of the call took
          contacted,       \* history: whom the call connected to, and for what
          result           \* what the latest call returned

vars == <<allow_loopback, dns, pc, url, hop, pinned, size, got, spent, elapsed,
          contacted, result>>
env == <<allow_loopback, dns>>
body == <<size, got>>
clocks == <<spent, elapsed>>

Init ==
  /\ allow_loopback \in BOOLEAN
  /\ dns \in [Names -> SUBSET Addrs]
  /\ pc = "idle"
  /\ url \in Urls
  /\ hop = 0
  /\ pinned = {}
  /\ size = 0 /\ got = 0
  /\ spent = 0 /\ elapsed = 0
  /\ contacted = {}
  /\ result = "none"

-----------------------------------------------------------------------------
\* `is_public_address_with_nat64`: the loopback flag reaches embedded ones too.
IsPublic(a) == a \in Public \/ (allow_loopback /\ a \in Loopback \cup Embedded)

\* `classify_resolved_address_with_nat64`
Acceptable(a, scheme) ==
  /\ (scheme = "http" /\ allow_loopback) => a \in Loopback
  /\ IsPublic(a)

\* Bug variant of GatePasses: the flag is not asked before http is let through.
GatePasses_http(u) ==
  /\ u.scheme \in {"https", "http"}
  /\ ~u.userinfo
  /\ u.host \in Addrs => Acceptable(u.host, u.scheme)

\* `ssrf_gate_static_with_nat64`
GatePasses(u) ==
  /\ u.scheme = "https" \/ (u.scheme = "http" /\ allow_loopback)
  /\ ~u.userinfo
  /\ u.host \in Addrs => Acceptable(u.host, u.scheme)

\* `get` returns.
Return(r) ==
  /\ pc' = "idle"
  /\ pinned' = {}
  /\ result' = r
  /\ UNCHANGED <<env, url, hop, elapsed, contacted, spent>>

\* `get(u)` is called.
Get(u) ==
  /\ pc = "idle"
  /\ pc' = "gate"
  /\ url' = u
  /\ hop' = 0
  /\ size' = 0 /\ got' = 0
  /\ spent' = 0 /\ elapsed' = 0
  /\ contacted' = {}
  /\ result' = "none"
  /\ UNCHANGED <<env, pinned>>

\* Bug variant of Gate: an IP literal is looked up like a name.
Gate_resolves ==
  /\ pc = "gate" /\ GatePasses(url)
  /\ pc' = "resolve"
  /\ UNCHANGED <<env, url, hop, pinned, body, clocks, contacted, result>>

\* The static gate passes; an IP literal is pinned without asking the resolver.
Gate ==
  /\ pc = "gate" /\ GatePasses(url)
  /\ IF url.host \in Addrs
     THEN pc' = "connect" /\ pinned' = {url.host}
     ELSE pc' = "resolve" /\ UNCHANGED pinned
  /\ UNCHANGED <<env, url, hop, body, clocks, contacted, result>>

\* It does not.
GateRefuses ==
  /\ pc = "gate" /\ ~GatePasses(url)
  /\ Return("err") /\ UNCHANGED body

\* There are records, and not one is refused.
AllAcceptable(records) == records # {} /\ \A a \in records : Acceptable(a, url.scheme)

\* The resolver answers with records that all pass; they are pinned.
Resolve ==
  /\ pc = "resolve" /\ AllAcceptable(dns[url.host])
  /\ pinned' = dns[url.host]
  /\ pc' = "connect"
  /\ UNCHANGED <<env, url, hop, body, clocks, contacted, result>>

\* The lookup fails, finds nothing, or finds a record that is refused.
ResolveRefuses ==
  /\ pc = "resolve"
  /\ Return("err") /\ UNCHANGED body

\* Bug variant of Pinned: the client resolves the name again.
Pinned_reresolved == IF url.host \in Names THEN dns[url.host] ELSE pinned

\* The addresses the HTTP client may connect to.
Pinned == pinned

\* The worker thread connects to a pinned address not tried yet.
Connect(a) ==
  /\ pc = "connect" /\ a \in Pinned
  /\ pinned' = pinned \ {a}
  /\ contacted' = contacted \cup {[url |-> url, addr |-> a]}
  /\ pc' = "await"
  /\ UNCHANGED <<env, url, hop, body, clocks, result>>

\* The connection fails, and another pinned address is left.
TryNext ==
  /\ pc = "await" /\ pinned # {}
  /\ pc' = "connect"
  /\ UNCHANGED <<env, url, hop, pinned, body, clocks, contacted, result>>

\* Bug variant of HopsLeft: one hop too many.
HopsLeft_late == hop <= MaxRedirects

\* `for _hop in 0..=max_redirects` goes round once more.
HopsLeft == hop < MaxRedirects

\* The server redirects to u, which starts again at the gate.
Redirect(u) ==
  /\ pc = "await" /\ HopsLeft
  /\ url' = u
  /\ hop' = hop + 1
  /\ pinned' = {}
  /\ spent' = 0
  /\ pc' = "gate"
  /\ UNCHANGED <<env, body, elapsed, contacted, result>>

\* A redirect too many.
TooManyRedirects ==
  /\ pc = "await" /\ ~HopsLeft
  /\ Return("err") /\ UNCHANGED body

\* The client goes on to its next read.  It may count that one from zero, or go
\* on counting: the code leaves it to the HTTP library.
NextRead == spent' \in {spent, 0} /\ UNCHANGED elapsed

\* The server answers 200 and is going to send n units.
Respond(n) ==
  /\ pc = "await"
  /\ pc' = "read"
  /\ size' = n
  /\ NextRead
  /\ UNCHANGED <<env, url, hop, pinned, got, contacted, result>>

\* It says so in a Content-Length that is over the cap.
RefuseLength(n) ==
  /\ pc = "await" /\ n > MaxBody
  /\ size' = n
  /\ Return("err") /\ UNCHANGED got

\* Bug variant of Limit: the read stops at the cap itself.
Limit_exact == MaxBody

\* `take(limit)`: one past the cap, to tell a body that is over it.
Limit == MaxBody + 1

\* A unit of the body arrives.
Chunk ==
  /\ pc = "read" /\ got < size /\ got < Limit
  /\ got' = got + 1
  /\ NextRead
  /\ UNCHANGED <<env, pc, url, hop, pinned, size, contacted, result>>

\* `read_to_end` returns: the body, unless it is over the cap.
ReadEnd ==
  /\ pc = "read" /\ (got = size \/ got = Limit)
  /\ Return(IF got > MaxBody THEN "err" ELSE "ok")
  /\ UNCHANGED body

\* The exchange fails: no client, no connection, a lost one, an error status, a
\* redirect without a usable Location, a panic of the worker thread.
HopFails ==
  /\ pc \in {"connect", "await", "read"}
  /\ Return("err") /\ UNCHANGED body

\* Bug variant of TimedOut: the timeout covers connecting only.
TimedOut_connectOnly ==
  /\ pc = "connect" /\ spent = Timeout
  /\ Return("err") /\ UNCHANGED body

\* The client's own timeout, while connecting, waiting and reading.
TimedOut ==
  /\ pc \in {"connect", "await", "read"} /\ spent = Timeout
  /\ Return("err") /\ UNCHANGED body

-----------------------------------------------------------------------------
\* Time passes in an exchange; the timeout is due when it is spent.
Tick ==
  /\ pc \in {"connect", "await", "read"} /\ spent < Timeout
  /\ spent' = spent + 1
  /\ elapsed' = elapsed + 1
  /\ UNCHANGED <<env, pc, url, hop, pinned, body, contacted, result>>

\* External: a name's records change.
Rebind(n, records) ==
  /\ dns' = [dns EXCEPT ![n] = records]
  /\ UNCHANGED <<allow_loopback, pc, url, hop, pinned, body, clocks, contacted, result>>

\* What the fetcher does without waiting for a server.
Fetcher ==
  \/ Gate \/ GateRefuses
  \/ Resolve \/ ResolveRefuses
  \/ \E a \in Addrs : Connect(a)
  \/ ReadEnd \/ TimedOut

\* What servers do.
Server ==
  \/ TryNext \/ TooManyRedirects \/ HopFails \/ Chunk
  \/ \E u \in Urls : Redirect(u)
  \/ \E n \in 0 .. MaxSize : Respond(n) \/ RefuseLength(n)

Next ==
  \/ \E u \in Urls : Get(u)
  \/ Fetcher \/ Server \/ Tick
  \/ \E n \in Names, records \in SUBSET Addrs : Rebind(n, records)

Spec == Init /\ [][Next]_vars

\* The fetcher's thread keeps running and time passes; servers owe nothing.
FairSpec == Spec /\ WF_vars(Fetcher) /\ WF_vars(Tick)

-----------------------------------------------------------------------------
\* Every variable stays in its type.
TypeOK ==
  /\ allow_loopback \in BOOLEAN
  /\ dns \in [Names -> SUBSET Addrs]
  /\ pc \in {"idle", "gate", "resolve", "connect", "await", "read"}
  /\ url \in Urls
  /\ pc = "resolve" => url.host \in Names
  /\ hop \in Nat
  /\ pinned \in SUBSET Addrs
  /\ size \in 0 .. MaxSize /\ got \in 0 .. MaxSize
  /\ spent \in 0 .. Timeout /\ elapsed \in Nat
  /\ contacted \in SUBSET [url : Urls, addr : Addrs]
  /\ result \in {"none", "ok", "err"}

\* No connection of a call, on any hop, goes to an address that is not public
\* (or loopback, when that is allowed), however the records change between the
\* lookup and the connection and whatever the lookup mixes together.
ContactsOnlyPublic ==
  \A c \in contacted :
    \/ c.addr \in Public
    \/ allow_loopback /\ c.addr \in Loopback \cup Embedded

\* No hop leaves the machine in the clear, carries userinfo or an odd scheme,
\* also when it is a server's redirect that asks for it.
CleartextStaysLocal ==
  \A c \in contacted :
    /\ ~c.url.userinfo
    /\ \/ c.url.scheme = "https"
       \/ c.url.scheme = "http" /\ allow_loopback /\ c.addr \in Loopback

\* A body that `get` returns is the whole body the server sent, never a
\* truncated one, and no more than one unit past the cap is ever read.
WholeBodyOrNone ==
  /\ got <= MaxBody + 1
  /\ result = "ok" => got = size /\ got <= MaxBody

\* All exchanges of a call together take no longer than the timeout once for
\* every hop and once for every read the body cap allows, the last one included.
TimeBounded == elapsed <= (MaxRedirects + 1 + MaxBody + 2) * Timeout

\* Every call is answered, though a server may redirect for ever, stall, or
\* stop in the middle of a body.
Answered == pc # "idle" ~> pc = "idle"
=============================================================================
