# A formal model of solid-oidc-verifier

`solid-oidc-verifier` is a Rust library that decides whether a request to a
Solid resource server is authenticated: it checks a Solid-OIDC access token,
its binding to a DPoP proof or a client certificate, and the single use of the
proof. This directory holds TLA+ modules for the parts of it that are hard to
test, TLC configurations that check them on small instances, and TLAPS proofs
of their main properties for every instance.

Paths below are relative to the repository (`src/replay.rs`); `PROJECT.json`
maps every definition to its lines.

## 1. Inventory

| Component | State | Operations | What makes it correct | Hard because of |
|---|---|---|---|---|
| **Replay store** (`replay.rs`) | mutex-guarded map jti → expiry, cap, monotonic clock | `mark`, `contains` | check-and-set is atomic; a live entry is never evicted; the cap holds; failures fail closed | threads racing, lock waits past an expiry, lazy pruning at the cap, a panic under the lock |
| **Freshness and TTL** (`verifier.rs` `validate_dpop_proof`, `check_temporal`, `now_secs`; `config.rs` `replay_ttl`) | two clocks | the freshness test, the TTL of a mark | a jti is retained as long as its proof would be accepted | two clocks of different resolution, one of which can be set; i64 arithmetic |
| **Verifier** (`verifier.rs`) | none but the store and the providers | `verify` and its eight stages | nobody admitted without honouring every binding of the token; no keys fetched for an untrusted issuer; nothing passes unrecorded | stages of many requests interleave; bindings, scheme and posture combine; every stage may fail |
| **Network JWKS provider** (`config.rs`) | mutex-guarded cache issuer → keys, stored-at | `keys_for`, `fetch_keys`, `parse_jwks` | an issuer's own public keys only; bounded staleness | fetches run outside the lock, overlap and store in any order while issuers rotate |
| **Static JWKS provider** (`config.rs`) | a fixed map | `keys_for` | – | – |
| **SSRF-guarded fetcher** (`net.rs`, gate in `webid.rs`) | none between calls | `SafeFetcher::get` | contacts acceptable addresses only, at every hop; bounded body and time | DNS changes between lookup and connection; redirects; stalling servers |
| **System DNS resolver** (`net.rs`) | a thread with a runtime, a job channel, one task and one reply channel per job | `new`, `resolve_host`, dispatch loop | every caller gets its own answer; a slow lookup holds up nobody; nobody waits for a reply that cannot come | concurrent tasks, reply channels, panics, the thread's exit |
| **SSRF classifier** (`ssrf.rs`) | the loopback flag and a list of NAT64 prefixes | `is_public_address`, `is_loopback_address`, NAT64 parsing and decoding | no non-public address is called public, in whatever IPv6 form; a configured prefix only tightens | hand-written ranges, embedded IPv4 addresses, overlapping prefixes |
| **WebID resolver** (`webid.rs`) | none | `validate_webid_claim`, `resolve`, `parse_oidc_issuers` | only issuers stated of the subject itself count | redirects move the base of relative subjects |
| **JWS / JWK** (`jwt.rs`, `jwk.rs`) | none | signature verification on two backends, thumbprints, algorithm policy | no algorithm or curve confusion; a bad key in a set does not matter | two backends, partly filled and mislabelled keys |
| **Configuration** (`config.rs`), **errors** (`error.rs`) | settings | builders, `validate`, challenges | no configuration that silently skips a check | – |
| **Crate root, example server** (`lib.rs`, `examples/`) | none | – | – | – |

How they interact: a caller's thread runs `Verifier::verify`, synchronously,
from start to end. It calls a `JwksProvider` for keys (through its cache, and on
a miss twice through `SafeFetcher`, which calls the DNS resolver), the
`ReplayStore` to consume the proof's jti, and a `WebIdResolver` (again
`SafeFetcher`) for the WebID profile. Threads share the store, the cache and the
resolver thread; there are no callbacks and nothing is persisted.

Everything known to be hard to test is listed in `PROJECT.json` under `hazards`,
each at its line, with the properties that cover it.

## 2. Modules

| Module | Models | Composition |
|---|---|---|
| `ReplayMap` | the map and what one `mark` does to it, as operators | extended by `ReplayStore`, `ProofReplay` |
| `TtlSet` | the `ReplayStore` trait's promise: an atomic set of timed recordings | abstract specification of `ReplayStore` |
| `AtomicStore` | the store as its callers are modelled with it: a `mark` is one step | abstract specification of `ReplayStore` |
| `ReplayStore` | `InMemoryReplayStore`, step by step under its mutex | implements `TtlSet` and `AtomicStore` |
| `Freshness` | the window, wrapping i64 and u64 arithmetic, `now_secs`, `replay_ttl`, `check_temporal` | extended by `ProofReplay`, `Verifier` |
| `ProofReplay` | what freshness check and replay store do together, for any number of requests | abstract specification of `Verifier` |
| `Jws` | algorithm policy, key construction, the two signature backends, embedded keys, thumbprints, as operators | extended by `Verifier` |
| `WebIdProfile` | the WebID claim and what a profile document lists, as operators | extended by `Verifier` |
| `Verifier` | `verify`, one action per stage, and `VerifierConfig::validate` | implements `ProofReplay` |
| `JwksCache` | `NetworkJwksProvider` with rotating issuers | – |
| `SafeFetch` | `SafeFetcher::get` with changing DNS and arbitrary servers | classes of addresses from `AddressClass` in its run |
| `DnsResolver` | `SystemResolver`: construction, callers, dispatch loop, tasks, shutdown | gives `SafeFetch` the lookup's fairness |
| `AddressClass` | both classifiers of `ssrf.rs`, octet by octet, as operators | extended by `AddressGuard`, `MCSafeFetch` |
| `AddressGuard` | a configured policy and the addresses it classifies | composed with `SafeFetch` in `AddressGuardProofs` |
| `MC*` | constants and symmetry for TLC | – |
| `*Proofs` | inductive invariants and theorems | extend the module they are about |

Operators named `Name_variant`, with a comment "Bug variant of Name", are not
part of the specifications: each is a plausible mistake in the code, and
replacing `Name` by it makes TLC find a property violated. They show that the
properties say something about the code.

### How state and actions correspond to the code

**ReplayStore.** `map`, `holder` and `poisoned` are the `Mutex<HashMap>`. A call is
four steps: `Mark`/`Contains` (the caller queues for the lock), `Lock`,
`ReadClock` (the code reads the clock *after* the lock; the clock may tick
between) and one of `MarkReturn`, `MarkPanic`, `ContainsReturn`, which is the
whole body and the unlock. `MarkPanic` is `now + ttl` with an unrepresentable
result: the sweep has happened, the mutex is poisoned. `LockPoisoned` is the
error branch of every later call. `granted` and `last` are history variables.

**Freshness and ProofReplay.** The wall clock and the monotonic clock count
ticks; `TicksPerSec` ticks make a second, and `NowSecs` truncates, so that a mark
can happen at any offset within a second. The wall clock may be stepped forward
and (once) back. Integers wrap at `MaxInt`, which stands for `i64::MAX`; the
overflow of `now - iat` and of `abs()`, the u64 sum `max_age + tolerance`, its
cast to i64 and the doubled sum of the TTL are modelled as a release build does
them, so `Tolerance` is any u64.
`Check` is a proof that passes `validate_dpop_proof`; `Skip` is a proof that is
present but not required, which the code does not validate and whose jti it
consumes all the same. `StoreDown` is a remote backend that fails before or
after it has recorded the jti.

**Jws.** The cryptography is external: a signature verifies under a key exactly
if that key pair made it, on the curve the algorithm signs on. Everything around
it is the code's: which algorithms are in the policy and which this build can
verify, the case-insensitive `typ`, which JWKs each backend accepts (a symmetric
or private key, a missing member, a P-521 key under another curve's name, a
coordinate of the wrong length), the fork to the ES512 backend before
`map_algorithm`, and the loop that skips candidates it cannot use. A thumbprint
is the members it digests. Two details a reader may not expect, both modelled as
they are: outside ES512 the `crv` a key declares is not looked at, and a key type
spelt `ec` builds an ES512 key but has no thumbprint, so that no token can be
bound to it.

**WebIdProfile.** A profile is the URL it was served at, whether it parses, and
its triples. Relative subjects resolve against the *final* URL, the comparison
is with the WebID and with the canonical URL that was asked for.

**Verifier.** A request is scheme, token, proof, certificate and the profile its
WebID leads to; a token and a proof are a JWS with their claims. `cfg` is fixed in
`Init`, chosen among `Configs`, which also hold what `validate` refuses.
`Receive` is everything up to and including the early allowlist check; then
`ResolveKeys`/`RefuseAlg`, `ValidateAccessToken`, `ValidatePop`, `Identify`,
`Mark…`, `CheckBidirectional`, one per stage, with other requests and both clocks
moving between them. Every early return of the code leads to one of the kinds of
answer, with the scheme its challenge names.

**JwksCache.** A key set is known by its issuer, a generation (a rotation makes a
new one) and the kinds of JWK in it. Lookup, discovery, JWKS fetch and store are
separate steps; only lookup and store hold the lock. `Latency` bounds the time
between an issuer's answer and its storing.

**SafeFetch.** A URL is scheme, userinfo flag and host, where an address as host
is an IP literal. Addresses fall in classes: public, loopback, loopback embedded
in another IPv6 form (which `is_public_address` decodes and
`is_loopback_address` does not), and the rest. One action per step of the loop:
`Gate`, `Resolve`, `Connect`, the server's answer, `Chunk`s of the body. `Rebind`
changes a name's records at any moment. Whether the HTTP library's timeout
restarts at each read of the body is left open (`NextRead`): what is shown holds
either way.

**DnsResolver.** `handle` is the `SystemResolver` as its owner sees it, `thread`
the resolver thread; `queue` is the job channel, `tasks` the spawned lookups.
`reply[c]` is the caller's reply channel: nothing yet, an answer, or closed
because the job or task that owned its sender was dropped. `Complete` is a
lookup's end, `TaskPanics` and `ThreadDies` the two ways a panic can lose one,
`Teardown` the drop of the runtime and the receiver. A call in progress borrows
the resolver, so `DropHandle` waits for idle callers; the comment in
`run_resolver_loop` about tasks that finish after the loop has ended therefore
describes a case that cannot arise for a caller.

**AddressClass and AddressGuard.** An address is the sequence of its octets, at
full width: every mask and offset of the code falls on an octet boundary or is a
range of the octet it cuts. `FromCidrs` configures a policy, `Classify` judges an
address. The properties compare with definitions written independently of the
code: blocks as intervals of addresses, RFC 6052's table of positions. The blocks
are the ones the code's comments name; whether that list is complete is not a
question about this code's arithmetic.

## 3. What TLC checks

Passing runs (all exhaustive, each a minute or two on two workers):

| Run | Instance | Shows |
|---|---|---|
| `replay_store` | 2 threads, 2 jtis, cap 1, TTLs 0–2, an unrepresentable instant | `NeverEvictsLive`, `WithinCapacity`, `OneNewPerWindow`, `PoisonFailsClosed`, the refinement `ImplementsTtlSet`, and `StarvedOnlyByProgress`: nobody waits on a lock that is never given back |
| `proof_replay` | 2 requests, 2 jtis, a store with room for one, half-second ticks, an ordinary iat and one that overflows | `RetainedWhileFresh`, `NoSecondUseWhileFresh` |
| `verifier` | 20 deployments, 8 of which `validate` refuses, each with 1 request at a time: every combination of scheme, bindings, proof, certificate and posture; every algorithm with every signer; every defect of a key, token, proof and profile. 2 deployments with 2 requests racing for a store with room for one | `ResolvesOnlyTrusted`, `AdmitsOnlyConstrained`, `AdmitsOnlyAuthentic`, `AdmitsOnlyVouched`, `SpendsOnlyAccepted`, `PassesOnlyRecorded`, the refinement `ImplementsProofReplay` |
| `jwks_cache` | 2 threads, 2 issuers that rotate, usable and unusable documents | `CacheSound`, `BoundedStaleness` |
| `safe_fetch` | any URL, 4 classes of address, 1 redirect, bodies up to one past the cap, servers that may do nothing | `ContactsOnlyPublic`, `CleartextStaysLocal`, `WholeBodyOrNone`, `TimeBounded`, `Answered` |
| `address_guard` | IPv4 addresses at both edges of every block; 7 IPv4 addresses in each IPv6 form and under each prefix length; up to 2 configured prefixes, overlapping, with host bits, in `fd00::/8`, of a forbidden length or malformed | `AgreesWithBlocks`, `NoLaundering`, `PolicyOnlyTightens`, `LoopbackClassifiersAgree`, `EveryEntryHonoured` |
| `dns_resolver` | 3 callers, a host that resolves and one that may never | `OwnAnswer`, `ExactlyOneReply`, `ShutdownCancelsNothing`, `NoHeadOfLineBlocking`, `ReleasedWhenGone` |

Why the bounds are enough: two threads are what a race for the check-and-set, a
lock wait or overlapping fetches needs; two jtis against a cap of one make a
full store, a sweep and a refusal happen; the clocks run past the longest TTL,
so that entries expire and are marked again; half-second ticks reach both
offsets within a second; each key set rotates once while fetches overlap, so
that an old answer can be stored over a new one and be used until its TTL; one
redirect suffices to lose the first hop's guarantees, and bodies reach the size
that only the read past the cap detects; two prefixes are what an overlap needs,
and three callers let a fast lookup overtake a slow one while a third is queued.
The safety properties of all modules are also proved for all bounds (section 5).
`Verifier` handles one
request independently of the others except through the store, which is why the
full product of request shapes is checked one request at a time and the races
with a few shapes. `MCSpec` says so: a deployment of `RivalConfigs` sees
`RivalRequests` on both threads, with clocks that run to their bounds; any other
sees `ManyRequests`, all on one thread (`Arriving`), while the wall clock moves by
at most a second (`LoneClocks`). Every behaviour of `MCSpec` is one of `Spec`.

`proof_replay` has a clock tolerance of ordinary size. The tolerances for which
the window or the TTL wraps are not in any run: `Retention` and `NoReplay` cover
them by proof, and by proof only.

The clocks stop at a bound, but calls can always be made again, so no
configuration turns deadlock checking off.

### Where documentation and code disagree

Five runs are expected to find a violation; each states a sentence of the
repository's comments, and the trace shows what the code does instead.

| Run | The comment says | The code |
|---|---|---|
| `store_errs` | the in-memory store never errs (`replay.rs`) | errs when full of live entries, and after a poisoning |
| `clock_set_back` | the store never forgets a still-replayable jti (`verifier.rs`) | true only of a wall clock that is never set back: retention is monotonic, freshness is not |
| `iat_overflow` | `\|now - iat\| <= max_age + tolerance` (`verifier.rs`) | for `iat = now + i64::MIN` the difference wraps and its `abs()` is negative, so the proof is accepted (a debug build panics); `RetainedWhileFresh` still holds |
| `loopback_flag` | `allow_loopback` re-permits "127/8, ::1, mapped 127.x" only (`ssrf.rs`) | 127.x in its IPv4-compatible, 6to4 and NAT64 forms passes as well, while `is_loopback_address` does not know those; over `http` the fetcher refuses them all the same (`CleartextStaysLocal`) |
| `unvalidated_jti` | a jti is recorded only after full DPoP validation (`replay.rs`) | a certificate-bound Bearer request that carries a DPoP header has its jti recorded unvalidated |

More things a reader should know, which no property forbids:

- A request that stalls between the freshness check and the mark may pass after
  its proof has gone stale, and the same proof may then pass a second time, since
  its jti may have expired; `NoSecondUseWhileFresh` says precisely that this
  cannot happen while the proof is fresh.
- The jti is consumed before the bidirectional WebID check, so a request that
  fails there cannot be retried with the same proof; `SpendsOnlyAccepted` says
  that this is the only check whose refusal costs the proof.
- `config.rs` says that failing open falls back to an in-memory store; there is
  no fallback, a backend error counts as fresh (`verifier.rs` says so itself).
- `net.rs` promises one timeout for "the whole request", the body included
  (module comment, `DEFAULT_TIMEOUT`). The timeout applies to each hop, not to
  a call, and whether it covers the reads of one body together is up to the
  HTTP library. `TimeBounded` gives the number of timeouts a call may take if it
  does not, so it is weaker than the comment; the comment itself is not checked.

## 4. Fairness

Liveness is checked under weak fairness only.

- `ReplayStore`: each thread inside the store keeps running. The mutex is not
  fair, so a waiter may be passed over for ever; `StarvedOnlyByProgress` allows
  exactly that, and only while others complete.
- `Verifier` and `JwksCache` state no liveness: a stage of theirs ends when the
  fetch or the call of the store it makes does, which is the concern of the
  other three.
- `SafeFetch`: the fetcher's thread runs and time passes. Servers are owed
  nothing: they may stall for ever. The lookup is assumed to end: `resolve_host`
  has no timeout of its own, and `DnsResolver` shows that it ends when the DNS
  library's own lookup of that host does, or when the resolver thread is gone.
- `DnsResolver`: the runtime keeps polling its loop and its tasks, and a caller
  whose reply is there takes it. The lookup of a host in `Slow` owes nothing, nor
  does anybody who might call, drop or create a resolver.

## 5. What is proved

All theorems hold for every value of the constants that satisfies the `ASSUME`s
of the modules: any number of threads, jtis, issuers, names and addresses, any
cap, TTL, window, clock resolution and word size. Requests, configurations, key sets and profiles
are arbitrary sets of such records. The assumptions are types,
"the sentinel is not a member", disjoint address classes, finiteness of `Jtis`
(a map has finitely many keys), and that the seconds of the wall clock are in the
first half of an i64 (the year is not beyond 10^11). TLC evaluates them on every
run.

- **`ReplayMapProofs`**: what one `mark` does to any map (`MarkRespectsCap` and
  the lemmas the next two build on).
- **`ReplayStoreProofs`**: `TypeCorrect`, `NoEviction`, `CapacityBound`,
  `AtomicCheckAndSet`, `FailsClosed`, `StoreImplementsTtlSet`. The inductive invariant adds to
  the properties that the lock has one holder (`Mutex`), that a sampled clock
  value lies between the latest call to take effect and now (`Sampled`,
  `Ordered`), and that the map agrees with the promises made (`Faithful`);
  without the order of samples an older caller could prune what a newer one
  relies on. The refinement is proved step by step: a call takes effect in the
  step that leaves the critical section.
  `StoreImplementsAtomicStore` looks at the same calls from their callers' side:
  they take effect in the step that reads the clock, since nobody can come
  between it and the return (`Settling`: what the thread past the clock is bound
  to leave is the map already). It is why `ProofReplay` and `Verifier` may take a
  `mark` as one step at the present time; no run checks it, as its state
  adds nothing to that of `replay_store`.
  `ErrsOnlyWhenFullOrPoisoned` and `PoisonedOnlyByOverflow` delimit the finding
  that the in-memory store does err: at `max_entries` promises still running, or
  after a TTL past the last `Instant`, and in no other case. `LockNeverLost`
  is the safety half of `StarvedOnlyByProgress`.
- **`ProofReplayProofs`**: `TypeCorrect`, `Retention`, `NoReplay`, `AcceptsExactly`. The invariant
  `Covered` says that a recorded proof's entry lives at least as long as any
  second in which its iat is within the window, in ticks of both clocks; it
  rests on the lemma that the TTL is enough for every offset. That lemma has
  three cases: a window of ordinary size, where the TTL is twice the window plus
  one second; one so large that `now + window` overflows, where the TTL exceeds
  the whole run; and one that wraps to a negative number, where an iat is fresh
  in a single second and the TTL, being odd, is at least one.
  (`MCProofReplay.cfg` with `Tolerance = 5` is an instance of the second case,
  with 6 of the third.) `Begun` bounds the clocks, `Accounted` ties `uses` to
  `recorded`. `AcceptsExactly` delimits the finding on the wrapping subtraction:
  for a window that fits, one iat too many is accepted and no other.
- **`JwksCacheProofs`**: `TypeCorrect`, `NoMixUp`, `Staleness`,
  `AnswersOwnPublicKeys`, `RollsBackOnlyJustRotated`. The invariant follows a key set
  from the answer (`InFlight`) into the cache (`Stamped`), each time relating it
  to the rotations since; the entry's own stamp alone would not do, since it
  is the time of storing. `RollsBackOnlyJustRotated` says what overlapping fetches
  can do at worst: an older key set may replace a newer one, but only while
  the rotation is no older than one fetch.
- **`SafeFetchProofs`**: `TypeCorrect`, `PublicOnly`, `LocalCleartext`, `WholeBody`, `TimeBound`.
  The invariant `Gated` says that what passed the gate and the classifier is
  still what `url` and `pinned` hold at the connection, whatever the DNS says
  by then; `Accounted` counts each wait once.

- **`VerifierProofs`**: `TypeCorrect`, `TrustedOnly`, `NoDowngrade`, `NoForgery`,
  `StrictlyVouched`, `SpentLast`, `FailsClosed`, `ImplementsCore`. The invariant
  `IndInv` says what a request has shown by the stage it is at (`Received`,
  `Keyed`, `Signed`, `Possessed`, an accepted identity); a property about the last
  stage is not inductive without it, since what it is about was checked stages
  before, under the same configuration but at another time. Two lemmas about
  `Jws` carry the argument: `SignatureSound` (whichever backend verified, the
  signer holds a public candidate key on the algorithm's curve) and
  `ProofByHolder` (a proof whose key has the bound thumbprint was signed by the
  bound key pair). `ImplementsCore` maps each stage to a step of `ProofReplay` or a
  stutter. The core's theorems are then used as they stand, under the refinement
  mapping (`CoreProofs`, whose assumptions `CoreAssumptions` discharges), to state
  `VerifyOncePerProof` and `VerifyRemembers` of `verify` itself.
  `AdmitsOnlyCounted` closes the other side: no path of `verify` admits a request
  under DPoP around the replay check (`Counted` follows a proof from the check
  to the profile stage). With `PassesOnce`, which needs no count: failing closed,
  with a clock that is not set back, of all requests that carry one proof, one
  is admitted while it is fresh. `UnvalidatedOnlyAsBearer` delimits the finding on
  unvalidated jtis: the request does not use the DPoP scheme and its token names
  no key.
- **`AddressGuardProofs`**: `TypeCorrect`, `V4Exact`, `EmbeddingsHonest`,
  `OnlyTightens`, `LoopbackAgreed`, `WholeConfiguration`, for every address of
  either family and every list of prefixes. The invariant ties the verdict to
  the policy in force (`Honest`) and the policy to its entries (`Parsed`);
  `DecodesLayout` shows that the decoder's positions are RFC 6052's.
  `FlagReachesLoopbackOnly` delimits the finding on the loopback flag: what it lets
  through beyond the documented forms is a decoded 127.x and nothing else.
  `GuardedFetch` composes the two halves of the SSRF guard: `SafeFetch` with the
  classifier's own answers for its classes of addresses (`ClassesFit` discharges
  what `SafeFetch` assumes of them), so that `ContactsOnlyPublic` and
  `CleartextStaysLocal` become a statement about special-purpose blocks, also
  those an IPv6 address carries.
- **`DnsResolverProofs`**: `TypeCorrect`, `NoCrossTalk`, `NoLostReply`,
  `CleanShutdown`, `WaitsForOwnLookupOnly`, `NoOvertaking`. The invariant strengthens `ExactlyOneReply` by whose host a
  job, task or reply carries (`Own`) and by who keeps the resolver alive (`Used`).
  The last two are the safety halves of `NoHeadOfLineBlocking` and
  `ReleasedWhenGone`: what a caller waits for is never another's lookup, and
  its job only moves forward.

Only model-checked: the liveness properties (`StarvedOnlyByProgress`,
`Answered`, `NoHeadOfLineBlocking`, `ReleasedWhenGone`);
fairness and `ENABLED` are out of the prover's reach. Where a liveness property
has a safety half, that nothing it needs is ever lost or falls back, the half is
proved (`LockNeverLost`, `WaitsForOwnLookupOnly`, `NoOvertaking`).

## 6. What is not modelled

- Cryptography and hashing, JSON, base64, Turtle and URL syntax, address parsing,
  `join_well_known`: a parsed thing is a record, and a signature is known by the
  key pair that made it.
- Wording of errors and the `WWW-Authenticate` header; the claims that
  `VerifiedToken` merely copies; logging.
- The poisoned-mutex branches of the JWKS cache: nothing under that lock can
  panic. A system clock before 1970 (`now_secs` clamps it to zero). The panics
  of a debug build on overflow.
- The builder setters, which only choose a member of `Configs`. In `ProofReplay`
  and `Verifier` the store's clock has no largest value: a TTL too long for an
  `Instant` is `MarkPanic` in `ReplayStore`, after which every call fails.
- The DNS library's lookup, its caching and its timeouts.

## 7. Plan

Done, in this order: `ReplayMap`, `ReplayStore` and `TtlSet`; `Freshness` and
`ProofReplay`; `Verifier`; `JwksCache`; `SafeFetch`; `DnsResolver`; `AddressClass` and
`AddressGuard`; `WebIdProfile` and `Jws` as parts of `Verifier`; the proofs of all
safety properties and of the refinements; `AtomicStore`; the compositions, by
proof, of the core with the verifier and of the classifier with the fetcher;
theorems that delimit the findings.

Left, the most valuable first:

1. Compose `JwksCache` with `SafeFetch` (the discovery document's final URL
   against its issuer, two GETs per miss) and state the end-to-end time bound of
   a `verify`.
2. The challenge a failure is answered with, should its content come to matter
   to more than wording.
