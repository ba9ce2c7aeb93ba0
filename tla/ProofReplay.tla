----------------------------- MODULE ProofReplay -----------------------------
(***************************************************************************)
(* The core promise of the verifier, that a DPoP proof is used once, rests *)
(* on two mechanisms with two clocks: the freshness check reads the wall   *)
(* clock, in whole seconds; the replay store reads the monotonic clock, in *)
(* ticks, and forgets.  This module keeps only what the two do, for any    *)
(* number of requests in flight: everything else `verify` does is the      *)
(* business of the module Verifier, which implements this one.             *)
(***************************************************************************)
EXTENDS Freshness, ReplayMap

CONSTANTS Threads,  \* requests in flight
          Jtis,     \* jti strings
          Iats,     \* the iat claims proofs carry
          Cap,      \* the store's max_entries
          MaxMono,  \* bound: the monotonic clock stops here
          MaxWall   \* bound: the wall clock stops here

ASSUME ProofReplayAssumptions ==
  /\ Iats \subseteq MinInt .. MaxInt
  /\ Cap \in Nat /\ MaxMono \in Nat /\ MaxWall \in Nat
  /\ 2 * NowSecs(MaxWall) <= MaxInt  \* the year is not beyond 10^11

VARIABLES mono,         \* Instant::now(), the store's clock
          wall,         \* SystemTime::now(), the freshness check's clock
          steppedBack,  \* the wall clock was once set back
          failClosed,   \* config.replay_fail_closed
          map,          \* the replay store
          pc,           \* where each request is
          held,         \* the proof each request is carrying
          recorded,     \* history: proofs validated and then recorded as New
          uses          \* history: how often each validated proof passed (max 2)

vars == <<mono, wall, steppedBack, failClosed, map, pc, held, recorded, uses>>

Proofs == [jti : Jtis, iat : Iats]

NoProof == [jti |-> "none", iat |-> 0]

Init ==
  /\ mono = 0
  /\ wall \in 0 .. MaxWall
  /\ steppedBack = FALSE
  /\ failClosed \in BOOLEAN
  /\ map = EmptyMap
  /\ pc = [t \in Threads |-> "idle"]
  /\ held = [t \in Threads |-> NoProof]
  /\ recorded = {}
  /\ uses = [p \in Proofs |-> 0]

-----------------------------------------------------------------------------
Goto(t, to, p) == /\ pc' = [pc EXCEPT ![t] = to]
                  /\ held' = [held EXCEPT ![t] = p]

\* `validate_dpop_proof` succeeds: the freshness check looks at the wall clock
\* now; the jti is consumed in a later step.
Check(t, p) ==
  /\ pc[t] = "idle"
  /\ IsFresh(p.iat, NowSecs(wall))
  /\ Goto(t, "checked", p)
  /\ UNCHANGED <<mono, wall, steppedBack, failClosed, map, recorded, uses>>

\* `must_dpop` is false, but the request carries a proof all the same: it is
\* not validated, and its jti is consumed nevertheless.
Skip(t, p) ==
  /\ pc[t] = "idle"
  /\ Goto(t, "unchecked", p)
  /\ UNCHANGED <<mono, wall, steppedBack, failClosed, map, recorded, uses>>

\* Bug variant of Drop: the request lets go of its proof but not of its stage.
Drop_keepsStage(t) ==
  /\ pc[t] \in {"checked", "unchecked"}
  /\ Goto(t, pc[t], NoProof)
  /\ UNCHANGED <<mono, wall, steppedBack, failClosed, map, recorded, uses>>

\* The WebID or the authorized-party check rejects in between.
Drop(t) ==
  /\ pc[t] \in {"checked", "unchecked"}
  /\ Goto(t, "idle", NoProof)
  /\ UNCHANGED <<mono, wall, steppedBack, failClosed, map, recorded, uses>>

\* History: a validated proof gets past the replay check once more.
CountUse(t) ==
  uses' = IF pc[t] = "checked" /\ uses[held[t]] < 2
            THEN [uses EXCEPT ![held[t]] = @ + 1]
            ELSE uses

\* What the store answers if asked now.
Answer(t) == MarkOutcome(map, held[t].jti, ReplayTtl, mono, Cap)

\* What it then holds.
Stored(t) == MarkedMap(map, held[t].jti, ReplayTtl, mono, Cap)

Consume(t, answer) ==
  /\ pc[t] \in {"checked", "unchecked"}
  /\ Answer(t) = answer
  /\ map' = Stored(t)
  /\ Goto(t, "idle", NoProof)
  /\ UNCHANGED <<mono, wall, steppedBack, failClosed>>

\* `mark` answers New: the request passes.
MarkNew(t) ==
  /\ Consume(t, "New")
  /\ CountUse(t)
  /\ recorded' = IF pc[t] = "checked" THEN recorded \cup {held[t]} ELSE recorded

\* `mark` answers Replay: 401.
MarkReplay(t) ==
  /\ Consume(t, "Replay")
  /\ UNCHANGED <<recorded, uses>>

\* A backend error: 503 when failing closed, treated as fresh when not.
OnError(t) ==
  /\ IF failClosed THEN UNCHANGED uses ELSE CountUse(t)
  /\ UNCHANGED recorded

\* `mark` answers Err because the store is full of live entries.
MarkErr(t) == Consume(t, "Err") /\ OnError(t)

\* `mark` answers Err because a shared backend does not answer; the jti may
\* or may not have been recorded before the reply was lost.
StoreDown(t) ==
  /\ pc[t] \in {"checked", "unchecked"}
  /\ map' \in {map, Stored(t)}
  /\ Goto(t, "idle", NoProof)
  /\ OnError(t)
  /\ UNCHANGED <<mono, wall, steppedBack, failClosed>>

\* Time passes.
Tick ==
  /\ mono < MaxMono /\ wall < MaxWall
  /\ mono' = mono + 1
  /\ wall' = wall + 1
  /\ UNCHANGED <<steppedBack, failClosed, map, pc, held, recorded, uses>>

\* The operator or NTP sets the wall clock; `Instant` does not notice.
StepForward ==
  /\ wall' \in wall + 1 .. MaxWall
  /\ UNCHANGED <<mono, steppedBack, failClosed, map, pc, held, recorded, uses>>

StepBack ==
  /\ ~steppedBack  \* bound: one step back
  /\ wall' \in 0 .. wall - 1
  /\ steppedBack' = TRUE
  /\ UNCHANGED <<mono, failClosed, map, pc, held, recorded, uses>>

Next ==
  \/ \E t \in Threads, p \in Proofs : Check(t, p) \/ Skip(t, p)
  \/ \E t \in Threads : \/ Drop(t) \/ MarkNew(t) \/ MarkReplay(t)
                        \/ MarkErr(t) \/ StoreDown(t)
  \/ Tick \/ StepForward \/ StepBack

Spec == Init /\ [][Next]_vars

-----------------------------------------------------------------------------
\* Every variable stays in its type.
TypeOK ==
  /\ mono \in Nat
  /\ wall \in 0 .. MaxWall
  /\ steppedBack \in BOOLEAN /\ failClosed \in BOOLEAN
  /\ DOMAIN map \subseteq Jtis /\ \A j \in DOMAIN map : map[j] \in Nat
  /\ pc \in [Threads -> {"idle", "checked", "unchecked"}]
  /\ held \in [Threads -> Proofs \cup {NoProof}]
  /\ \A t \in Threads : pc[t] # "idle" => held[t] \in Proofs
  /\ recorded \subseteq Proofs
  /\ uses \in [Proofs -> 0 .. 2]

\* "The replay store never forgets a still-replayable jti": as long as a
\* recorded proof would still pass the freshness check, at whatever tick
\* within a second it was marked and however long ago, its jti is live in the
\* store.  Needs a wall clock that was never set back.
RetainedWhileFresh ==
  ~steppedBack => \A p \in recorded :
     IsFresh(p.iat, NowSecs(wall)) => IsLive(map, p.jti, mono)

\* No validated proof passes the replay check a second time while it is still
\* fresh, whichever requests race, if backend errors fail closed.
NoSecondUseWhileFresh ==
  [][\A p \in Proofs :
       (failClosed /\ ~steppedBack /\ uses[p] > 0 /\ uses'[p] # uses[p])
         => ~IsFresh(p.iat, NowSecs(wall))]_vars

-----------------------------------------------------------------------------
(* What the repository's documentation says without qualification.         *)

\* verifier.rs on replay_ttl: "the replay store never forgets a
\* still-replayable jti".
NeverForgetsReplayable ==
  \A p \in recorded : IsFresh(p.iat, NowSecs(wall)) => IsLive(map, p.jti, mono)

\* verifier.rs: "SYMMETRIC freshness window |now - iat| <= max_age +
\* tolerance", for every proof that has passed it.
AcceptedWithinWindow ==
  [][\A t \in Threads : (pc[t] = "idle" /\ pc'[t] = "checked") =>
       NowSecs(wall) - held'[t].iat \in -Window .. Window]_vars
=============================================================================
