------------------------------ MODULE ReplayMap ------------------------------
(***************************************************************************)
(* The `HashMap<String, Instant>` behind `InMemoryReplayStore`, as a       *)
(* function from the recorded jtis to their expiry instants, and the       *)
(* critical section of `mark` as an operator on it.  Nothing here has      *)
(* state of its own: `ReplayStore` runs the critical section under the     *)
(* mutex, `ProofReplay` and `Verifier` take it as one atomic step.         *)
(***************************************************************************)
EXTENDS Integers, FiniteSets

\* The map of a new store (`HashMap::new()`).
EmptyMap == [j \in {} |-> 0]

\* `matches!(map.get(jti), Some(&expiry) if expiry > now)`: recorded and not
\* yet expired.  An entry is dead AT its expiry instant.
IsLive(map, jti, now) == jti \in DOMAIN map /\ map[jti] > now

\* The jtis `retain(|_, expiry| expiry > now)` keeps.
LiveJtis(map, now) == {j \in DOMAIN map : map[j] > now}

\* Bug variant of PruneExpired: makes room by dropping live entries as well.
PruneExpired_evicts(map, now) == EmptyMap

\* `prune_expired`: the map without its dead entries.
PruneExpired(map, now) == [j \in LiveJtis(map, now) |-> map[j]]

\* `map.insert(jti, expiry)`: adds the key or overwrites it.
Insert(map, jti, expiry) ==
  [j \in DOMAIN map \cup {jti} |-> IF j = jti THEN expiry ELSE map[j]]

\* Bug variant of AtCapacity: off by one.
AtCapacity_late(map, cap) == Cardinality(DOMAIN map) > cap

\* `map.len() >= cap`
AtCapacity(map, cap) == Cardinality(DOMAIN map) >= cap

\* `!map.contains_key(jti) && map.len() >= cap`: the capacity gate of `mark`.
\* Overwriting a dead entry never grows the map, so it skips the gate.
NeedsRoom(map, jti, ttl, cap) ==
  ttl > 0 /\ jti \notin DOMAIN map /\ AtCapacity(map, cap)

\* The map the insertion starts from: swept only when the gate was hit.
Swept(map, jti, ttl, now, cap) ==
  IF NeedsRoom(map, jti, ttl, cap) THEN PruneExpired(map, now) ELSE map

\* Bug variant of MarkOutcome: a full map is refused without looking for dead
\* entries to sweep.
MarkOutcome_noSweep(map, jti, ttl, now, cap) ==
  IF IsLive(map, jti, now) THEN "Replay"
  ELSE IF NeedsRoom(map, jti, ttl, cap) THEN "Err" ELSE "New"

\* What `mark` answers: a live entry is a replay, a full store of live
\* entries refuses, everything else is new.
MarkOutcome(map, jti, ttl, now, cap) ==
  IF IsLive(map, jti, now) THEN "Replay"
  ELSE IF /\ NeedsRoom(map, jti, ttl, cap)
          /\ AtCapacity(PruneExpired(map, now), cap)
       THEN "Err"
       ELSE "New"

\* What `mark` leaves in the map.  A refusal keeps the sweep it did; a TTL of
\* zero answers New and stores nothing.
MarkedMap(map, jti, ttl, now, cap) ==
  LET outcome == MarkOutcome(map, jti, ttl, now, cap)
      swept == Swept(map, jti, ttl, now, cap)
  IN IF outcome = "New" /\ ttl > 0 THEN Insert(swept, jti, now + ttl)
     ELSE IF outcome = "Err" THEN swept
     ELSE map
=============================================================================
