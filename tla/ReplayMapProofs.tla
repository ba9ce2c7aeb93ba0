--------------------------- MODULE ReplayMapProofs ---------------------------
(* What one `mark` does to the map, for every map, jti, TTL, time and cap.   *)
EXTENDS ReplayMap, FiniteSetTheorems, TLAPS

\* `mark` answers New only for a jti that is not live, Replay only for one
\* that is, and there is no fourth answer.
LEMMA MarkAnswers ==
  ASSUME NEW map, NEW jti, NEW ttl, NEW now, NEW cap
  PROVE  /\ MarkOutcome(map, jti, ttl, now, cap) \in {"New", "Replay", "Err"}
         /\ MarkOutcome(map, jti, ttl, now, cap) = "Replay" <=> IsLive(map, jti, now)
BY DEF MarkOutcome

\* A sweep loses no live entry and changes none it keeps.
LEMMA SweepKeepsLive ==
  ASSUME NEW map, NEW jti, NEW ttl, NEW now, NEW cap
  PROVE  LET s == Swept(map, jti, ttl, now, cap) IN
         /\ DOMAIN s \subseteq DOMAIN map
         /\ \A j \in DOMAIN s : s[j] = map[j]
         /\ \A j \in DOMAIN map : map[j] > now => j \in DOMAIN s
BY DEF Swept, PruneExpired, LiveJtis

\* Neither does the mark as a whole, whoever's jti it records; and what it
\* records is its own jti, until now + ttl, if and only if it answers New.
LEMMA MarkKeepsLive ==
  ASSUME NEW map, NEW jti, NEW ttl, NEW now, NEW cap
  PROVE  LET m == MarkedMap(map, jti, ttl, now, cap)
             records == MarkOutcome(map, jti, ttl, now, cap) = "New" /\ ttl > 0
         IN
         /\ DOMAIN m \subseteq DOMAIN map \cup {jti}
         /\ \A j \in DOMAIN map : map[j] > now => j \in DOMAIN m
         /\ \A j \in DOMAIN m : ~(records /\ j = jti) =>
              j \in DOMAIN map /\ m[j] = map[j]
         /\ records => jti \in DOMAIN m /\ m[jti] = now + ttl
<1> DEFINE o == MarkOutcome(map, jti, ttl, now, cap)
           s == Swept(map, jti, ttl, now, cap)
<1>1. /\ DOMAIN s \subseteq DOMAIN map
      /\ \A j \in DOMAIN s : s[j] = map[j]
      /\ \A j \in DOMAIN map : map[j] > now => j \in DOMAIN s
  BY SweepKeepsLive
<1>2. o \in {"New", "Replay", "Err"}
  BY MarkAnswers
<1>3. CASE o = "New" /\ ttl > 0
  <2>1. MarkedMap(map, jti, ttl, now, cap) = Insert(s, jti, now + ttl)
    BY <1>3 DEF MarkedMap
  <2> QED
    BY <1>1, <1>3, <2>1 DEF Insert
<1>4. CASE o = "New" /\ ~(ttl > 0)
  <2>1. MarkedMap(map, jti, ttl, now, cap) = map
    BY <1>4 DEF MarkedMap
  <2> QED
    BY <1>4, <2>1
<1>5. CASE o = "Replay"
  <2>1. MarkedMap(map, jti, ttl, now, cap) = map
    BY <1>5 DEF MarkedMap
  <2> QED
    BY <1>5, <2>1
<1>6. CASE o = "Err"
  <2>1. MarkedMap(map, jti, ttl, now, cap) = s
    BY <1>6 DEF MarkedMap
  <2> QED
    BY <1>1, <1>6, <2>1
<1> QED
  BY <1>2, <1>3, <1>4, <1>5, <1>6

\* A mark never takes the map over the cap.
LEMMA MarkRespectsCap ==
  ASSUME NEW map, NEW jti, NEW ttl, NEW now, NEW cap \in Nat,
         IsFiniteSet(DOMAIN map), Cardinality(DOMAIN map) <= cap
  PROVE  /\ IsFiniteSet(DOMAIN Swept(map, jti, ttl, now, cap))
         /\ Cardinality(DOMAIN Swept(map, jti, ttl, now, cap)) <= cap
         /\ IsFiniteSet(DOMAIN MarkedMap(map, jti, ttl, now, cap))
         /\ Cardinality(DOMAIN MarkedMap(map, jti, ttl, now, cap)) <= cap
<1> DEFINE o == MarkOutcome(map, jti, ttl, now, cap)
           s == Swept(map, jti, ttl, now, cap)
           m == MarkedMap(map, jti, ttl, now, cap)
<1>1. /\ IsFiniteSet(DOMAIN s)
      /\ Cardinality(DOMAIN s) \in Nat
      /\ Cardinality(DOMAIN s) <= cap
  <2>1. DOMAIN s \subseteq DOMAIN map
    BY SweepKeepsLive
  <2>2. /\ IsFiniteSet(DOMAIN s)
        /\ Cardinality(DOMAIN s) <= Cardinality(DOMAIN map)
    BY <2>1, FS_Subset
  <2>3. Cardinality(DOMAIN s) \in Nat /\ Cardinality(DOMAIN map) \in Nat
    BY <2>2, FS_CardinalityType
  <2> QED
    BY <2>2, <2>3
<1>2. CASE o = "New" /\ ttl > 0
  <2>1. DOMAIN m = DOMAIN s \cup {jti}
    BY <1>2 DEF MarkedMap, Insert
  <2>2. jti \in DOMAIN s \/ Cardinality(DOMAIN s) < cap
    <3>1. CASE jti \in DOMAIN map
      <4>1. s = map
        BY <3>1 DEF Swept, NeedsRoom
      <4> QED
        BY <3>1, <4>1
    <3>2. CASE jti \notin DOMAIN map /\ AtCapacity(map, cap)
      <4>1. NeedsRoom(map, jti, ttl, cap) /\ s = PruneExpired(map, now)
        BY <1>2, <3>2 DEF Swept, NeedsRoom
      <4>2. ~AtCapacity(s, cap)
        BY <1>2, <4>1 DEF MarkOutcome
      <4> QED
        BY <1>1, <4>2 DEF AtCapacity
    <3>3. CASE jti \notin DOMAIN map /\ ~AtCapacity(map, cap)
      <4>1. s = map
        BY <3>3 DEF Swept, NeedsRoom
      <4> QED
        BY <1>1, <3>3, <4>1 DEF AtCapacity
    <3> QED
      BY <3>1, <3>2, <3>3
  <2>3. /\ IsFiniteSet(DOMAIN s \cup {jti})
        /\ Cardinality(DOMAIN s \cup {jti}) =
             IF jti \in DOMAIN s THEN Cardinality(DOMAIN s)
                                 ELSE Cardinality(DOMAIN s) + 1
    BY <1>1, FS_AddElement
  <2> QED
    BY <1>1, <2>1, <2>2, <2>3
<1>3. CASE ~(o = "New" /\ ttl > 0)
  <2>1. m = s \/ m = map
    BY <1>3, MarkAnswers DEF MarkedMap
  <2> QED
    BY <1>1, <2>1
<1> QED
  BY <1>1, <1>2, <1>3
=============================================================================
