-------------------------- MODULE ReplayStoreProofs --------------------------
(***************************************************************************)
(* InMemoryReplayStore keeps its promises for any number of threads, jtis  *)
(* and TTLs, any cap and any clock bound.                                  *)
(***************************************************************************)
EXTENDS ReplayStore, ReplayMapProofs

(***************************************************************************)
(* The inductive invariant.  NeverEvictsLive alone is not inductive: a     *)
(* thread inside the critical section decides on the clock value it        *)
(* sampled, not on the present one, so the map must agree with the history *)
(* as seen from that sample (Faithful), and nobody else may have changed   *)
(* the map since (Mutex).                                                  *)
(***************************************************************************)
Mutex ==
  /\ \A t \in Threads : pc[t] \in {"clock", "apply"} <=> holder = t
  /\ poisoned => holder = NoThread

Sampled == \A t \in Threads : pc[t] = "apply" => at[t] <= now

\* The map holds what was granted, and all of it that counts at time x.
HoldsFrom(x) ==
  \A j \in Jtis : granted[j] > x => j \in DOMAIN map /\ map[j] = granted[j]

Faithful ==
  /\ \A j \in DOMAIN map : map[j] = granted[j]
  /\ HoldsFrom(now)
  /\ \A t \in Threads : pc[t] = "apply" => HoldsFrom(at[t])

Bounded == IsFiniteSet(DOMAIN map) /\ Cardinality(DOMAIN map) <= Cap

\* Calls take effect in the order of their timestamps, each inside its call.
Ordered ==
  /\ now <= MaxTime
  /\ last <= now
  /\ \A t \in Threads : pc[t] # "idle" => call[t].since <= now
  /\ \A t \in Threads : pc[t] = "apply" => last <= at[t] /\ call[t].since <= at[t]

IndInv == TypeOK /\ Mutex /\ Sampled /\ Faithful /\ Bounded /\ Ordered

-----------------------------------------------------------------------------
\* The arguments of a call in progress.
LEMMA CallInProgress ==
  ASSUME TypeOK, NEW t \in Threads, pc[t] # "idle"
  PROVE  /\ call[t] \in Calls
         /\ call[t].jti \in Jtis /\ call[t].ttl \in Nat /\ call[t].since \in Nat
         /\ call[t].op \in {"mark", "contains"}
         /\ call[t] # NoCall
<1>1. call[t] \in Calls /\ call[t] # NoCall
  BY DEF TypeOK
<1>2. Ttls \cup {0} \subseteq Nat
  BY StoreAssumptions
<1> QED
  BY <1>1, <1>2 DEF Calls

\* A store that has just been built satisfies the invariant.
LEMMA InitInv == Init => IndInv
<1> SUFFICES ASSUME Init PROVE IndInv
  OBVIOUS
<1>1. DOMAIN map = {}
  BY DEF Init, EmptyMap
<1>2. TypeOK
  BY <1>1, StoreAssumptions DEF Init, TypeOK, NoCall, Results
<1>3. Bounded
  BY <1>1, FS_EmptySet, StoreAssumptions DEF Bounded
<1>4. Mutex /\ Sampled /\ Faithful /\ Ordered
  BY <1>1, StoreAssumptions DEF Init, Mutex, Sampled, Faithful, HoldsFrom, Ordered
<1> QED
  BY <1>2, <1>3, <1>4 DEF IndInv

\* Every step keeps every variable in its type.
LEMMA TypeStep == TypeOK /\ [Next]_vars => TypeOK'
<1> SUFFICES ASSUME TypeOK, [Next]_vars PROVE TypeOK'
  OBVIOUS
<1> USE DEF TypeOK
<1>1. ASSUME NEW t \in Threads, NEW op \in {"mark", "contains"}, NEW j \in Jtis,
             NEW ttl \in Ttls \cup {0}, Invoke(t, op, j, ttl)
      PROVE  TypeOK'
  <2>1. [op |-> op, jti |-> j, ttl |-> ttl, since |-> now] \in Calls
    BY DEF Calls
  <2>2. [op |-> op, jti |-> j, ttl |-> ttl, since |-> now] # NoCall
    BY DEF NoCall
  <2> QED
    BY <1>1, <2>1, <2>2 DEF Invoke, Results
<1>2. ASSUME NEW t \in Threads, Lock(t) PROVE TypeOK'
  BY <1>2 DEF Lock
<1>3. ASSUME NEW t \in Threads, LockPoisoned(t) PROVE TypeOK'
  BY <1>3 DEF LockPoisoned, Finish, Results
<1>4. ASSUME NEW t \in Threads, ReadClock(t) PROVE TypeOK'
  BY <1>4 DEF ReadClock
<1>5. ASSUME NEW t \in Threads, MarkReturn(t) PROVE TypeOK'
  <2>1. pc[t] # "idle"
    BY <1>5 DEF MarkReturn, Applying
  <2>2. call[t].jti \in Jtis /\ call[t].ttl \in Nat
    BY <2>1, CallInProgress
  <2>3. Outcome(t) \in Results
    BY MarkAnswers DEF Outcome, Results
  <2>4. DOMAIN map' \subseteq Jtis /\ \A j \in DOMAIN map' : map'[j] \in Nat
    <3> DEFINE m == MarkedMap(map, call[t].jti, call[t].ttl, at[t], Cap)
    <3>1. /\ DOMAIN m \subseteq DOMAIN map \cup {call[t].jti}
          /\ \A j \in DOMAIN m : ~(Records(t) /\ j = call[t].jti) =>
               j \in DOMAIN map /\ m[j] = map[j]
          /\ Records(t) => m[call[t].jti] = at[t] + call[t].ttl
      BY MarkKeepsLive DEF Records, Outcome
    <3> QED
      BY <1>5, <2>2, <3>1 DEF MarkReturn
  <2>5. granted' \in [Jtis -> Nat]
    BY <1>5, <2>2 DEF MarkReturn
  <2> QED
    BY <1>5, <2>3, <2>4, <2>5 DEF MarkReturn, Unlock, Finish
<1>6. ASSUME NEW t \in Threads, MarkPanic(t) PROVE TypeOK'
  <2>1. DOMAIN map' \subseteq Jtis /\ \A j \in DOMAIN map' : map'[j] \in Nat
    BY <1>6, SweepKeepsLive DEF MarkPanic
  <2> QED
    BY <1>6, <2>1 DEF MarkPanic, Unlock, Finish, Results
<1>7. ASSUME NEW t \in Threads, ContainsReturn(t) PROVE TypeOK'
  BY <1>7 DEF ContainsReturn, Unlock, Finish, Results
<1>8. CASE Tick
  BY <1>8 DEF Tick
<1>9. CASE UNCHANGED vars
  BY <1>9 DEF vars
<1> QED
  BY <1>1, <1>2, <1>3, <1>4, <1>5, <1>6, <1>7, <1>8, <1>9
     DEF Next, Step, Mark, Contains

\* The store is type-correct.
THEOREM TypeCorrect == Spec => []TypeOK
<1>1. Init => TypeOK
  BY InitInv DEF IndInv
<1> QED
  BY <1>1, TypeStep, PTL DEF Spec

-----------------------------------------------------------------------------
\* The critical section: after the sample was taken nobody else is inside, so
\* the map still is what the sampled time says it is.
LEMMA InsideAlone ==
  ASSUME Mutex, NEW t \in Threads, pc[t] \in {"clock", "apply"},
         NEW u \in Threads, pc[u] \in {"clock", "apply"}
  PROVE  u = t
BY DEF Mutex

\* Nothing but a mark changes the map or the history.
LEMMA QuietStep ==
  ASSUME IndInv, TypeOK',
         UNCHANGED <<map, granted>>,
         now' = now \/ now' = now + 1,
         \A t \in Threads : pc'[t] = "apply" =>
            \/ pc[t] = "apply" /\ at'[t] = at[t]
            \/ at'[t] = now
  PROVE  Faithful' /\ Bounded' /\ Sampled'
<1>1. HoldsFrom(now)'
  BY DEF IndInv, TypeOK, Faithful, HoldsFrom
<1>2. \A t \in Threads : pc'[t] = "apply" => HoldsFrom(at[t])'
  BY DEF IndInv, TypeOK, Faithful, HoldsFrom
<1>3. Bounded'
  BY DEF IndInv, Bounded
<1>4. Sampled'
  BY DEF IndInv, TypeOK, Sampled
<1> QED
  BY <1>1, <1>2, <1>3, <1>4 DEF IndInv, Faithful

\* A mark that returns, seen from its sampled time.
LEMMA MarkStep ==
  ASSUME IndInv, TypeOK', NEW t \in Threads, MarkReturn(t)
  PROVE  Faithful' /\ Bounded'
<1> DEFINE jti == call[t].jti
           m == MarkedMap(map, jti, call[t].ttl, at[t], Cap)
<1>1. /\ pc[t] = "apply" /\ pc[t] # "idle"
      /\ map' = m /\ now' = now
      /\ granted' = IF Records(t) THEN [granted EXCEPT ![jti] = at[t] + call[t].ttl]
                                  ELSE granted
      /\ pc' = [pc EXCEPT ![t] = "idle"]
  BY DEF MarkReturn, Applying, Unlock, Finish
<1>2. jti \in Jtis /\ call[t].ttl \in Nat
  BY <1>1, CallInProgress DEF IndInv
<1>3. /\ DOMAIN m \subseteq DOMAIN map \cup {jti}
      /\ \A j \in DOMAIN map : map[j] > at[t] => j \in DOMAIN m
      /\ \A j \in DOMAIN m : ~(Records(t) /\ j = jti) => j \in DOMAIN map /\ m[j] = map[j]
      /\ Records(t) => jti \in DOMAIN m /\ m[jti] = at[t] + call[t].ttl
  BY MarkKeepsLive DEF Records, Outcome
<1>4. /\ DOMAIN map \subseteq Jtis /\ DOMAIN m \subseteq Jtis
      /\ granted \in [Jtis -> Nat] /\ granted' \in [Jtis -> Nat]
      /\ at[t] \in Nat /\ now \in Nat /\ at[t] <= now
      /\ pc \in [Threads -> {"idle", "lock", "clock", "apply"}]
  BY <1>1, <1>2, <1>3 DEF IndInv, TypeOK, Sampled
<1>5. /\ \A j \in DOMAIN map : map[j] = granted[j]
      /\ HoldsFrom(at[t])
  BY <1>1 DEF IndInv, Faithful
<1>6. \A j \in DOMAIN m : m[j] = granted'[j]
  BY <1>1, <1>2, <1>3, <1>4, <1>5
<1>7. \A j \in Jtis : granted'[j] > now => j \in DOMAIN m
  <2> SUFFICES ASSUME NEW j \in Jtis, granted'[j] > now PROVE j \in DOMAIN m
    OBVIOUS
  <2>1. CASE Records(t) /\ j = jti
    BY <1>3, <2>1
  <2>2. CASE ~(Records(t) /\ j = jti)
    <3>1. granted[j] > at[t]
      BY <1>1, <1>4, <2>2
    <3>2. j \in DOMAIN map /\ map[j] > at[t]
      BY <1>5, <3>1 DEF HoldsFrom
    <3> QED
      BY <1>3, <3>2
  <2> QED
    BY <2>1, <2>2
<1>8. HoldsFrom(now)'
  BY <1>1, <1>6, <1>7 DEF HoldsFrom
<1>9. \A u \in Threads : pc'[u] # "apply"
  <2>1. \A u \in Threads : pc[u] = "apply" => u = t
    BY <1>1, InsideAlone DEF IndInv
  <2> QED
    BY <1>1, <1>4, <2>1
<1>10. Faithful'
  BY <1>1, <1>6, <1>8, <1>9 DEF Faithful
<1>11. Bounded'
  BY <1>1, MarkRespectsCap, StoreAssumptions DEF IndInv, Bounded
<1> QED
  BY <1>10, <1>11

\* A mark that panics has at most swept.
LEMMA PanicStep ==
  ASSUME IndInv, TypeOK', NEW t \in Threads, MarkPanic(t)
  PROVE  Faithful' /\ Bounded'
<1> DEFINE s == Swept(map, call[t].jti, call[t].ttl, at[t], Cap)
<1>1. /\ pc[t] = "apply" /\ map' = s /\ now' = now /\ granted' = granted
      /\ pc' = [pc EXCEPT ![t] = "idle"]
  BY DEF MarkPanic, Applying, Unlock, Finish
<1>2. /\ DOMAIN s \subseteq DOMAIN map
      /\ \A j \in DOMAIN s : s[j] = map[j]
      /\ \A j \in DOMAIN map : map[j] > at[t] => j \in DOMAIN s
  BY SweepKeepsLive
<1>3. /\ granted \in [Jtis -> Nat] /\ at[t] \in Nat /\ now \in Nat /\ at[t] <= now
      /\ pc \in [Threads -> {"idle", "lock", "clock", "apply"}]
      /\ \A j \in DOMAIN map : map[j] = granted[j]
      /\ HoldsFrom(now)
  BY <1>1 DEF IndInv, TypeOK, Sampled, Faithful
<1>4. \A u \in Threads : pc'[u] # "apply"
  <2>1. \A u \in Threads : pc[u] = "apply" => u = t
    BY <1>1, InsideAlone DEF IndInv
  <2> QED
    BY <1>1, <1>3, <2>1
<1>5. HoldsFrom(now)'
  BY <1>1, <1>2, <1>3 DEF HoldsFrom
<1>6. Faithful'
  BY <1>1, <1>2, <1>3, <1>4, <1>5 DEF Faithful
<1>7. Bounded'
  BY <1>1, MarkRespectsCap, StoreAssumptions DEF IndInv, Bounded
<1> QED
  BY <1>6, <1>7

\* The invariant is inductive.
LEMMA IndStep == IndInv /\ [Next]_vars => IndInv'
<1> SUFFICES ASSUME IndInv, [Next]_vars PROVE IndInv'
  OBVIOUS
<1>0. TypeOK /\ TypeOK'
  BY TypeStep DEF IndInv
<1>1. ASSUME NEW t \in Threads, NEW op, NEW j, NEW ttl, Invoke(t, op, j, ttl)
      PROVE  IndInv'
  <2>1. Mutex' /\ Ordered'
    BY <1>0, <1>1 DEF Invoke, IndInv, TypeOK, Mutex, Ordered
  <2>2. Faithful' /\ Bounded' /\ Sampled'
    BY <1>0, <1>1, QuietStep DEF Invoke, TypeOK
  <2> QED
    BY <1>0, <2>1, <2>2 DEF IndInv
<1>2. ASSUME NEW t \in Threads, Lock(t) PROVE IndInv'
  <2>1. Mutex' /\ Ordered'
    BY <1>0, <1>2, StoreAssumptions DEF Lock, IndInv, TypeOK, Mutex, Ordered
  <2>2. Faithful' /\ Bounded' /\ Sampled'
    BY <1>0, <1>2, QuietStep DEF Lock, TypeOK
  <2> QED
    BY <1>0, <2>1, <2>2 DEF IndInv
<1>3. ASSUME NEW t \in Threads, LockPoisoned(t) PROVE IndInv'
  <2>1. Mutex' /\ Ordered'
    BY <1>0, <1>3 DEF LockPoisoned, Finish, IndInv, TypeOK, Mutex, Ordered
  <2>2. Faithful' /\ Bounded' /\ Sampled'
    BY <1>0, <1>3, QuietStep DEF LockPoisoned, Finish, TypeOK
  <2> QED
    BY <1>0, <2>1, <2>2 DEF IndInv
<1>4. ASSUME NEW t \in Threads, ReadClock(t) PROVE IndInv'
  <2>1. Mutex' /\ Ordered'
    BY <1>0, <1>4 DEF ReadClock, IndInv, TypeOK, Mutex, Ordered
  <2>2. Faithful' /\ Bounded' /\ Sampled'
    BY <1>0, <1>4, QuietStep DEF ReadClock, TypeOK
  <2> QED
    BY <1>0, <2>1, <2>2 DEF IndInv
<1>5. ASSUME NEW t \in Threads, NEW r, pc[t] = "apply", Unlock(t, r)
      PROVE  Mutex' /\ Ordered' /\ Sampled'
  BY <1>0, <1>5, StoreAssumptions
     DEF Unlock, Finish, IndInv, TypeOK, Mutex, Ordered, Sampled
<1>6. ASSUME NEW t \in Threads, MarkReturn(t) PROVE IndInv'
  <2>1. Mutex' /\ Ordered' /\ Sampled'
    BY <1>5, <1>6 DEF MarkReturn, Applying
  <2> QED
    BY <1>0, <1>6, <2>1, MarkStep DEF IndInv
<1>7. ASSUME NEW t \in Threads, MarkPanic(t) PROVE IndInv'
  <2>1. Mutex' /\ Ordered' /\ Sampled'
    BY <1>5, <1>7 DEF MarkPanic, Applying
  <2> QED
    BY <1>0, <1>7, <2>1, PanicStep DEF IndInv
<1>8. ASSUME NEW t \in Threads, ContainsReturn(t) PROVE IndInv'
  <2>1. Mutex' /\ Ordered' /\ Sampled'
    BY <1>5, <1>8 DEF ContainsReturn, Applying
  <2>2. Faithful' /\ Bounded'
    BY <1>0, <1>8, QuietStep DEF ContainsReturn, Unlock, Finish, TypeOK
  <2> QED
    BY <1>0, <2>1, <2>2 DEF IndInv
<1>9. CASE Tick
  <2>1. Mutex' /\ Ordered'
    <3>1. Mutex'
      BY <1>9 DEF Tick, IndInv, Mutex
    <3>2. \A t \in Threads : pc[t] # "idle" => call[t].since \in Nat
      BY <1>0, CallInProgress
    <3> QED
      BY <1>0, <1>9, <3>1, <3>2, StoreAssumptions DEF Tick, IndInv, TypeOK, Ordered
  <2>2. Faithful' /\ Bounded' /\ Sampled'
    BY <1>0, <1>9, QuietStep DEF Tick, TypeOK
  <2> QED
    BY <1>0, <2>1, <2>2 DEF IndInv
<1>10. CASE UNCHANGED vars
  BY <1>10 DEF vars, IndInv, TypeOK, Mutex, Sampled, Faithful, HoldsFrom, Bounded, Ordered
<1> QED
  BY <1>1, <1>2, <1>3, <1>4, <1>6, <1>7, <1>8, <1>9, <1>10
     DEF Next, Step, Mark, Contains

\* The invariant holds in every reachable state.
LEMMA Invariant == Spec => []IndInv
BY InitInv, IndStep, PTL DEF Spec

\* A recorded jti is never evicted, by a sweep or by any interleaving of
\* marks, before the expiry it was given.
THEOREM NoEviction == Spec => []NeverEvictsLive
<1>1. IndInv => NeverEvictsLive
  BY DEF IndInv, Faithful, HoldsFrom, NeverEvictsLive
<1> QED
  BY <1>1, Invariant, PTL

\* The map never outgrows max_entries.
THEOREM CapacityBound == Spec => []WithinCapacity
<1>1. IndInv => WithinCapacity
  BY DEF IndInv, Bounded, WithinCapacity
<1> QED
  BY <1>1, Invariant, PTL

\* A thread inside `mark` leaves it by its own step only.
LEMMA OnlyOwnReturn ==
  ASSUME TypeOK, [Next]_vars, NEW t \in Threads, Applying(t, "mark"),
         pc'[t] = "idle", result'[t] = "New"
  PROVE  Outcome(t) = "New"
<1> USE DEF Applying
<1>2. ASSUME NEW u \in Threads, NEW op, NEW j, NEW ttl, Invoke(u, op, j, ttl)
      PROVE  FALSE
  BY <1>2 DEF Invoke, TypeOK
<1>3. ASSUME NEW u \in Threads, Lock(u) \/ LockPoisoned(u) \/ ReadClock(u) PROVE FALSE
  BY <1>3 DEF Lock, LockPoisoned, Finish, ReadClock, TypeOK
<1>4. ASSUME NEW u \in Threads, MarkPanic(u) \/ ContainsReturn(u) PROVE FALSE
  BY <1>4 DEF MarkPanic, ContainsReturn, Unlock, Finish, TypeOK
<1>5. ASSUME NEW u \in Threads, MarkReturn(u) PROVE Outcome(t) = "New"
  BY <1>5 DEF MarkReturn, Unlock, Finish, TypeOK
<1>6. ~Tick /\ ~UNCHANGED vars
  BY DEF Tick, vars
<1> QED
  BY <1>2, <1>3, <1>4, <1>5, <1>6 DEF Next, Step, Mark, Contains

\* The check-and-set admits one New per window, for any number of threads.
THEOREM AtomicCheckAndSet == Spec => OneNewPerWindow
<1>1. ASSUME IndInv, [Next]_vars, NEW t \in Threads,
             Applying(t, "mark"), pc'[t] = "idle", result'[t] = "New"
      PROVE  granted[call[t].jti] <= at[t]
  <2>1. Outcome(t) = "New"
    BY <1>1, OnlyOwnReturn DEF IndInv
  <2>2. /\ call[t].jti \in Jtis /\ granted[call[t].jti] \in Nat /\ at[t] \in Nat
        /\ HoldsFrom(at[t])
    BY <1>1, CallInProgress DEF Applying, IndInv, TypeOK, Faithful
  <2>3. ~IsLive(map, call[t].jti, at[t])
    BY <2>1, MarkAnswers DEF Outcome
  <2> QED
    BY <2>2, <2>3 DEF HoldsFrom, IsLive
<1>2. IndInv /\ [Next]_vars =>
        \A t \in Threads :
          /\ Applying(t, "mark") /\ pc'[t] = "idle" /\ result'[t] = "New"
          => granted[call[t].jti] <= at[t]
  BY <1>1
<1> QED
  BY <1>2, Invariant, PTL DEF Spec, OneNewPerWindow

\* Nobody is inside a poisoned store.
LEMMA NotPoisonedInside ==
  ASSUME IndInv, NEW t \in Threads, pc[t] = "apply"
  PROVE  ~poisoned
BY StoreAssumptions DEF IndInv, Mutex

\* After a panic under the lock every call still to be answered is refused,
\* whichever threads were queueing for the lock when it happened.
THEOREM FailsClosed == Spec => PoisonFailsClosed
<1>1. ASSUME IndInv, [Next]_vars, poisoned, NEW t \in Threads,
             pc[t] # "idle", pc'[t] = "idle"
      PROVE  result'[t] = "Err"
  <2> USE DEF TypeOK, IndInv
  <2>1. ASSUME NEW u \in Threads, NEW op, NEW j, NEW ttl, Invoke(u, op, j, ttl)
        PROVE  FALSE
    BY <1>1, <2>1 DEF Invoke
  <2>2. ASSUME NEW u \in Threads, Lock(u) \/ ReadClock(u) PROVE FALSE
    BY <1>1, <2>2 DEF Lock, ReadClock
  <2>3. ASSUME NEW u \in Threads, MarkReturn(u) \/ MarkPanic(u) \/ ContainsReturn(u)
        PROVE  FALSE
    BY <1>1, <2>3, NotPoisonedInside DEF MarkReturn, MarkPanic, ContainsReturn, Applying
  <2>4. ASSUME NEW u \in Threads, LockPoisoned(u) PROVE result'[t] = "Err"
    BY <1>1, <2>4 DEF LockPoisoned, Finish
  <2>5. ~Tick /\ ~UNCHANGED vars
    BY <1>1 DEF Tick, vars
  <2> QED
    BY <1>1, <2>1, <2>2, <2>3, <2>4, <2>5 DEF Next, Step, Mark, Contains
<1>2. IndInv /\ [Next]_vars =>
        (poisoned => \A t \in Threads :
           (pc[t] # "idle" /\ pc'[t] = "idle") => result'[t] = "Err")
  BY <1>1
<1> QED
  BY <1>2, Invariant, PTL DEF Spec, PoisonFailsClosed

-----------------------------------------------------------------------------
(* The store implements TtlSet. *)

\* The cardinality TtlSet counts with is the one the store counts with.
LEMMA SameCardinality == \A S : Abstract!Cardinality(S) = Cardinality(S)
BY DEF Abstract!Cardinality, Cardinality

\* Seen from a sampled time, the live entries of the map are the promises
\* still running, however many dead entries lie beside them.
LEMMA RunningAreLive ==
  ASSUME IndInv, NEW t \in Threads, pc[t] = "apply"
  PROVE  Abstract!Running(at[t]) = LiveJtis(map, at[t])
BY DEF IndInv, TypeOK, Faithful, HoldsFrom, Abstract!Running, LiveJtis

\* The cap on the map and the cap on running promises agree on every mark.
LEMMA CapsAgree ==
  ASSUME IndInv, NEW t \in Threads, Applying(t, "mark")
  PROVE  LET n == Cardinality(Abstract!Running(at[t])) IN
         /\ Outcome(t) = "Err" => call[t].ttl > 0 /\ n >= Cap
         /\ Records(t) => n < Cap
<1> DEFINE live == LiveJtis(map, at[t])
           jti == call[t].jti
<1>1. Abstract!Running(at[t]) = live
  BY RunningAreLive DEF Applying
<1>2. DOMAIN PruneExpired(map, at[t]) = live
  BY DEF PruneExpired
<1>3. /\ IsFiniteSet(DOMAIN map) /\ Cardinality(DOMAIN map) <= Cap
      /\ live \subseteq DOMAIN map
      /\ Cap \in Nat
  BY StoreAssumptions DEF IndInv, Bounded, LiveJtis
<1>4. /\ Cardinality(live) \in Nat /\ Cardinality(DOMAIN map) \in Nat
      /\ Cardinality(live) <= Cardinality(DOMAIN map)
  BY <1>3, FS_Subset, FS_CardinalityType
<1>5. Outcome(t) = "Err" => call[t].ttl > 0 /\ Cardinality(live) >= Cap
  BY <1>2 DEF Outcome, MarkOutcome, NeedsRoom, AtCapacity
<1>6. ASSUME Records(t) PROVE Cardinality(live) < Cap
  <2>1. ~IsLive(map, jti, at[t]) /\ call[t].ttl > 0
    BY <1>6, MarkAnswers DEF Records, Outcome
  <2>2. CASE NeedsRoom(map, jti, call[t].ttl, Cap)
    <3>1. ~AtCapacity(PruneExpired(map, at[t]), Cap)
      BY <1>6, <2>1, <2>2 DEF Records, Outcome, MarkOutcome
    <3> QED
      BY <1>2, <1>3, <1>4, <3>1 DEF AtCapacity
  <2>3. CASE jti \in DOMAIN map
    <3>1. live \subseteq DOMAIN map \ {jti}
      BY <1>3, <2>1 DEF IsLive, LiveJtis
    <3>2. /\ IsFiniteSet(DOMAIN map \ {jti})
          /\ Cardinality(DOMAIN map \ {jti}) = Cardinality(DOMAIN map) - 1
      BY <1>3, <2>3, FS_RemoveElement
    <3>3. Cardinality(live) <= Cardinality(DOMAIN map \ {jti})
      BY <3>1, <3>2, FS_Subset
    <3> QED
      BY <1>3, <1>4, <3>2, <3>3
  <2>4. CASE jti \notin DOMAIN map /\ ~AtCapacity(map, Cap)
    BY <1>3, <1>4, <2>4 DEF AtCapacity
  <2> QED
    BY <2>1, <2>2, <2>3, <2>4 DEF NeedsRoom
<1> QED
  BY <1>1, <1>5, <1>6

\* The sampled time is one TtlSet allows, and the promise looked up is the
\* entry's expiry.
LEMMA TimelyCall ==
  ASSUME IndInv, NEW t \in Threads, pc[t] = "apply"
  PROVE  /\ at[t] \in 0 .. MaxTime /\ Abstract!Timely(t, at[t])
         /\ call[t].jti \in Jtis
         /\ granted[call[t].jti] \in Nat
         /\ IsLive(map, call[t].jti, at[t]) <=> granted[call[t].jti] > at[t]
<1>1. call[t].jti \in Jtis /\ call[t].since \in Nat
  BY CallInProgress DEF IndInv
<1>2. /\ at[t] \in Nat /\ now \in Nat /\ last \in Nat /\ at[t] <= now /\ now <= MaxTime
      /\ last <= at[t] /\ call[t].since <= at[t]
      /\ granted[call[t].jti] \in Nat
  BY <1>1 DEF IndInv, TypeOK, Sampled, Ordered
<1>3. IsLive(map, call[t].jti, at[t]) <=> granted[call[t].jti] > at[t]
  BY <1>1 DEF IndInv, Faithful, HoldsFrom, IsLive
<1> QED
  BY <1>1, <1>2, <1>3, StoreAssumptions DEF Abstract!Timely

\* Every step of the store is a step of TtlSet or invisible to it.
LEMMA RefineStep ==
  ASSUME IndInv, [Next]_vars
  PROVE  [Abstract!Next]_(Abstract!vars)
<1> USE DEF Abstract!vars
<1>0. TypeOK
  BY DEF IndInv
<1>1. ASSUME NEW t \in Threads, NEW op \in {"mark", "contains"}, NEW j \in Jtis,
             NEW ttl \in Ttls \cup {0}, Invoke(t, op, j, ttl)
      PROVE  Abstract!Invoke(t)
  BY <1>0, <1>1 DEF Invoke, Abstract!Invoke, TypeOK, NoCall, Abstract!NoCall
<1>2. ASSUME NEW t \in Threads, Lock(t) \/ ReadClock(t)
      PROVE  UNCHANGED Abstract!vars
  BY <1>2 DEF Lock, ReadClock
<1>3. ASSUME NEW t \in Threads, LockPoisoned(t) PROVE Abstract!Fail(t)
  BY <1>0, <1>3 DEF LockPoisoned, Finish, Abstract!Fail, Abstract!Return, TypeOK,
                    NoCall, Abstract!NoCall
<1>4. ASSUME NEW t \in Threads, NEW r, Unlock(t, r)
      PROVE  Abstract!Return(t, r) /\ last' = at[t] /\ now' = now
  BY <1>4 DEF Unlock, Finish, Abstract!Return, NoCall, Abstract!NoCall
<1>5. ASSUME NEW t \in Threads, MarkReturn(t) PROVE Abstract!Effect(t, at[t])
  <2>1. /\ Applying(t, "mark") /\ ~Overflows(t) /\ UNCHANGED poisoned
        /\ granted' = IF Records(t)
                        THEN [granted EXCEPT ![call[t].jti] = at[t] + call[t].ttl]
                        ELSE granted
        /\ Abstract!Return(t, Outcome(t)) /\ last' = at[t] /\ now' = now
    BY <1>4, <1>5 DEF MarkReturn
  <2>2. call[t].op = "mark" /\ ~poisoned
    BY <2>1, NotPoisonedInside DEF Applying
  <2>3. /\ Abstract!Timely(t, at[t])
        /\ IsLive(map, call[t].jti, at[t]) <=> granted[call[t].jti] > at[t]
        /\ granted[call[t].jti] \in Nat /\ at[t] \in Nat
    BY <2>1, TimelyCall DEF Applying
  <2>4. call[t].ttl \in Nat
    BY <1>0, <2>1, CallInProgress DEF Applying
  <2>5. CASE Outcome(t) = "Replay"
    <3>1. granted[call[t].jti] > at[t] /\ granted' = granted
      BY <2>1, <2>3, <2>5, MarkAnswers DEF Outcome, Records
    <3> QED
      BY <2>1, <2>2, <2>3, <2>5, <3>1 DEF Abstract!Effect, Abstract!MarkReplay
  <2>6. CASE Outcome(t) = "Err"
    <3>1. granted[call[t].jti] <= at[t] /\ granted' = granted
      BY <2>1, <2>3, <2>6, MarkAnswers DEF Outcome, Records
    <3>2. call[t].ttl > 0 /\ Cardinality(Abstract!Running(at[t])) >= Cap
      BY <2>1, <2>6, CapsAgree
    <3>3. Abstract!MarkRefused(t, at[t])
      BY <2>1, <2>2, <2>3, <2>6, <3>1, <3>2, SameCardinality, Zenon DEF Abstract!MarkRefused
    <3> QED
      BY <3>3 DEF Abstract!Effect
  <2>7. CASE Outcome(t) = "New"
    <3>1. granted[call[t].jti] <= at[t]
      BY <2>3, <2>7, MarkAnswers DEF Outcome
    <3>2. call[t].ttl > 0 => /\ Records(t) /\ Cardinality(Abstract!Running(at[t])) < Cap
                             /\ ~(at[t] + call[t].ttl > MaxInstant)
      BY <2>1, <2>7, CapsAgree DEF Records, Overflows
    <3>3. granted' = IF call[t].ttl > 0
                       THEN [granted EXCEPT ![call[t].jti] = at[t] + call[t].ttl]
                       ELSE granted
      BY <2>1, <2>7 DEF Records
    <3>4. call[t].ttl > 0 => at[t] + call[t].ttl <= MaxInstant
      BY <2>3, <2>4, <3>2, StoreAssumptions
    <3>5. Abstract!MarkNew(t, at[t])
      BY <2>1, <2>2, <2>3, <2>7, <3>1, <3>2, <3>3, <3>4, SameCardinality, Zenon
         DEF Abstract!MarkNew
    <3> QED
      BY <3>5 DEF Abstract!Effect
  <2> QED
    BY <2>5, <2>6, <2>7, MarkAnswers DEF Outcome
<1>6. ASSUME NEW t \in Threads, MarkPanic(t) PROVE Abstract!MarkPanic(t, at[t])
  <2>1. /\ Applying(t, "mark") /\ Overflows(t) /\ poisoned' = TRUE
        /\ granted' = granted
        /\ Abstract!Return(t, "Panic") /\ last' = at[t] /\ now' = now
    BY <1>4, <1>6 DEF MarkPanic
  <2>2. call[t].op = "mark" /\ ~poisoned
    BY <2>1, NotPoisonedInside DEF Applying
  <2>3. /\ Records(t) /\ call[t].ttl > 0 /\ at[t] + call[t].ttl > MaxInstant
        /\ Cardinality(Abstract!Running(at[t])) < Cap
    BY <2>1, CapsAgree DEF Overflows, Records
  <2>4. Abstract!Timely(t, at[t]) /\ granted[call[t].jti] <= at[t]
    BY <2>1, <2>3, TimelyCall, MarkAnswers DEF Applying, Records, Outcome
  <2> QED
    BY <2>1, <2>2, <2>3, <2>4, SameCardinality, Zenon
       DEF Abstract!MarkPanic
<1>7. ASSUME NEW t \in Threads, ContainsReturn(t) PROVE Abstract!Contains(t, at[t])
  <2> DEFINE r == IF IsLive(map, call[t].jti, at[t]) THEN "Yes" ELSE "No"
  <2>1. /\ Applying(t, "contains") /\ UNCHANGED <<granted, poisoned>>
        /\ Abstract!Return(t, r) /\ last' = at[t] /\ now' = now
    BY <1>4, <1>7 DEF ContainsReturn
  <2>2. call[t].op = "contains" /\ ~poisoned
    BY <2>1, NotPoisonedInside DEF Applying
  <2>3. /\ Abstract!Timely(t, at[t])
        /\ r = IF granted[call[t].jti] > at[t] THEN "Yes" ELSE "No"
    BY <2>1, TimelyCall DEF Applying
  <2> HIDE DEF r
  <2> QED
    BY <2>1, <2>2, <2>3 DEF Abstract!Contains
<1>8. CASE Tick
  BY <1>8 DEF Tick, Abstract!Tick, Abstract!Next
<1>9. CASE UNCHANGED vars
  BY <1>9 DEF vars
<1>10. ASSUME NEW t \in Threads, Step(t) PROVE [Abstract!Next]_(Abstract!vars)
  <2>1. pc[t] = "apply" => at[t] \in 0 .. MaxTime
    BY TimelyCall
  <2>2. CASE Lock(t) \/ ReadClock(t)
    BY <1>2, <2>2
  <2>3. CASE LockPoisoned(t)
    BY <1>3, <2>3 DEF Abstract!Next
  <2>4. CASE MarkReturn(t)
    <3>1. at[t] \in 0 .. MaxTime
      BY <2>1, <2>4 DEF MarkReturn, Applying
    <3> QED
      BY <1>5, <2>4, <3>1 DEF Abstract!Next
  <2>5. CASE MarkPanic(t)
    <3>1. at[t] \in 0 .. MaxTime
      BY <2>1, <2>5 DEF MarkPanic, Applying
    <3> QED
      BY <1>6, <2>5, <3>1 DEF Abstract!Next, Abstract!Effect
  <2>6. CASE ContainsReturn(t)
    <3>1. at[t] \in 0 .. MaxTime
      BY <2>1, <2>6 DEF ContainsReturn, Applying
    <3> QED
      BY <1>7, <2>6, <3>1 DEF Abstract!Next, Abstract!Effect
  <2> QED
    BY <1>10, <2>2, <2>3, <2>4, <2>5, <2>6 DEF Step
<1>11. ASSUME NEW t \in Threads, NEW j \in Jtis,
              (\E ttl \in Ttls : Mark(t, j, ttl)) \/ Contains(t, j)
       PROVE  Abstract!Next
  BY <1>1, <1>11 DEF Mark, Contains, Abstract!Next
<1> QED
  BY <1>8, <1>9, <1>10, <1>11 DEF Next

\* The in-memory store, with its lock, its lazy sweep and its dead entries,
\* implements the atomic set of promises.
THEOREM StoreImplementsTtlSet == Spec => ImplementsTtlSet
<1>1. Init => Abstract!Init
  BY DEF Init, Abstract!Init, NoCall, Abstract!NoCall
<1>2. IndInv /\ [Next]_vars => [Abstract!Next]_(Abstract!vars)
  BY RefineStep
<1> QED
  BY <1>1, <1>2, Invariant, PTL DEF Spec, ImplementsTtlSet, Abstract!Spec

-----------------------------------------------------------------------------
(* The store implements AtomicStore: calls take effect when the clock is read. *)

\* The two modules mean the same by a mark.
LEMMA SameMark ==
  ASSUME NEW m, NEW j, NEW d, NEW n
  PROVE  /\ Atomic!IsLive(m, j, n) = IsLive(m, j, n)
         /\ Atomic!MarkOutcome(m, j, d, n, Cap) = MarkOutcome(m, j, d, n, Cap)
         /\ Atomic!Swept(m, j, d, n, Cap) = Swept(m, j, d, n, Cap)
         /\ Atomic!MarkedMap(m, j, d, n, Cap) = MarkedMap(m, j, d, n, Cap)
<1>1. \A S : Atomic!Cardinality(S) = Cardinality(S)
  BY DEF Atomic!Cardinality, Cardinality
<1>2. /\ Atomic!IsLive(m, j, n) = IsLive(m, j, n)
      /\ Atomic!PruneExpired(m, n) = PruneExpired(m, n)
      /\ \A x : Atomic!AtCapacity(x, Cap) = AtCapacity(x, Cap)
      /\ \A x, e : Atomic!Insert(x, j, e) = Insert(x, j, e)
  BY <1>1, Zenon
     DEF Atomic!IsLive, IsLive, Atomic!PruneExpired, PruneExpired, Atomic!LiveJtis,
         LiveJtis, Atomic!AtCapacity, AtCapacity, Atomic!Insert, Insert
<1>3. Atomic!NeedsRoom(m, j, d, Cap) = NeedsRoom(m, j, d, Cap)
  BY <1>2, Zenon DEF Atomic!NeedsRoom, NeedsRoom
<1>4. /\ Atomic!Swept(m, j, d, n, Cap) = Swept(m, j, d, n, Cap)
      /\ Atomic!MarkOutcome(m, j, d, n, Cap) = MarkOutcome(m, j, d, n, Cap)
  BY <1>2, <1>3, Zenon DEF Atomic!Swept, Swept, Atomic!MarkOutcome, MarkOutcome
<1>5. Atomic!MarkedMap(m, j, d, n, Cap) = MarkedMap(m, j, d, n, Cap)
  BY <1>2, <1>4, Zenon DEF Atomic!MarkedMap, MarkedMap
<1> QED
  BY <1>2, <1>4, <1>5

\* An answer is an answer, and "Panic" means an overflow.
LEMMA DecidedAnswers ==
  ASSUME NEW t \in Threads
  PROVE  /\ Decided(t) # "none"
         /\ Decided(t) = "Panic" <=> call[t].op # "contains" /\ Overflows(t)
BY MarkAnswers DEF Decided, Outcome

\* Steps that leave the thread past the clock alone do not show.
LEMMA Unseen ==
  ASSUME TypeOK, UNCHANGED <<map, holder, poisoned>>,
         \A u \in Threads : pc[u] = "apply" <=> pc'[u] = "apply",
         \A u \in Threads : pc[u] = "apply" => at'[u] = at[u] /\ call'[u] = call[u]
  PROVE  UNCHANGED <<SettledMap, SettledPoison, Answers>>
<1>1. \A u \in Threads : pc[u] = "apply" => UNCHANGED <<Decided(u), Left(u)>>
  BY DEF Decided, Left, Overflows, Records, Outcome
<1>2. Bound' <=> Bound
  BY DEF Bound
<1>3. Bound => holder \in Threads /\ pc[holder] = "apply"
  BY DEF Bound
<1> QED
  BY <1>1, <1>2, <1>3 DEF SettledMap, SettledPoison, Answers

\* A thread past the clock settles the store; otherwise it is what it is.
Settling ==
  /\ \A t \in Threads : pc[t] = "apply" =>
       /\ SettledMap = Left(t) /\ ~poisoned
       /\ SettledPoison = (Decided(t) = "Panic")
  /\ (\A t \in Threads : pc[t] # "apply") => SettledMap = map /\ SettledPoison = poisoned

LEMMA WhoSettles == IndInv => Settling
<1> SUFFICES ASSUME TypeOK, Mutex PROVE Settling
  BY DEF IndInv
<1>1. ASSUME NEW t \in Threads, pc[t] = "apply" PROVE holder = t /\ Bound /\ ~poisoned
  BY <1>1, StoreAssumptions DEF Mutex, Bound
<1>2. (\A t \in Threads : pc[t] # "apply") => ~Bound
  BY DEF Bound
<1> QED
  BY <1>1, <1>2 DEF SettledMap, SettledPoison, TypeOK, Settling

\* Reading the clock is the instant at which a call takes effect.
LEMMA EffectAtClock ==
  ASSUME IndInv, IndInv', NEW t \in Threads, ReadClock(t)
  PROVE  Atomic!Mark(t) \/ Atomic!MarkPanic(t) \/ Atomic!Contains(t)
<1>1. /\ pc[t] = "clock" /\ pc' = [pc EXCEPT ![t] = "apply"] /\ pc'[t] = "apply"
      /\ at'[t] = now /\ UNCHANGED <<map, holder, poisoned, now, call, result>>
  BY DEF ReadClock, IndInv, TypeOK
<1>2. /\ SettledMap = map /\ SettledPoison = FALSE
      /\ SettledMap' = Left(t)' /\ SettledPoison' = (Decided(t)' = "Panic")
  <2>1. \A u \in Threads : pc[u] # "apply"
    BY <1>1 DEF IndInv, Mutex
  <2>2. ~poisoned
    BY <1>1, StoreAssumptions DEF IndInv, Mutex
  <2>3. SettledMap' = Left(t)' /\ SettledPoison' = (Decided(t)' = "Panic")
    <3>1. IndInv' => Settling'
      BY WhoSettles, PTL
    <3> QED
      BY <1>1, <3>1 DEF Settling
  <2> QED
    BY <2>1, <2>2, <2>3, WhoSettles DEF Settling
<1>3. Answers[t] = "none" /\ Answers' = [Answers EXCEPT ![t] = Decided(t)']
  <2>1. \A u \in Threads : u # t => pc[u] # "apply" /\ pc'[u] # "apply"
    BY <1>1 DEF IndInv, Mutex, TypeOK
  <2> QED
    BY <1>1, <2>1 DEF Answers
<1> DEFINE o == MarkOutcome(map, call[t].jti, call[t].ttl, now, Cap)
<1>4. /\ Outcome(t)' = o
      /\ Overflows(t)' <=> o = "New" /\ call[t].ttl > 0 /\ now + call[t].ttl > MaxInstant
  BY <1>1 DEF Outcome, Overflows, Records
<1>5. IsLive(map, call[t].jti, at[t])' = IsLive(map, call[t].jti, now)
  BY <1>1
<1>6. /\ Atomic!Outcome(t) = o
      /\ Atomic!Overflows(t) <=> Overflows(t)'
  BY <1>2, <1>4, SameMark DEF Atomic!Outcome, Atomic!Overflows
<1>7. call[t].op \in {"mark", "contains"}
  BY <1>1, CallInProgress DEF IndInv
<1>8. CASE call[t].op = "contains"
  <2>1. /\ Left(t)' = map
        /\ Decided(t)' = IF IsLive(map, call[t].jti, now) THEN "Yes" ELSE "No"
    BY <1>1, <1>5, <1>8 DEF Left, Decided
  <2>2. Atomic!IsLive(SettledMap, call[t].jti, now) = IsLive(map, call[t].jti, now)
    BY <1>2, SameMark
  <2>3. Decided(t)' # "Panic"
    BY <2>1
  <2> QED
    BY <1>1, <1>2, <1>3, <1>8, <2>1, <2>2, <2>3 DEF Atomic!Contains, Atomic!Decide
<1>9. CASE call[t].op = "mark" /\ ~Overflows(t)'
  <2>1. /\ Left(t)' = MarkedMap(map, call[t].jti, call[t].ttl, now, Cap)
        /\ Decided(t)' = o
    BY <1>1, <1>4, <1>9 DEF Left, Decided
  <2>2. Decided(t)' # "Panic"
    BY <2>1, MarkAnswers
  <2> HIDE DEF o
  <2> QED
    BY <1>1, <1>2, <1>3, <1>6, <1>9, <2>1, <2>2, SameMark DEF Atomic!Mark, Atomic!Decide
<1>10. CASE call[t].op = "mark" /\ Overflows(t)'
  <2>1. /\ Left(t)' = Swept(map, call[t].jti, call[t].ttl, now, Cap)
        /\ Decided(t)' = "Panic"
    BY <1>1, <1>10 DEF Left, Decided
  <2> HIDE DEF o
  <2> QED
    BY <1>1, <1>2, <1>3, <1>6, <1>10, <2>1, SameMark DEF Atomic!MarkPanic, Atomic!Decide
<1> QED
  BY <1>7, <1>8, <1>9, <1>10

\* Leaving the critical section hands out an answer that was settled before.
LEMMA ReturnIsLate ==
  ASSUME IndInv, IndInv', NEW t \in Threads,
         MarkReturn(t) \/ MarkPanic(t) \/ ContainsReturn(t)
  PROVE  Atomic!Return(t)
<1>1. /\ pc[t] = "apply" /\ call[t] # NoCall /\ call[t].op \in {"mark", "contains"}
      /\ \A u \in Threads : u # t => pc[u] # "apply"
  BY CallInProgress
     DEF IndInv, Mutex, MarkReturn, MarkPanic, ContainsReturn, Applying
<1>2. /\ pc' = [pc EXCEPT ![t] = "idle"] /\ call' = [call EXCEPT ![t] = NoCall]
      /\ now' = now
      /\ result' = [result EXCEPT ![t] = Decided(t)]
      /\ map' = Left(t)
      /\ poisoned' = (poisoned \/ Decided(t) = "Panic")
  <2>1. CASE MarkReturn(t)
    BY <2>1, <1>1, MarkAnswers
       DEF MarkReturn, Unlock, Finish, Applying, Decided, Left, Outcome, IndInv, TypeOK
  <2>2. CASE MarkPanic(t)
    BY <2>2, <1>1 DEF MarkPanic, Unlock, Finish, Applying, Decided, Left
  <2>3. CASE ContainsReturn(t)
    BY <2>3, <1>1 DEF ContainsReturn, Unlock, Finish, Applying, Decided, Left, IndInv, TypeOK
  <2> QED
    BY <2>1, <2>2, <2>3
<1>3. \A u \in Threads : pc'[u] # "apply"
  BY <1>1, <1>2 DEF IndInv, TypeOK
<1>4. UNCHANGED <<SettledMap, SettledPoison>>
  <2>1. SettledMap = Left(t) /\ ~poisoned /\ SettledPoison = (Decided(t) = "Panic")
    BY <1>1, WhoSettles DEF Settling
  <2>2. IndInv' => Settling'
    BY WhoSettles, PTL
  <2>3. SettledMap' = map' /\ SettledPoison' = poisoned'
    BY <1>3, <2>2 DEF Settling
  <2> QED
    BY <1>2, <2>1, <2>3
<1>5. Answers[t] = Decided(t) /\ Answers' = [Answers EXCEPT ![t] = "none"]
  BY <1>1, <1>3 DEF Answers
<1>6. Decided(t) # "none"
  BY DecidedAnswers
<1>7. NoCall = Atomic!NoCall
  BY DEF NoCall, Atomic!NoCall
<1> QED
  BY <1>1, <1>2, <1>4, <1>5, <1>6, <1>7 DEF Atomic!Return

\* Every step of the store is a step of AtomicStore or invisible to it.
LEMMA AtomicStep ==
  ASSUME IndInv, IndInv', [Next]_vars
  PROVE  [Atomic!Next]_(Atomic!vars)
<1> USE DEF Atomic!vars
<1>0. TypeOK /\ Mutex
  BY DEF IndInv
<1>1. ASSUME NEW t \in Threads, NEW op \in {"mark", "contains"}, NEW j \in Jtis,
             NEW ttl \in Ttls \cup {0}, Invoke(t, op, j, ttl)
      PROVE  Atomic!Invoke(t)
  <2>1. UNCHANGED <<SettledMap, SettledPoison, Answers>>
    BY <1>0, <1>1, Unseen DEF Invoke, TypeOK
  <2> QED
    BY <1>0, <1>1, <2>1 DEF Invoke, Atomic!Invoke, TypeOK, NoCall, Atomic!NoCall
<1>2. ASSUME NEW t \in Threads, Lock(t) PROVE UNCHANGED Atomic!vars
  <2>1. \A u \in Threads : pc[u] # "apply" /\ pc'[u] # "apply"
    BY <1>0, <1>2, StoreAssumptions DEF Lock, Mutex, TypeOK
  <2>2. Settling /\ (IndInv' => Settling')
    BY WhoSettles, PTL
  <2> QED
    BY <1>2, <2>1, <2>2 DEF Lock, Settling, Answers
<1>3. ASSUME NEW t \in Threads, LockPoisoned(t) PROVE Atomic!Return(t)
  <2>1. UNCHANGED <<SettledMap, SettledPoison, Answers>>
    BY <1>0, <1>3, Unseen DEF LockPoisoned, Finish, TypeOK
  <2>2. Answers[t] = "none" /\ [Answers EXCEPT ![t] = "none"] = Answers /\ SettledPoison
    BY <1>3 DEF Answers, SettledPoison, LockPoisoned
  <2>3. call[t] # NoCall
    BY <1>0, <1>3 DEF LockPoisoned, TypeOK
  <2> QED
    BY <1>3, <2>1, <2>2, <2>3
       DEF LockPoisoned, Finish, Atomic!Return, NoCall, Atomic!NoCall
<1>4. CASE Tick
  <2>1. UNCHANGED <<SettledMap, SettledPoison, Answers>>
    BY <1>0, <1>4, Unseen DEF Tick
  <2> QED
    BY <1>4, <2>1 DEF Tick, Atomic!Tick, Atomic!Next
<1>5. CASE UNCHANGED vars
  <2>1. UNCHANGED <<SettledMap, SettledPoison, Answers>>
    BY <1>0, <1>5, Unseen DEF vars
  <2> QED
    BY <1>5, <2>1 DEF vars
<1>6. ASSUME NEW t \in Threads, Step(t) PROVE [Atomic!Next]_(Atomic!vars)
  BY <1>2, <1>3, <1>6, EffectAtClock, ReturnIsLate DEF Step, Atomic!Next
<1>7. ASSUME NEW t \in Threads, NEW j \in Jtis,
             (\E ttl \in Ttls : Mark(t, j, ttl)) \/ Contains(t, j)
      PROVE  Atomic!Next
  BY <1>1, <1>7 DEF Mark, Contains, Atomic!Next
<1> QED
  BY <1>4, <1>5, <1>6, <1>7 DEF Next

\* The store cannot be told from one without a lock, whose calls take effect at
\* once, at the instant they read the clock: the one step that `ProofReplay` and
\* `Verifier` make of a `mark` is what the locked store does.
THEOREM StoreImplementsAtomicStore == Spec => ImplementsAtomicStore
<1>1. Init => Atomic!Init
  <2> SUFFICES ASSUME Init PROVE Atomic!Init
    OBVIOUS
  <2>1. ~Bound
    BY DEF Init, Bound
  <2> QED
    BY <2>1 DEF Init, Atomic!Init, Atomic!NoCall, NoCall, EmptyMap, Atomic!EmptyMap,
                SettledMap, SettledPoison, Answers
<1>2. IndInv /\ IndInv' /\ [Next]_vars => [Atomic!Next]_(Atomic!vars)
  BY AtomicStep
<1> QED
  BY <1>1, <1>2, Invariant, PTL DEF Spec, ImplementsAtomicStore, Atomic!Spec

-----------------------------------------------------------------------------
(* When the store errs, and that it never gets stuck *)

\* At the time t sampled, max_entries other jtis are still promised.
Full(t) == /\ Applying(t, "mark") /\ granted[call[t].jti] <= at[t]
           /\ Cardinality({j \in Jtis : granted[j] > at[t]}) >= Cap

\* `mark` and `contains` err for two reasons only: a panic has poisoned the
\* mutex, or max_entries OTHER jtis are still promised at the time the call
\* sampled.  Dead entries, however many a flood of marks left behind, never make
\* the store refuse.
THEOREM ErrsOnlyWhenFullOrPoisoned ==
  Spec => [][\A t \in Threads :
               (pc[t] # "idle" /\ pc'[t] = "idle" /\ result'[t] = "Err")
                 => poisoned \/ Full(t)]_vars
<1>1. ASSUME IndInv, [Next]_vars, ~poisoned, NEW t \in Threads,
             pc[t] # "idle", pc'[t] = "idle", result'[t] = "Err"
      PROVE  Full(t)
  <2> USE DEF TypeOK, IndInv
  <2>1. ASSUME NEW u \in Threads, NEW op, NEW j, NEW ttl, Invoke(u, op, j, ttl)
        PROVE  FALSE
    BY <1>1, <2>1 DEF Invoke
  <2>2. ASSUME NEW u \in Threads, Lock(u) \/ ReadClock(u) \/ LockPoisoned(u) PROVE FALSE
    BY <1>1, <2>2 DEF Lock, ReadClock, LockPoisoned
  <2>3. ASSUME NEW u \in Threads, MarkPanic(u) \/ ContainsReturn(u) PROVE FALSE
    BY <1>1, <2>3 DEF MarkPanic, ContainsReturn, Unlock, Finish
  <2>4. ASSUME NEW u \in Threads, MarkReturn(u) PROVE Full(t)
    <3>1. u = t /\ Applying(t, "mark") /\ Outcome(t) = "Err"
      BY <1>1, <2>4 DEF MarkReturn, Unlock, Finish
    <3>2. Cardinality(Abstract!Running(at[t])) >= Cap
      BY <1>1, <3>1, CapsAgree
    <3>3. Abstract!Running(at[t]) = {j \in Jtis : granted[j] > at[t]}
      BY DEF Abstract!Running
    <3>4. ~IsLive(map, call[t].jti, at[t])
      BY <3>1 DEF Outcome, MarkOutcome
    <3>5. /\ granted[call[t].jti] \in Nat /\ at[t] \in Nat
          /\ IsLive(map, call[t].jti, at[t]) <=> granted[call[t].jti] > at[t]
      BY <1>1, <3>1, TimelyCall DEF Applying
    <3>6. granted[call[t].jti] <= at[t]
      BY <3>4, <3>5
    <3> QED
      BY <3>1, <3>2, <3>3, <3>6 DEF Full
  <2>5. ~Tick /\ ~UNCHANGED vars
    BY <1>1 DEF Tick, vars
  <2> QED
    BY <1>1, <2>1, <2>2, <2>3, <2>4, <2>5 DEF Next, Step, Mark, Contains
<1>2. IndInv /\ [Next]_vars =>
        \A t \in Threads :
          (pc[t] # "idle" /\ pc'[t] = "idle" /\ result'[t] = "Err")
            => poisoned \/ Full(t)
  BY <1>1
<1> QED
  BY <1>2, Invariant, PTL DEF Spec

\* What is past the last Instant stays past it.
LEMMA Later ==
  ASSUME NEW n \in Nat, NEW n1 \in Nat, n1 >= n, NEW d \in Nat, NEW m \in Nat, n + d > m
  PROVE  n1 + d > m
OBVIOUS

\* The mutex is poisoned only after a caller has passed a TTL that reaches past
\* the last representable Instant: in a deployment whose TTLs fit, the in-memory
\* store's other source of errors does not exist.
THEOREM PoisonedOnlyByOverflow ==
  Spec => [](poisoned => \E ttl \in Ttls : now + ttl > MaxInstant)
<1> DEFINE Cause == poisoned => \E ttl \in Ttls : now + ttl > MaxInstant
<1>1. Init => Cause
  BY DEF Init
<1>2. ASSUME IndInv, Cause, [Next]_vars PROVE Cause'
  <2>1. now \in Nat /\ now' \in Nat /\ now' >= now /\ MaxInstant \in Nat /\ Ttls \subseteq Nat
    BY <1>2, StoreAssumptions DEF IndInv, TypeOK, Next, Step, Mark, Contains, Invoke, Lock,
       LockPoisoned, ReadClock, MarkReturn, MarkPanic, ContainsReturn, Unlock, Tick, vars
  <2>2. CASE poisoned
    <3>1. PICK ttl \in Ttls : now + ttl > MaxInstant
      BY <1>2, <2>2
    <3>2. ttl \in Nat
      BY <2>1
    <3>3. now' + ttl > MaxInstant
      BY <2>1, <3>1, <3>2, Later
    <3> QED
      BY <3>3
  <2>3. CASE ~poisoned /\ poisoned'
    <3>1. PICK t \in Threads : MarkPanic(t)
      BY <1>2, <2>3 DEF Next, Step, Mark, Contains, Invoke, Lock, LockPoisoned, ReadClock,
         MarkReturn, ContainsReturn, Tick, vars
    <3>2. /\ pc[t] = "apply" /\ call[t].ttl > 0 /\ at[t] + call[t].ttl > MaxInstant
          /\ now' = now
      BY <3>1 DEF MarkPanic, Applying, Overflows, Records, Unlock
    <3>3. call[t].ttl \in Ttls /\ call[t].ttl \in Nat
      <4>1. call[t] \in Calls /\ call[t].ttl \in Nat
        BY <1>2, <3>2, CallInProgress DEF IndInv
      <4>2. call[t].ttl \in Ttls \cup {0}
        BY <4>1 DEF Calls
      <4> QED
        BY <3>2, <4>1, <4>2
    <3>4. at[t] \in Nat /\ at[t] <= now
      BY <1>2, <3>2 DEF IndInv, TypeOK, Sampled
    <3>5. now' + call[t].ttl > MaxInstant
      BY <2>1, <3>2, <3>3, <3>4
    <3> QED
      BY <3>3, <3>5
  <2>4. CASE ~poisoned'
    BY <2>4
  <2> QED
    BY <2>2, <2>3, <2>4
<1> HIDE DEF Cause
<1>3. Spec => []Cause
  BY <1>1, <1>2, Invariant, PTL DEF Spec
<1> QED
  BY <1>3 DEF Cause

\* The guards of the steps of a call: what lets t go on now.
CanGoOn(t) ==
  \/ pc[t] = "lock" /\ holder = NoThread
  \/ pc[t] = "clock"
  \/ Applying(t, "mark") \/ Applying(t, "contains")

\* Nobody waits for a lock that nobody will give back: a call in the store can go
\* on now, or the lock it waits for is held by another call that can, also
\* after a panic under the lock.  (The safety half of StarvedOnlyByProgress.)
THEOREM LockNeverLost ==
  Spec => [](\A t \in Threads : pc[t] # "idle" =>
               \/ CanGoOn(t)
               \/ /\ pc[t] = "lock" /\ ~poisoned
                  /\ \E u \in Threads \ {t} : holder = u /\ CanGoOn(u))
<1> DEFINE Unblocked == \A t \in Threads : pc[t] # "idle" =>
             \/ CanGoOn(t)
             \/ /\ pc[t] = "lock" /\ ~poisoned
                /\ \E u \in Threads \ {t} : holder = u /\ CanGoOn(u)
<1>1. IndInv => Unblocked
  <2> SUFFICES ASSUME IndInv, NEW t \in Threads, pc[t] # "idle", ~CanGoOn(t)
               PROVE  /\ pc[t] = "lock" /\ ~poisoned
                      /\ \E u \in Threads \ {t} : holder = u /\ CanGoOn(u)
    OBVIOUS
  <2>1. ASSUME NEW u \in Threads, pc[u] \in {"clock", "apply"} PROVE CanGoOn(u)
    BY <2>1, CallInProgress DEF IndInv, CanGoOn, Applying
  <2>2. pc[t] = "lock" /\ holder # NoThread
    BY <2>1 DEF IndInv, TypeOK, CanGoOn
  <2>3. holder \in Threads /\ pc[holder] \in {"clock", "apply"} /\ ~poisoned
    BY <2>2 DEF IndInv, TypeOK, Mutex
  <2>4. holder # t
    BY <2>2, <2>3
  <2> QED
    BY <2>1, <2>2, <2>3, <2>4
<1> HIDE DEF Unblocked
<1>2. Spec => []Unblocked
  BY <1>1, Invariant, PTL
<1> QED
  BY <1>2 DEF Unblocked
=============================================================================
