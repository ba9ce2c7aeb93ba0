----------------------------- MODULE ReplayStore -----------------------------
(***************************************************************************)
(* `InMemoryReplayStore`: any number of threads calling `mark` and         *)
(* `contains` on one mutex-guarded map.  A call takes the lock, THEN reads *)
(* the clock, then reads or updates the map and drops the lock on return.  *)
(* The clock runs on between any two of these steps.                       *)
(***************************************************************************)
EXTENDS ReplayMap

CONSTANTS Threads,     \* callers sharing the store
          NoThread,    \* "the mutex is free"
          Jtis,        \* jti strings
          Ttls,        \* the TTLs callers pass, in clock ticks (0 allowed)
          Cap,         \* max_entries
          MaxInstant,  \* last representable Instant: `now + ttl` beyond panics
          MaxTime      \* bound: the clock stops here

ASSUME StoreAssumptions ==
  /\ NoThread \notin Threads
  /\ IsFiniteSet(Jtis)
  /\ Ttls \subseteq Nat
  /\ Cap \in Nat /\ MaxInstant \in Nat /\ MaxTime \in Nat

VARIABLES map,       \* inner: jti -> expiry
          holder,    \* the thread inside the critical section
          poisoned,  \* the mutex was poisoned by a panic under the lock
          now,       \* the monotonic clock
          pc,        \* where each thread is
          call,      \* the arguments of each thread's call
          at,        \* the clock value each thread sampled under the lock
          result,    \* what each thread's latest call returned
          granted,   \* history: expiry of the latest recording of each jti
          last       \* history: timestamp of the latest call to take effect

vars == <<map, holder, poisoned, now, pc, call, at, result, granted, last>>

NoCall == [op |-> "none"]

Calls == [op : {"mark", "contains"}, jti : Jtis, ttl : Ttls \cup {0}, since : Nat]

Results == {"none", "New", "Replay", "Err", "Panic", "Yes", "No"}

Init ==
  /\ map = EmptyMap
  /\ holder = NoThread
  /\ poisoned = FALSE
  /\ now = 0
  /\ pc = [t \in Threads |-> "idle"]
  /\ call = [t \in Threads |-> NoCall]
  /\ at = [t \in Threads |-> 0]
  /\ result = [t \in Threads |-> "none"]
  /\ granted = [j \in Jtis |-> 0]
  /\ last = 0

-----------------------------------------------------------------------------
\* A caller enters the store and queues for the mutex.  `since` is history:
\* when the call began.
Invoke(t, op, jti, ttl) ==
  /\ pc[t] = "idle"
  /\ pc' = [pc EXCEPT ![t] = "lock"]
  /\ call' = [call EXCEPT
                ![t] = [op |-> op, jti |-> jti, ttl |-> ttl, since |-> now]]
  /\ result' = [result EXCEPT ![t] = "none"]
  /\ UNCHANGED <<map, holder, poisoned, now, at, granted, last>>

\* `mark(jti, ttl)` and `contains(jti)`
Mark(t, jti, ttl) == Invoke(t, "mark", jti, ttl)
Contains(t, jti) == Invoke(t, "contains", jti, 0)

\* Bug variants of Lock: two threads inside at once; poison ignored.
Lock_shared(t) ==
  /\ pc[t] = "lock" /\ ~poisoned
  /\ holder' = t
  /\ pc' = [pc EXCEPT ![t] = "clock"]
  /\ UNCHANGED <<map, poisoned, now, call, at, result, granted, last>>

Lock_ignoresPoison(t) ==
  /\ pc[t] = "lock" /\ holder = NoThread
  /\ holder' = t
  /\ pc' = [pc EXCEPT ![t] = "clock"]
  /\ UNCHANGED <<map, poisoned, now, call, at, result, granted, last>>

\* `self.inner.lock()` succeeds.
Lock(t) ==
  /\ pc[t] = "lock" /\ holder = NoThread /\ ~poisoned
  /\ holder' = t
  /\ pc' = [pc EXCEPT ![t] = "clock"]
  /\ UNCHANGED <<map, poisoned, now, call, at, result, granted, last>>

\* Bug variant of Finish: the finished call is not cleared.
Finish_keepsCall(t, r) ==
  /\ pc' = [pc EXCEPT ![t] = "idle"]
  /\ result' = [result EXCEPT ![t] = r]
  /\ UNCHANGED call

\* The call ends with answer r.
Finish(t, r) ==
  /\ pc' = [pc EXCEPT ![t] = "idle"]
  /\ call' = [call EXCEPT ![t] = NoCall]
  /\ result' = [result EXCEPT ![t] = r]

\* `self.inner.lock()` meets a poisoned mutex: `map_err(...)?`.
LockPoisoned(t) ==
  /\ pc[t] = "lock" /\ holder = NoThread /\ poisoned
  /\ Finish(t, "Err")
  /\ UNCHANGED <<map, holder, poisoned, now, at, granted, last>>

\* `let now = self.clock.now()`, after the lock.
ReadClock(t) ==
  /\ pc[t] = "clock"
  /\ at' = [at EXCEPT ![t] = now]
  /\ pc' = [pc EXCEPT ![t] = "apply"]
  /\ UNCHANGED <<map, holder, poisoned, now, call, result, granted, last>>

\* Leaving the critical section: the guard is dropped.
Unlock(t, r) ==
  /\ Finish(t, r)
  /\ holder' = NoThread
  /\ last' = at[t]
  /\ at' = [at EXCEPT ![t] = 0]
  /\ UNCHANGED now

\* The thread is past `clock.now()` in a call of kind op.
Applying(t, op) == pc[t] = "apply" /\ call[t].op = op

Outcome(t) == MarkOutcome(map, call[t].jti, call[t].ttl, at[t], Cap)

\* The mark is about to record its jti.
Records(t) == Outcome(t) = "New" /\ call[t].ttl > 0

\* `now + ttl` has no representation: the addition panics under the lock.
Overflows(t) == Records(t) /\ at[t] + call[t].ttl > MaxInstant

\* The rest of `mark`: check, sweep, insert, return.
MarkReturn(t) ==
  /\ Applying(t, "mark") /\ ~Overflows(t)
  /\ map' = MarkedMap(map, call[t].jti, call[t].ttl, at[t], Cap)
  /\ granted' = IF Records(t)
                  THEN [granted EXCEPT ![call[t].jti] = at[t] + call[t].ttl]
                  ELSE granted
  /\ Unlock(t, Outcome(t))
  /\ UNCHANGED poisoned

\* Bug variant of MarkPanic: the lock is never given back.
MarkPanic_keepsLock(t) ==
  /\ Applying(t, "mark") /\ Overflows(t)
  /\ map' = Swept(map, call[t].jti, call[t].ttl, at[t], Cap)
  /\ poisoned' = TRUE
  /\ Finish(t, "Panic")
  /\ UNCHANGED <<holder, now, at, granted, last>>

\* The sweep may have happened; the insertion has not.
MarkPanic(t) ==
  /\ Applying(t, "mark") /\ Overflows(t)
  /\ map' = Swept(map, call[t].jti, call[t].ttl, at[t], Cap)
  /\ poisoned' = TRUE
  /\ Unlock(t, "Panic")
  /\ UNCHANGED granted

\* The rest of `contains`.
ContainsReturn(t) ==
  /\ Applying(t, "contains")
  /\ Unlock(t, IF IsLive(map, call[t].jti, at[t]) THEN "Yes" ELSE "No")
  /\ UNCHANGED <<map, poisoned, granted>>

\* Time passes.
Tick ==
  /\ now < MaxTime
  /\ now' = now + 1
  /\ UNCHANGED <<map, holder, poisoned, pc, call, at, result, granted, last>>

Step(t) == \/ Lock(t) \/ LockPoisoned(t) \/ ReadClock(t)
           \/ MarkReturn(t) \/ MarkPanic(t) \/ ContainsReturn(t)

Next == \/ \E t \in Threads, j \in Jtis :
             \/ \E ttl \in Ttls : Mark(t, j, ttl)
             \/ Contains(t, j)
        \/ \E t \in Threads : Step(t)
        \/ Tick

Spec == Init /\ [][Next]_vars

\* The OS keeps running every runnable thread.  Weak fairness only: a
\* `std::sync::Mutex` makes no promise to any one waiter.
FairSpec == Spec /\ \A t \in Threads : WF_vars(Step(t))

-----------------------------------------------------------------------------
\* Every variable stays in its type.
TypeOK ==
  /\ DOMAIN map \subseteq Jtis /\ \A j \in DOMAIN map : map[j] \in Nat
  /\ holder \in Threads \cup {NoThread}
  /\ poisoned \in BOOLEAN
  /\ now \in Nat
  /\ pc \in [Threads -> {"idle", "lock", "clock", "apply"}]
  /\ call \in [Threads -> Calls \cup {NoCall}]
  /\ \A t \in Threads : call[t] = NoCall <=> pc[t] = "idle"
  /\ at \in [Threads -> Nat]
  /\ result \in [Threads -> Results]
  /\ granted \in [Jtis -> Nat]
  /\ last \in Nat

\* "Never evicts a live jti": once a mark has recorded a jti, the map holds
\* it, with the expiry it was given, until that expiry has passed, whatever
\* the other threads mark, sweep or probe in between.
NeverEvictsLive ==
  \A j \in Jtis : granted[j] > now => j \in DOMAIN map /\ map[j] = granted[j]

\* "Capped at max_entries": no sequence of marks, racing or not, makes the
\* map (live and dead entries together) larger than the cap.
WithinCapacity == Cardinality(DOMAIN map) <= Cap

\* The check-and-set is atomic: of all the marks of one jti, concurrent ones
\* included, a second New comes only once the first recording has run out.
OneNewPerWindow ==
  [][\A t \in Threads :
       /\ Applying(t, "mark") /\ pc'[t] = "idle" /\ result'[t] = "New"
       => granted[call[t].jti] <= at[t]]_vars

\* A poisoned mutex fails closed for good: after a panic under the lock no
\* mark is ever answered New again.
PoisonFailsClosed ==
  [][poisoned => \A t \in Threads :
       (pc[t] # "idle" /\ pc'[t] = "idle") => result'[t] = "Err"]_vars

\* Lazy pruning, the lock and the order of its steps are invisible: the
\* store implements the atomic set of promises of TtlSet.
Abstract == INSTANCE TtlSet WITH promise <- granted, broken <- poisoned,
                                 pending <- call

ImplementsTtlSet == Abstract!Spec

\* What t's call, its clock read, is bound to answer and to leave behind.
Decided(t) ==
  IF call[t].op = "contains" THEN IF IsLive(map, call[t].jti, at[t]) THEN "Yes" ELSE "No"
  ELSE IF Overflows(t) THEN "Panic" ELSE Outcome(t)

Left(t) ==
  IF call[t].op = "contains" THEN map
  ELSE IF Overflows(t) THEN Swept(map, call[t].jti, call[t].ttl, at[t], Cap)
  ELSE MarkedMap(map, call[t].jti, call[t].ttl, at[t], Cap)

\* A thread is past the clock, and nobody can come between it and its effect.
Bound == holder \in Threads /\ pc[holder] = "apply"

\* The store as it will be when that thread has left.
SettledMap == IF Bound THEN Left(holder) ELSE map
SettledPoison == poisoned \/ (Bound /\ Decided(holder) = "Panic")
Answers == [t \in Threads |-> IF pc[t] = "apply" THEN Decided(t) ELSE "none"]

\* Each call takes effect at once, at the instant it reads the clock: nobody can
\* tell the store from one without a lock whose `mark` is a single step.
Atomic == INSTANCE AtomicStore WITH map <- SettledMap, broken <- SettledPoison,
                                    answer <- Answers

ImplementsAtomicStore == Atomic!Spec

\* No call hangs on a lost lock: a caller stays in the store for ever only if
\* other callers' critical sections keep completing (the unfair mutex may pass
\* one waiter over), also after a panic has poisoned the mutex.
StarvedOnlyByProgress ==
  \A t \in Threads :
    \/ []<>(pc[t] = "idle")
    \/ []<><<\E u \in Threads \ {t} : pc[u] = "apply" /\ pc'[u] = "idle">>_vars

\* replay.rs on ReplayBackendError: "the in-memory implementation never
\* produces one".
NeverErrs == \A t \in Threads : result[t] # "Err"
=============================================================================
