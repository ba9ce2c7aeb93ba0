------------------------------- MODULE TtlSet -------------------------------
(***************************************************************************)
(* What a `ReplayStore` promises its callers, without a map, a lock or     *)
(* garbage collection: a set of promises `jti -> instant until which the   *)
(* jti is a replay`.  A call takes effect in one step, on a timestamp that *)
(* lies inside the call and is never older than that of an earlier call.   *)
(* `Cap` bounds the promises still running, not what a store happens to    *)
(* keep in memory.                                                         *)
(***************************************************************************)
EXTENDS Integers, FiniteSets

CONSTANTS Threads, Jtis, Ttls, Cap, MaxInstant, MaxTime

VARIABLES now,      \* the monotonic clock
          last,     \* timestamp of the latest effect
          promise,  \* promise[j]: j is a replay before this instant
          broken,   \* a panic inside a call has poisoned the store
          pending,  \* the call each thread is in
          result    \* what each thread's latest call returned

vars == <<now, last, promise, broken, pending, result>>

NoCall == [op |-> "none"]

Running(at) == {j \in Jtis : promise[j] > at}

Init ==
  /\ now = 0 /\ last = 0
  /\ promise = [j \in Jtis |-> 0]
  /\ broken = FALSE
  /\ pending = [t \in Threads |-> NoCall]
  /\ result = [t \in Threads |-> "none"]

Invoke(t) ==
  /\ pending[t] = NoCall
  /\ \E op \in {"mark", "contains"}, j \in Jtis, ttl \in Ttls \cup {0} :
       pending' = [pending EXCEPT
                     ![t] = [op |-> op, jti |-> j, ttl |-> ttl, since |-> now]]
  /\ result' = [result EXCEPT ![t] = "none"]
  /\ UNCHANGED <<now, last, promise, broken>>

Return(t, r) ==
  /\ pending' = [pending EXCEPT ![t] = NoCall]
  /\ result' = [result EXCEPT ![t] = r]

\* A call whose effect is stamped `at`.
Timely(t, at) == at \in pending[t].since .. now /\ at >= last

Contains(t, at) ==
  /\ pending[t].op = "contains" /\ ~broken /\ Timely(t, at)
  /\ Return(t, IF promise[pending[t].jti] > at THEN "Yes" ELSE "No")
  /\ last' = at
  /\ UNCHANGED <<now, promise, broken>>

MarkReplay(t, at) ==
  /\ pending[t].op = "mark" /\ ~broken /\ Timely(t, at)
  /\ promise[pending[t].jti] > at
  /\ Return(t, "Replay")
  /\ last' = at
  /\ UNCHANGED <<now, promise, broken>>

\* Refused exactly when Cap OTHER jtis are still promised.
MarkRefused(t, at) ==
  /\ pending[t].op = "mark" /\ ~broken /\ Timely(t, at)
  /\ promise[pending[t].jti] <= at /\ pending[t].ttl > 0
  /\ Cardinality(Running(at)) >= Cap
  /\ Return(t, "Err")
  /\ last' = at
  /\ UNCHANGED <<now, promise, broken>>

MarkNew(t, at) ==
  /\ pending[t].op = "mark" /\ ~broken /\ Timely(t, at)
  /\ promise[pending[t].jti] <= at
  /\ pending[t].ttl > 0 => /\ Cardinality(Running(at)) < Cap
                           /\ at + pending[t].ttl <= MaxInstant
  /\ Return(t, "New")
  /\ promise' = IF pending[t].ttl > 0
                  THEN [promise EXCEPT ![pending[t].jti] = at + pending[t].ttl]
                  ELSE promise
  /\ last' = at
  /\ UNCHANGED <<now, broken>>

\* The promise is not representable: the call dies and breaks the store.
MarkPanic(t, at) ==
  /\ pending[t].op = "mark" /\ ~broken /\ Timely(t, at)
  /\ promise[pending[t].jti] <= at /\ pending[t].ttl > 0
  /\ Cardinality(Running(at)) < Cap
  /\ at + pending[t].ttl > MaxInstant
  /\ Return(t, "Panic")
  /\ broken' = TRUE
  /\ last' = at
  /\ UNCHANGED <<now, promise>>

\* A broken store answers every call with an error and promises nothing new.
Fail(t) ==
  /\ pending[t] # NoCall /\ broken
  /\ Return(t, "Err")
  /\ UNCHANGED <<now, last, promise, broken>>

Tick ==
  /\ now < MaxTime
  /\ now' = now + 1
  /\ UNCHANGED <<last, promise, broken, pending, result>>

Effect(t, at) == \/ Contains(t, at) \/ MarkReplay(t, at) \/ MarkRefused(t, at)
                 \/ MarkNew(t, at) \/ MarkPanic(t, at)

Next == \/ \E t \in Threads : Invoke(t) \/ Fail(t)
        \/ \E t \in Threads, at \in 0 .. MaxTime : Effect(t, at)
        \/ Tick

Spec == Init /\ [][Next]_vars
=============================================================================
