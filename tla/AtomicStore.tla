----------------------------- MODULE AtomicStore -----------------------------
(***************************************************************************)
(* The replay store as `ProofReplay` and `Verifier` use it: a `mark` or    *)
(* `contains` looks at the clock and the map, and changes the map, in one  *)
(* indivisible step somewhere inside the call.  The caller learns the      *)
(* answer later.                                                           *)
(***************************************************************************)
EXTENDS ReplayMap

CONSTANTS Threads, Jtis, Ttls, Cap, MaxInstant, MaxTime

VARIABLES now,     \* the monotonic clock
          map,     \* jti -> expiry
          broken,  \* a panic inside a call has broken the store
          call,    \* the call each thread is in
          answer,  \* what the call will return, once it has taken effect
          result   \* what each thread's latest call returned

vars == <<now, map, broken, call, answer, result>>

NoCall == [op |-> "none"]

Init ==
  /\ now = 0
  /\ map = EmptyMap
  /\ broken = FALSE
  /\ call = [t \in Threads |-> NoCall]
  /\ answer = [t \in Threads |-> "none"]
  /\ result = [t \in Threads |-> "none"]

Invoke(t) ==
  /\ call[t] = NoCall
  /\ \E op \in {"mark", "contains"}, j \in Jtis, ttl \in Ttls \cup {0} :
       call' = [call EXCEPT ![t] = [op |-> op, jti |-> j, ttl |-> ttl, since |-> now]]
  /\ result' = [result EXCEPT ![t] = "none"]
  /\ UNCHANGED <<now, map, broken, answer>>

\* The call of kind op takes effect now, with answer a.
Decide(t, op, a) ==
  /\ call[t].op = op /\ answer[t] = "none" /\ ~broken
  /\ answer' = [answer EXCEPT ![t] = a]
  /\ UNCHANGED <<now, call, result>>

Outcome(t) == MarkOutcome(map, call[t].jti, call[t].ttl, now, Cap)

\* The mark is to record an expiry past the last Instant.
Overflows(t) == /\ Outcome(t) = "New" /\ call[t].ttl > 0
                /\ now + call[t].ttl > MaxInstant

Mark(t) ==
  /\ Decide(t, "mark", Outcome(t))
  /\ ~Overflows(t)
  /\ map' = MarkedMap(map, call[t].jti, call[t].ttl, now, Cap)
  /\ UNCHANGED broken

MarkPanic(t) ==
  /\ Decide(t, "mark", "Panic")
  /\ Overflows(t)
  /\ map' = Swept(map, call[t].jti, call[t].ttl, now, Cap)
  /\ broken' = TRUE

Contains(t) ==
  /\ Decide(t, "contains", IF IsLive(map, call[t].jti, now) THEN "Yes" ELSE "No")
  /\ UNCHANGED <<map, broken>>

\* A call that has taken effect returns its answer; one that has not fails
\* when the store is broken.
Return(t) ==
  /\ call[t] # NoCall
  /\ answer[t] # "none" \/ broken
  /\ result' = [result EXCEPT ![t] = IF answer[t] # "none" THEN answer[t] ELSE "Err"]
  /\ call' = [call EXCEPT ![t] = NoCall]
  /\ answer' = [answer EXCEPT ![t] = "none"]
  /\ UNCHANGED <<now, map, broken>>

Tick ==
  /\ now < MaxTime
  /\ now' = now + 1
  /\ UNCHANGED <<map, broken, call, answer, result>>

Next ==
  \/ \E t \in Threads :
       Invoke(t) \/ Mark(t) \/ MarkPanic(t) \/ Contains(t) \/ Return(t)
  \/ Tick

Spec == Init /\ [][Next]_vars
=============================================================================
