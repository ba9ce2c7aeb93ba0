----------------------------- MODULE DnsResolver -----------------------------
(***************************************************************************)
(* `SystemResolver`: one thread with its own runtime, a channel of jobs to *)
(* it, one task per job and one reply channel per job.  Callers block in   *)
(* `resolve_host`, without a timeout, until their reply channel has a      *)
(* reply or has no sender any more.                                        *)
(***************************************************************************)
EXTENDS Integers, Sequences

CONSTANTS Callers,  \* threads that call `resolve_host`
          Hosts,    \* names they ask for
          Slow,     \* those whose lookup may never end
          None      \* no host

ASSUME ResolverAssumptions == Slow \subseteq Hosts /\ None \notin Hosts

Jobs == [caller : Callers, host : Hosts]

\* What comes out of a reply channel: the records of a host or the lookup's
\* error; a failure when its sender was dropped; so far nothing.
Answers == [kind : {"records", "error"}, host : Hosts]
Failed == [kind |-> "failed", host |-> None]
Nothing == [kind |-> "nothing", host |-> None]

VARIABLES handle,   \* the SystemResolver: "none", "new" (in `new()`), "live", "dropped"
          thread,   \* the thread: "none", "init", "ready", "failed", "serving", "gone"
          queue,    \* the job channel
          tasks,    \* spawned tasks that have not ended
          pc,       \* "idle", or "wait" for a reply
          asked,    \* the host a caller asks, or asked last
          reply,    \* the caller's reply channel: Nothing yet, an answer, or Failed:
                    \* empty with its sender dropped
          got       \* what the caller's latest call returned

vars == <<handle, thread, queue, tasks, pc, asked, reply, got>>
callers == <<pc, asked, got>>

Init ==
  /\ handle = "none" /\ thread = "none"
  /\ queue = <<>> /\ tasks = {}
  /\ pc = [c \in Callers |-> "idle"]
  /\ asked = [c \in Callers |-> None]
  /\ reply = [c \in Callers |-> Nothing]
  /\ got = [c \in Callers |-> Nothing]

-----------------------------------------------------------------------------
(* Construction *)

\* `new()` spawns the thread; when that fails it returns the error at once.
New ==
  /\ handle \in {"none", "dropped"} /\ thread \in {"none", "gone"}
  /\ handle' = "new" /\ thread' = "init"
  /\ UNCHANGED <<queue, tasks, callers, reply>>

\* The thread has its runtime and a resolver, the fallback one if need be, ...
InitSucceeds ==
  /\ thread = "init"
  /\ thread' = "ready"
  /\ UNCHANGED <<handle, queue, tasks, callers, reply>>

\* ... or says it has none, or panics.
InitFails ==
  /\ thread = "init"
  /\ thread' = "failed"
  /\ UNCHANGED <<handle, queue, tasks, callers, reply>>

\* Bug variant of NewReturns: the first lookup may find out.
NewReturns_unchecked ==
  /\ handle = "new" /\ thread # "init"
  /\ handle' = "live"
  /\ thread' = IF thread = "ready" THEN "serving" ELSE "failed"
  /\ UNCHANGED <<queue, tasks, callers, reply>>

\* `new()` receives the report, and hands out a resolver or the error.
NewReturns ==
  /\ handle = "new" /\ thread \in {"ready", "failed"}
  /\ IF thread = "ready" THEN handle' = "live" /\ thread' = "serving"
                         ELSE handle' = "none" /\ thread' = "none"
  /\ UNCHANGED <<queue, tasks, callers, reply>>

-----------------------------------------------------------------------------
(* Callers *)

\* `resolve_host(h)`: the job is sent, ...
ResolveHost(c, h) ==
  /\ handle = "live" /\ pc[c] = "idle" /\ thread = "serving"
  /\ queue' = Append(queue, [caller |-> c, host |-> h])
  /\ pc' = [pc EXCEPT ![c] = "wait"]
  /\ asked' = [asked EXCEPT ![c] = h]
  /\ reply' = [reply EXCEPT ![c] = Nothing]
  /\ got' = [got EXCEPT ![c] = Nothing]
  /\ UNCHANGED <<handle, thread, tasks>>

\* ... or cannot be: the receiver is gone.
SendFails(c, h) ==
  /\ handle = "live" /\ pc[c] = "idle" /\ thread = "gone"
  /\ asked' = [asked EXCEPT ![c] = h]
  /\ got' = [got EXCEPT ![c] = Failed]
  /\ UNCHANGED <<handle, thread, queue, tasks, pc, reply>>

\* Bug variant of Recv: after a dropped sender the caller just tries again.
Recv_spins(c) ==
  /\ pc[c] = "wait" /\ reply[c] # Nothing
  /\ IF reply[c] = Failed THEN UNCHANGED <<pc, got, reply>>
     ELSE /\ pc' = [pc EXCEPT ![c] = "idle"]
          /\ got' = [got EXCEPT ![c] = reply[c]]
          /\ reply' = [reply EXCEPT ![c] = Nothing]
  /\ UNCHANGED <<handle, thread, queue, tasks, asked>>

\* `recv()` returns the reply, or an error when the sender was dropped.
Recv(c) ==
  /\ pc[c] = "wait" /\ reply[c] # Nothing
  /\ pc' = [pc EXCEPT ![c] = "idle"]
  /\ got' = [got EXCEPT ![c] = reply[c]]
  /\ reply' = [reply EXCEPT ![c] = Nothing]
  /\ UNCHANGED <<handle, thread, queue, tasks, asked>>

-----------------------------------------------------------------------------
(* The resolver thread *)

\* Bug variant of Dispatch: the loop awaits each lookup before the next.
Dispatch_serial ==
  /\ thread = "serving" /\ queue # <<>> /\ tasks = {}
  /\ tasks' = tasks \cup {Head(queue)}
  /\ queue' = Tail(queue)
  /\ UNCHANGED <<handle, thread, callers, reply>>

\* `run_resolver_loop`: the next job becomes a task of its own.
Dispatch ==
  /\ thread = "serving" /\ queue # <<>>
  /\ tasks' = tasks \cup {Head(queue)}
  /\ queue' = Tail(queue)
  /\ UNCHANGED <<handle, thread, callers, reply>>

\* Bug variant of Complete: the tasks share the variable that holds the host.
Complete_sharesHost(j) ==
  /\ thread = "serving" /\ j \in tasks
  /\ \E k \in tasks :
       reply' = [reply EXCEPT ![j.caller] = [kind |-> "records", host |-> k.host]]
  /\ tasks' = tasks \ {j}
  /\ UNCHANGED <<handle, thread, queue, callers>>

\* A task's lookup ends, and its result goes to the job's own reply channel.
Complete(j) ==
  /\ thread = "serving" /\ j \in tasks
  /\ \E kind \in {"records", "error"} :
       reply' = [reply EXCEPT ![j.caller] = [kind |-> kind, host |-> j.host]]
  /\ tasks' = tasks \ {j}
  /\ UNCHANGED <<handle, thread, queue, callers>>

\* Bug variant of TaskPanics: the sender outlives the task.
TaskPanics_leaks(j) ==
  /\ thread = "serving" /\ j \in tasks
  /\ tasks' = tasks \ {j}
  /\ UNCHANGED <<handle, thread, queue, callers, reply>>

\* A task panics in the DNS library: the runtime drops it, and its sender.
TaskPanics(j) ==
  /\ thread = "serving" /\ j \in tasks
  /\ reply' = [reply EXCEPT ![j.caller] = Failed]
  /\ tasks' = tasks \ {j}
  /\ UNCHANGED <<handle, thread, queue, callers>>

\* The jobs and the tasks that own the sender of a caller's reply channel.
Queued(c) == {i \in DOMAIN queue : queue[i].caller = c}
Running(c) == {j \in tasks : j.caller = c}

\* The runtime and the receiver are dropped, with every task and job in them
\* and the reply senders those own.
Teardown ==
  /\ thread' = "gone"
  /\ reply' = [c \in Callers |->
                 IF Queued(c) # {} \/ Running(c) # {} THEN Failed ELSE reply[c]]
  /\ tasks' = {} /\ queue' = <<>>
  /\ UNCHANGED <<handle, callers>>

\* Bug variant of DropHandle: a resolver may go while calls are in progress.
DropHandle_inUse ==
  /\ handle = "live"
  /\ handle' = "dropped"
  /\ UNCHANGED <<thread, queue, tasks, callers, reply>>

\* The SystemResolver is dropped; a call in progress borrows it.
DropHandle ==
  /\ handle = "live" /\ \A c \in Callers : pc[c] = "idle"
  /\ handle' = "dropped"
  /\ UNCHANGED <<thread, queue, tasks, callers, reply>>

\* The channel is closed and empty: the loop ends, and so does the thread.
LoopEnds ==
  /\ thread = "serving" /\ handle = "dropped" /\ queue = <<>>
  /\ Teardown

\* External: the thread dies (a panic outside any task).
ThreadDies == thread = "serving" /\ Teardown

Lookup(c) == \E j \in tasks : j.caller = c /\ Complete(j)

Next ==
  \/ New \/ InitSucceeds \/ InitFails \/ NewReturns
  \/ \E c \in Callers, h \in Hosts : ResolveHost(c, h) \/ SendFails(c, h)
  \/ \E c \in Callers : Recv(c)
  \/ Dispatch
  \/ \E j \in Jobs : Complete(j) \/ TaskPanics(j)
  \/ DropHandle \/ LoopEnds \/ ThreadDies

Spec == Init /\ [][Next]_vars

\* The runtime keeps polling its loop and its tasks, and callers that can go on
\* do; the lookup of a slow host owes nothing.
FairSpec ==
  /\ Spec
  /\ WF_vars(Dispatch) /\ WF_vars(LoopEnds)
  /\ \A c \in Callers :
       /\ WF_vars(Recv(c))
       /\ WF_vars(asked[c] \notin Slow /\ Lookup(c))

-----------------------------------------------------------------------------
\* Every variable stays in its type.
TypeOK ==
  /\ handle \in {"none", "new", "live", "dropped"}
  /\ thread \in {"none", "init", "ready", "failed", "serving", "gone"}
  /\ handle \in {"live", "dropped"} => thread \in {"serving", "gone"}
  /\ queue \in Seq(Jobs)
  /\ tasks \subseteq Jobs
  /\ pc \in [Callers -> {"idle", "wait"}]
  /\ asked \in [Callers -> Hosts \cup {None}]
  /\ reply \in [Callers -> Answers \cup {Nothing, Failed}]
  /\ got \in [Callers -> Answers \cup {Nothing, Failed}]

\* However the lookups of several callers overlap and in whatever order they
\* end, a call returns records of the host it asked for.
OwnAnswer == \A c \in Callers : got[c] \in Answers => got[c].host = asked[c]

\* Nobody blocks on a channel that nothing can come out of, and no reply is
\* left over for a later call: a caller waits for exactly one job, task or reply.
ExactlyOneReply ==
  \A c \in Callers :
    /\ pc[c] = "wait" <=> (Queued(c) # {} \/ Running(c) # {} \/ reply[c] # Nothing)
    /\ Queued(c) # {} => Running(c) = {} /\ reply[c] = Nothing
    /\ Running(c) # {} => reply[c] = Nothing
    /\ \A i, k \in Queued(c) : i = k
    /\ \A j, k \in Running(c) : j = k

\* The resolver is only dropped when nobody uses it, so that the tasks the
\* runtime's end cancels have nobody waiting for them.
ShutdownCancelsNothing ==
  [][LoopEnds => tasks = {} /\ reply' = reply]_vars

\* A slow lookup holds up no other: whoever asks for a host that resolves is
\* answered, though every other lookup may never end.
NoHeadOfLineBlocking ==
  \A c \in Callers : (pc[c] = "wait" /\ asked[c] \notin Slow) ~> pc[c] = "idle"

\* When the thread is gone every caller is released.
ReleasedWhenGone ==
  \A c \in Callers : (pc[c] = "wait" /\ thread = "gone") ~> pc[c] = "idle"
=============================================================================
