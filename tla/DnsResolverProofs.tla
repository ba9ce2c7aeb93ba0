-------------------------- MODULE DnsResolverProofs --------------------------
(***************************************************************************)
(* The DNS resolver's dispatch, for any number of callers and hosts.       *)
(***************************************************************************)
EXTENDS DnsResolver, SequenceTheorems, TLAPS

\* Whatever is under way for a caller is about the host it asked for.
Own ==
  /\ \A i \in DOMAIN queue : queue[i].host = asked[queue[i].caller]
  /\ \A j \in tasks : j.host = asked[j.caller]
  /\ \A c \in Callers : reply[c] \in Answers => reply[c].host = asked[c]
  /\ OwnAnswer

\* Only a live resolver is used, and only a serving thread holds work.
Used ==
  /\ handle # "live" => \A c \in Callers : pc[c] = "idle"
  /\ thread # "serving" => queue = <<>> /\ tasks = {}

IndInv == TypeOK /\ ExactlyOneReply /\ Own /\ Used

\* ExactlyOneReply, of one caller.
One(c) ==
  /\ pc[c] = "wait" <=> (Queued(c) # {} \/ Running(c) # {} \/ reply[c] # Nothing)
  /\ Queued(c) # {} => Running(c) = {} /\ reply[c] = Nothing
  /\ Running(c) # {} => reply[c] = Nothing
  /\ \A i, k \in Queued(c) : i = k
  /\ \A j, k \in Running(c) : j = k

LEMMA Kinds ==
  /\ Failed # Nothing
  /\ Failed \notin Answers /\ Nothing \notin Answers
  /\ \A k \in {"records", "error"}, h \in Hosts :
       /\ [kind |-> k, host |-> h] \in Answers
       /\ [kind |-> k, host |-> h] # Nothing /\ [kind |-> k, host |-> h] # Failed
BY DEF Failed, Nothing, Answers

LEMMA InitOK == Init => IndInv
<1> SUFFICES ASSUME Init PROVE IndInv
  OBVIOUS
<1> USE DEF Init
<1>1. TypeOK
  BY DEF TypeOK
<1>2. ExactlyOneReply
  <2>1. DOMAIN queue = {} /\ tasks = {}
    OBVIOUS
  <2>2. \A c \in Callers : Queued(c) = {} /\ Running(c) = {}
    <3> HIDE DEF Init
    <3> QED
      BY <2>1 DEF Queued, Running
  <2> QED
    BY <2>2 DEF ExactlyOneReply
<1>3. Own
  BY Kinds DEF Own, OwnAnswer
<1>4. Used
  BY DEF Used
<1> QED
  BY <1>1, <1>2, <1>3, <1>4 DEF IndInv

\* The steps of construction, and the end of the handle, touch no call.
LEMMA HandleOK ==
  ASSUME IndInv, UNCHANGED <<queue, tasks, callers, reply>>,
         New \/ InitSucceeds \/ InitFails \/ NewReturns \/ DropHandle
  PROVE  IndInv'
<1>1. TypeOK'
  BY DEF IndInv, TypeOK, callers, New, InitSucceeds, InitFails, NewReturns, DropHandle
<1>2. ExactlyOneReply'
  BY DEF IndInv, ExactlyOneReply, Queued, Running, callers
<1>3. Own'
  BY DEF IndInv, Own, OwnAnswer, callers
<1>4. Used'
  BY DEF IndInv, Used, callers, TypeOK, New, InitSucceeds, InitFails, NewReturns, DropHandle
<1> QED
  BY <1>1, <1>2, <1>3, <1>4 DEF IndInv

LEMMA InRange ==
  ASSUME NEW S, NEW s \in Seq(S), NEW i \in DOMAIN s
  PROVE  s[i] \in S
BY LenProperties

LEMMA AppendFacts ==
  ASSUME NEW S, NEW q \in Seq(S), NEW e \in S
  PROVE  /\ Append(q, e) \in Seq(S)
         /\ DOMAIN Append(q, e) = DOMAIN q \cup {Len(q) + 1}
         /\ Len(q) + 1 \notin DOMAIN q
         /\ \A i \in DOMAIN q : Append(q, e)[i] = q[i]
         /\ Append(q, e)[Len(q) + 1] = e
<1>1. Len(q) \in Nat /\ DOMAIN q = 1 .. Len(q)
  BY LenProperties
<1>2. /\ Append(q, e) \in Seq(S) /\ Len(Append(q, e)) = Len(q) + 1
      /\ \A i \in 1 .. Len(q) : Append(q, e)[i] = q[i]
      /\ Append(q, e)[Len(q) + 1] = e
  BY AppendProperties
<1>3. DOMAIN Append(q, e) = 1 .. Len(q) + 1
  BY <1>2, LenProperties
<1> QED
  BY <1>1, <1>2, <1>3

LEMMA TailFacts ==
  ASSUME NEW S, NEW q \in Seq(S), q # <<>>
  PROVE  /\ Tail(q) \in Seq(S) /\ Head(q) \in S /\ Head(q) = q[1]
         /\ 1 \in DOMAIN q
         /\ \A i \in DOMAIN Tail(q) : i + 1 \in DOMAIN q /\ Tail(q)[i] = q[i + 1] /\ i \in Nat /\ i + 1 # 1
         /\ \A i \in DOMAIN q : i # 1 => i - 1 \in DOMAIN Tail(q) /\ Tail(q)[i - 1] = q[i]
<1>1. Len(q) \in Nat \ {0} /\ DOMAIN q = 1 .. Len(q)
  BY LenProperties, EmptySeq
<1>2. /\ Head(q) \in S /\ Tail(q) \in Seq(S) /\ Len(Tail(q)) = Len(q) - 1
      /\ \A i \in 1 .. Len(Tail(q)) : Tail(q)[i] = q[i + 1]
  BY HeadTailProperties
<1>3. DOMAIN Tail(q) = 1 .. Len(q) - 1
  BY <1>2, LenProperties
<1>4. Head(q) = q[1]
  OBVIOUS
<1> QED
  BY <1>1, <1>2, <1>3, <1>4

LEMMA ResolveHostOK ==
  ASSUME IndInv, NEW c \in Callers, NEW h \in Hosts, ResolveHost(c, h)
  PROVE  IndInv'
<1> DEFINE job == [caller |-> c, host |-> h]
           n == Len(queue) + 1
<1>1. /\ queue \in Seq(Jobs) /\ job \in Jobs /\ queue' = Append(queue, job)
      /\ \A i \in DOMAIN queue : queue[i] \in Jobs
  <2>1. queue \in Seq(Jobs) /\ queue' = Append(queue, job)
    BY DEF IndInv, TypeOK, ResolveHost
  <2>2. job \in Jobs
    BY DEF Jobs
  <2>3. \A i \in DOMAIN queue : queue[i] \in Jobs
    BY <2>1, InRange
  <2> QED
    BY <2>1, <2>2, <2>3
<1>2. /\ queue' \in Seq(Jobs) /\ DOMAIN queue' = DOMAIN queue \cup {n} /\ n \notin DOMAIN queue
      /\ \A i \in DOMAIN queue : queue'[i] = queue[i]
      /\ queue'[n] = job
  BY <1>1, AppendFacts
<1>3. /\ pc[c] = "idle" /\ handle = "live" /\ thread = "serving"
      /\ pc' = [pc EXCEPT ![c] = "wait"] /\ asked' = [asked EXCEPT ![c] = h]
      /\ reply' = [reply EXCEPT ![c] = Nothing] /\ got' = [got EXCEPT ![c] = Nothing]
      /\ handle' = handle /\ thread' = thread /\ tasks' = tasks
  BY DEF ResolveHost
<1>4. TypeOK'
  BY <1>2, <1>3 DEF IndInv, TypeOK
<1>5. Queued(c) = {} /\ Running(c) = {} /\ reply[c] = Nothing
  BY <1>3 DEF IndInv, ExactlyOneReply
<1> HIDE DEF n
<1>6. /\ Queued(c)' = {n}
      /\ \A d \in Callers : d # c => Queued(d)' = Queued(d)
      /\ \A d \in Callers : Running(d)' = Running(d)
  BY <1>2, <1>3, <1>5 DEF Queued, Running
<1>7. ExactlyOneReply'
  <2> SUFFICES ASSUME NEW d \in Callers PROVE One(d)'
    BY DEF ExactlyOneReply, One
  <2>1. CASE d = c
    BY <1>3, <1>5, <1>6, <2>1 DEF IndInv, TypeOK, One
  <2>2. CASE d # c
    <3>1. One(d)
      BY DEF IndInv, ExactlyOneReply, One
    <3>2. pc'[d] = pc[d] /\ reply'[d] = reply[d]
      BY <1>3, <2>2 DEF IndInv, TypeOK
    <3> QED
      BY <1>6, <2>2, <3>1, <3>2 DEF One
  <2> QED
    BY <2>1, <2>2
<1>8. \A i \in DOMAIN queue : queue[i].caller # c /\ queue[i].caller \in Callers
  BY <1>1, <1>5 DEF Queued, Jobs
<1>9. \A j \in tasks : j.caller # c /\ j.caller \in Callers
  BY <1>5 DEF Running, IndInv, TypeOK, Jobs
<1>10. Own'
  BY <1>2, <1>3, <1>8, <1>9, Kinds DEF IndInv, TypeOK, Own, OwnAnswer
<1>11. Used'
  BY <1>3 DEF IndInv, Used
<1> QED
  BY <1>4, <1>7, <1>10, <1>11 DEF IndInv

LEMMA SendFailsOK ==
  ASSUME IndInv, NEW c \in Callers, NEW h \in Hosts, SendFails(c, h)
  PROVE  IndInv'
<1> USE DEF SendFails
<1>1. TypeOK'
  BY DEF IndInv, TypeOK
<1>2. ExactlyOneReply'
  BY DEF IndInv, ExactlyOneReply, Queued, Running
<1>3. Own'
  BY Kinds DEF IndInv, TypeOK, Own, OwnAnswer, Used, ExactlyOneReply
<1>4. Used'
  BY DEF IndInv, Used
<1> QED
  BY <1>1, <1>2, <1>3, <1>4 DEF IndInv

LEMMA RecvOK ==
  ASSUME IndInv, NEW c \in Callers, Recv(c)
  PROVE  IndInv'
<1> USE DEF Recv
<1>1. TypeOK'
  BY DEF IndInv, TypeOK, Nothing
<1>2. ExactlyOneReply'
  BY DEF IndInv, TypeOK, ExactlyOneReply, Queued, Running
<1>3. Own'
  BY Kinds DEF IndInv, TypeOK, Own, OwnAnswer
<1>4. Used'
  BY DEF IndInv, Used, TypeOK
<1> QED
  BY <1>1, <1>2, <1>3, <1>4 DEF IndInv

LEMMA DispatchOK ==
  ASSUME IndInv, Dispatch
  PROVE  IndInv'
<1>1. /\ queue \in Seq(Jobs) /\ queue # <<>> /\ queue' = Tail(queue)
      /\ tasks' = tasks \cup {Head(queue)} /\ thread = "serving"
      /\ UNCHANGED <<handle, thread, pc, asked, got, reply>>
  BY DEF IndInv, TypeOK, Dispatch, callers
<1>2. PICK job \in Jobs : job = Head(queue)
  BY <1>1, TailFacts
<1>3. /\ queue' \in Seq(Jobs) /\ job = queue[1] /\ 1 \in DOMAIN queue
      /\ \A i \in DOMAIN queue' : i + 1 \in DOMAIN queue /\ queue'[i] = queue[i + 1]
                                  /\ i \in Nat /\ i + 1 # 1
      /\ \A i \in DOMAIN queue : i # 1 => i - 1 \in DOMAIN queue' /\ queue'[i - 1] = queue[i]
  BY <1>1, <1>2, TailFacts
<1>4. TypeOK'
  BY <1>1, <1>2, <1>3 DEF IndInv, TypeOK
<1>5. job.caller \in Callers /\ job.host = asked[job.caller]
  BY <1>3 DEF IndInv, Own, Jobs
<1>6. Queued(job.caller) = {1} /\ Running(job.caller) = {} /\ reply[job.caller] = Nothing
  BY <1>3, <1>5 DEF IndInv, ExactlyOneReply, Queued
<1>7. \A d \in Callers : \A i \in Queued(d)' : i + 1 \in Queued(d) /\ i \in Nat /\ i + 1 # 1
  BY <1>3 DEF Queued
<1>8. \A d \in Callers : d # job.caller => \A i \in Queued(d) : i - 1 \in Queued(d)'
  BY <1>3 DEF Queued
<1>9. Queued(job.caller)' = {}
  BY <1>5, <1>6, <1>7
<1>10. Running(job.caller)' = {job}
  BY <1>1, <1>2, <1>6 DEF Running
<1>11. \A d \in Callers : d # job.caller => Running(d)' = Running(d)
  BY <1>1, <1>2 DEF Running
<1>12. ExactlyOneReply'
  <2> SUFFICES ASSUME NEW d \in Callers PROVE One(d)'
    BY DEF ExactlyOneReply, One
  <2>1. One(d)
    BY DEF IndInv, ExactlyOneReply, One
  <2>2. CASE d = job.caller
    BY <1>1, <1>6, <1>9, <1>10, <2>1, <2>2 DEF One
  <2>3. CASE d # job.caller
    <3>1. Queued(d)' # {} <=> Queued(d) # {}
      BY <1>7, <1>8, <2>3
    <3>2. \A i, k \in Queued(d)' : i = k
      BY <1>7, <2>1 DEF One
    <3> QED
      BY <1>1, <1>11, <2>1, <2>3, <3>1, <3>2 DEF One
  <2> QED
    BY <2>2, <2>3
<1>13. Own'
  BY <1>1, <1>2, <1>3, <1>5 DEF IndInv, Own, OwnAnswer
<1>14. Used'
  BY <1>1 DEF IndInv, Used
<1> QED
  BY <1>4, <1>12, <1>13, <1>14 DEF IndInv

\* A task ends and leaves something in its caller's reply channel.
LEMMA TaskEndsOK ==
  ASSUME IndInv, NEW j \in tasks, NEW r \in Answers \cup {Failed},
         r \in Answers => r.host = j.host,
         tasks' = tasks \ {j}, reply' = [reply EXCEPT ![j.caller] = r],
         UNCHANGED <<handle, thread, queue, callers>>
  PROVE  IndInv'
<1>1. j.caller \in Callers /\ j.host = asked[j.caller]
  BY DEF IndInv, TypeOK, Own, Jobs
<1>2. r # Nothing
  BY Kinds
<1>3. TypeOK'
  BY DEF IndInv, TypeOK, callers
<1>4. Running(j.caller) = {j} /\ Queued(j.caller) = {} /\ pc[j.caller] = "wait"
  BY <1>1 DEF IndInv, ExactlyOneReply, Running
<1>5. /\ Running(j.caller)' = {}
      /\ \A d \in Callers : d # j.caller => Running(d)' = Running(d)
      /\ \A d \in Callers : Queued(d)' = Queued(d)
  BY <1>4 DEF Running, Queued
<1>6. ExactlyOneReply'
  <2> SUFFICES ASSUME NEW d \in Callers PROVE One(d)'
    BY DEF ExactlyOneReply, One
  <2>1. One(d)
    BY DEF IndInv, ExactlyOneReply, One
  <2>2. CASE d = j.caller
    <3>1. reply'[d] = r
      BY <1>1, <2>2 DEF IndInv, TypeOK
    <3> QED
      BY <1>2, <1>4, <1>5, <2>2, <3>1 DEF One, callers
  <2>3. CASE d # j.caller
    <3>1. reply'[d] = reply[d]
      BY <2>3 DEF IndInv, TypeOK
    <3> QED
      BY <1>5, <2>1, <2>3, <3>1 DEF One, callers
  <2> QED
    BY <2>2, <2>3
<1>7. Own'
  BY <1>1, Kinds DEF IndInv, TypeOK, Own, OwnAnswer, callers
<1>8. Used'
  BY DEF IndInv, Used, callers
<1> QED
  BY <1>3, <1>6, <1>7, <1>8 DEF IndInv

LEMMA TeardownOK ==
  ASSUME IndInv, thread = "serving", Teardown
  PROVE  IndInv'
<1> USE DEF Teardown
<1>1. TypeOK'
  BY Kinds DEF IndInv, TypeOK, callers
<1>2. \A c \in Callers : Queued(c)' = {} /\ Running(c)' = {}
  BY DEF Queued, Running
<1>3. ExactlyOneReply'
  <2> SUFFICES ASSUME NEW d \in Callers PROVE One(d)'
    BY DEF ExactlyOneReply, One
  <2>1. One(d)
    BY DEF IndInv, ExactlyOneReply, One
  <2>2. /\ pc'[d] = pc[d]
        /\ reply'[d] = IF Queued(d) # {} \/ Running(d) # {} THEN Failed ELSE reply[d]
    BY DEF callers
  <2> QED
    BY <1>2, <2>1, <2>2, Kinds DEF One
<1>4. Own'
  BY Kinds DEF IndInv, TypeOK, Own, OwnAnswer, callers
<1>5. Used'
  BY DEF IndInv, Used, callers
<1> QED
  BY <1>1, <1>3, <1>4, <1>5 DEF IndInv

LEMMA NextOK == IndInv /\ [Next]_vars => IndInv'
<1> SUFFICES ASSUME IndInv, [Next]_vars PROVE IndInv'
  OBVIOUS
<1>1. CASE New \/ InitSucceeds \/ InitFails \/ NewReturns \/ DropHandle
  <2>1. UNCHANGED <<queue, tasks, callers, reply>>
    BY <1>1 DEF New, InitSucceeds, InitFails, NewReturns, DropHandle
  <2> QED
    BY <1>1, <2>1, HandleOK
<1>2. ASSUME NEW c \in Callers, NEW h \in Hosts, ResolveHost(c, h) \/ SendFails(c, h)
      PROVE  IndInv'
  BY <1>2, ResolveHostOK, SendFailsOK
<1>3. ASSUME NEW c \in Callers, Recv(c) PROVE IndInv'
  BY <1>3, RecvOK
<1>4. CASE Dispatch
  BY <1>4, DispatchOK
<1>5. ASSUME NEW j \in Jobs, Complete(j) PROVE IndInv'
  <2>1. PICK k \in {"records", "error"} :
          reply' = [reply EXCEPT ![j.caller] = [kind |-> k, host |-> j.host]]
    BY <1>5 DEF Complete
  <2>2. [kind |-> k, host |-> j.host] \in Answers
    BY Kinds DEF Jobs
  <2>3. j \in tasks /\ tasks' = tasks \ {j} /\ UNCHANGED <<handle, thread, queue, callers>>
    BY <1>5 DEF Complete
  <2> QED
    BY <2>1, <2>2, <2>3, TaskEndsOK
<1>6. ASSUME NEW j \in Jobs, TaskPanics(j) PROVE IndInv'
  BY <1>6, Kinds, TaskEndsOK DEF TaskPanics
<1>7. CASE LoopEnds \/ ThreadDies
  BY <1>7, TeardownOK DEF LoopEnds, ThreadDies
<1>8. CASE UNCHANGED vars
  <2>1. TypeOK'
    BY <1>8 DEF IndInv, TypeOK, vars
  <2>2. ExactlyOneReply'
    BY <1>8 DEF IndInv, ExactlyOneReply, Queued, Running, vars
  <2>3. Own' /\ Used'
    BY <1>8 DEF IndInv, Own, OwnAnswer, Used, vars
  <2> QED
    BY <2>1, <2>2, <2>3 DEF IndInv
<1> QED
  BY <1>1, <1>2, <1>3, <1>4, <1>5, <1>6, <1>7, <1>8 DEF Next

LEMMA Inductive == Spec => []IndInv
BY InitOK, NextOK, PTL DEF Spec

-----------------------------------------------------------------------------
\* The resolver's variables keep their types; a resolver that is handed out has
\* a thread that once served.
THEOREM TypeCorrect == Spec => []TypeOK
BY Inductive, PTL DEF IndInv

\* For any number of callers and overlapping lookups, a call returns records of
\* the host it asked for.
THEOREM NoCrossTalk == Spec => []OwnAnswer
<1>1. IndInv => OwnAnswer
  BY DEF IndInv, Own
<1> QED
  BY <1>1, Inductive, PTL

\* Nobody waits on a channel that nothing can come out of.
THEOREM NoLostReply == Spec => []ExactlyOneReply
BY Inductive, PTL DEF IndInv

\* The end of the dispatch loop cancels no lookup that anybody waits for.
THEOREM CleanShutdown == Spec => ShutdownCancelsNothing
<1>1. IndInv /\ [Next]_vars => [LoopEnds => tasks = {} /\ reply' = reply]_vars
  <2> SUFFICES ASSUME IndInv, LoopEnds PROVE tasks = {} /\ reply' = reply
    OBVIOUS
  <2>1. ASSUME NEW c \in Callers PROVE Queued(c) = {} /\ Running(c) = {}
    <3>1. One(c)
      BY DEF IndInv, ExactlyOneReply, One
    <3>2. pc[c] = "idle"
      BY DEF IndInv, Used, LoopEnds
    <3> QED
      BY <3>1, <3>2 DEF One
  <2>2. tasks = {}
    BY <2>1 DEF IndInv, TypeOK, Jobs, Running
  <2>3. reply' = [c \in Callers |-> reply[c]]
    BY <2>1 DEF LoopEnds, Teardown
  <2> QED
    BY <2>2, <2>3 DEF IndInv, TypeOK
<1> QED
  BY <1>1, Inductive, PTL DEF Spec, ShutdownCancelsNothing

-----------------------------------------------------------------------------
(* The safety halves of NoHeadOfLineBlocking and ReleasedWhenGone: what a caller *)
(* waits for, and that it only gets closer.                                      *)

\* A waiting caller never depends on another's lookup: its reply is there to be
\* taken, or the serving thread runs its own lookup, or its job is in the
\* channel of a thread that can dispatch.  When the thread is gone, the reply is
\* there.
THEOREM WaitsForOwnLookupOnly ==
  Spec => [](\A c \in Callers : pc[c] = "wait" =>
               \/ reply[c] # Nothing
               \/ thread = "serving" /\ \E j \in tasks : j.caller = c /\ j.host = asked[c]
               \/ thread = "serving" /\ queue # <<>> /\ Queued(c) # {})
<1> DEFINE Served(c) ==
             \/ reply[c] # Nothing
             \/ thread = "serving" /\ \E j \in tasks : j.caller = c /\ j.host = asked[c]
             \/ thread = "serving" /\ queue # <<>> /\ Queued(c) # {}
           Moving == \A c \in Callers : pc[c] = "wait" => Served(c)
<1>1. IndInv => Moving
  <2> SUFFICES ASSUME IndInv, NEW c \in Callers, pc[c] = "wait", reply[c] = Nothing
               PROVE  Served(c)
    OBVIOUS
  <2>1. Queued(c) # {} \/ Running(c) # {}
    BY DEF IndInv, ExactlyOneReply
  <2>2. CASE Running(c) # {}
    <3>1. PICK j \in tasks : j.caller = c
      BY <2>2 DEF Running
    <3>2. j.host = asked[c] /\ thread = "serving"
      BY <3>1 DEF IndInv, Own, Used
    <3> QED
      BY <3>1, <3>2
  <2>3. CASE Queued(c) # {}
    <3>1. DOMAIN queue # {}
      BY <2>3 DEF Queued
    <3>2. queue # <<>>
      BY <3>1
    <3>3. thread = "serving"
      BY <3>2 DEF IndInv, Used
    <3> QED
      BY <2>3, <3>2, <3>3
  <2> QED
    BY <2>1, <2>2, <2>3
<1> HIDE DEF Moving
<1>2. Spec => []Moving
  BY <1>1, Inductive, PTL
<1> QED
  BY <1>2 DEF Moving

\* The channel is first come, first served: while a caller waits its job never
\* falls back, each dispatch brings it closer, and it leaves the channel only
\* into a task of its own or, when the thread ends, with a failed reply.
THEOREM NoOvertaking ==
  Spec => [][\A c \in Callers : \A i \in Queued(c) :
               /\ \A k \in Queued(c)' : k <= i /\ (Dispatch => k < i)
               /\ Queued(c)' = {} => Running(c)' # {} \/ reply'[c] = Failed]_vars
<1>1. ASSUME IndInv, [Next]_vars, NEW c \in Callers, NEW i \in Queued(c)
      PROVE  /\ \A k \in Queued(c)' : k <= i /\ (Dispatch => k < i)
             /\ Queued(c)' = {} => Running(c)' # {} \/ reply'[c] = Failed
  <2>1. /\ queue \in Seq(Jobs) /\ i \in DOMAIN queue /\ i \in Nat /\ queue # <<>>
        /\ \A k \in Queued(c) : k = i
        /\ pc[c] = "wait"
    <3>1. queue \in Seq(Jobs) /\ i \in DOMAIN queue
      BY <1>1 DEF IndInv, TypeOK, Queued
    <3>2. DOMAIN queue = 1 .. Len(queue) /\ Len(queue) \in Nat
      BY <3>1, LenProperties
    <3> QED
      BY <1>1, <3>1, <3>2 DEF IndInv, ExactlyOneReply
  <2>2. CASE Dispatch
    <3>1. /\ queue' = Tail(queue) /\ tasks' = tasks \cup {Head(queue)}
          /\ Head(queue) = queue[1]
          /\ \A k \in DOMAIN queue' : k + 1 \in DOMAIN queue /\ queue'[k] = queue[k + 1]
                                      /\ k \in Nat
          /\ \A k \in DOMAIN queue : k # 1 => k - 1 \in DOMAIN queue' /\ queue'[k - 1] = queue[k]
      BY <2>1, <2>2, TailFacts DEF Dispatch
    <3>2. \A k \in Queued(c)' : k + 1 = i /\ k \in Nat
      BY <2>1, <3>1 DEF Queued
    <3>3. \A k \in Queued(c)' : k < i
      BY <3>2
    <3>4. i # 1 => i - 1 \in Queued(c)'
      BY <2>1, <3>1 DEF Queued
    <3>5. i = 1 => Running(c)' # {}
      BY <2>1, <3>1 DEF Queued, Running
    <3> QED
      BY <2>1, <3>2, <3>3, <3>4, <3>5
  <2>3. CASE Teardown
    <3>1. Queued(c)' = {} /\ reply'[c] = Failed
      BY <1>1, <2>3 DEF Teardown, Queued
    <3>2. ~Dispatch
      BY <2>1, <2>3 DEF Teardown, Dispatch
    <3> QED
      BY <3>1, <3>2
  <2>4. ASSUME NEW d \in Callers, NEW h \in Hosts, ResolveHost(d, h)
        PROVE  Queued(c)' = Queued(c) /\ ~Dispatch
    <3>1. /\ d # c /\ queue' = Append(queue, [caller |-> d, host |-> h])
          /\ tasks' = tasks
      BY <2>1, <2>4 DEF ResolveHost
    <3>2. [caller |-> d, host |-> h] \in Jobs
      BY DEF Jobs
    <3>3. /\ DOMAIN queue' = DOMAIN queue \cup {Len(queue) + 1}
          /\ \A k \in DOMAIN queue : queue'[k] = queue[k]
          /\ queue'[Len(queue) + 1].caller = d
          /\ Len(queue) + 1 \notin DOMAIN queue
      BY <2>1, <3>1, <3>2, AppendFacts
    <3>4. ~Dispatch
      BY <2>4, <2>1 DEF ResolveHost, Dispatch, callers
    <3> QED
      BY <3>1, <3>3, <3>4 DEF Queued
  <2>5. CASE UNCHANGED queue
    <3>1. Queued(c)' = Queued(c)
      BY <2>5 DEF Queued
    <3> QED
      BY <2>1, <2>2, <3>1
  <2>6. UNCHANGED queue \/ Dispatch \/ Teardown
          \/ \E d \in Callers, h \in Hosts : ResolveHost(d, h)
    BY <1>1 DEF Next, New, InitSucceeds, InitFails, NewReturns, SendFails, Recv, Complete,
       TaskPanics, DropHandle, LoopEnds, ThreadDies, vars
  <2> QED
    BY <1>1, <2>1, <2>2, <2>3, <2>4, <2>5, <2>6
<1>2. IndInv /\ [Next]_vars =>
        \A c \in Callers : \A i \in Queued(c) :
          /\ \A k \in Queued(c)' : k <= i /\ (Dispatch => k < i)
          /\ Queued(c)' = {} => Running(c)' # {} \/ reply'[c] = Failed
  BY <1>1
<1> QED
  BY <1>2, Inductive, PTL DEF Spec
=============================================================================
