-------------------------- MODULE ProofReplayProofs --------------------------
(***************************************************************************)
(* The replay store outlasts the freshness window, for every max_age and   *)
(* every u64 tolerance (the ones that overflow included), every clock      *)
(* resolution, cap and number of requests in flight.                       *)
(***************************************************************************)
EXTENDS ProofReplay, ReplayMapProofs

(***************************************************************************)
(* The seconds in which an iat can be fresh.  For a sensible tolerance     *)
(* they are the window around it; an iat far enough in the past overflows  *)
(* the subtraction and is fresh in a single second, and no iat is fresh    *)
(* both ways.  That single second is also all that a tolerance so large    *)
(* that the window wraps to a negative number accepts.  A window that      *)
(* reaches the end of the integers (Wide) may accept both ways: any second *)
(* of the run will do, for the TTL then covers all of them.                *)
(***************************************************************************)
LastSec  == NowSecs(MaxWall)
Wide     == Window >= 0 /\ LastSec + Window > MaxInt
Near(iat) == Window >= 0 /\ iat >= -Window

FirstFresh(iat) ==
  IF Wide THEN 0 ELSE IF Near(iat) THEN iat - Window ELSE iat + MaxInt + 1
LastFresh(iat) ==
  IF Wide THEN LastSec ELSE IF Near(iat) THEN iat + Window ELSE iat + MaxInt + 1

\* The TTL in seconds.
TtlSecs == WrapU64(2 * HalfWidth + 1)

\* The same in ticks: fresh from Begin(p) until just before End(p).
Begin(p) == TicksPerSec * FirstFresh(p.iat)
End(p)   == TicksPerSec * (LastFresh(p.iat) + 1)

(***************************************************************************)
(* The inductive invariant.  The store must outlast the END of the proof's *)
(* window, not just be live now, and the distance to that end must be      *)
(* measured on both clocks (Covered).  A mark can guarantee it because the *)
(* proof was fresh when it was checked, so the wall clock is past the      *)
(* BEGINNING of the window when the entry is anchored (Begun), however     *)
(* long the request stalled in between.                                    *)
(***************************************************************************)
Begun ==
  ~steppedBack => \A t \in Threads : pc[t] = "checked" => Begin(held[t]) <= wall

Covered ==
  ~steppedBack => \A p \in recorded :
     \/ End(p) <= wall
     \/ p.jti \in DOMAIN map /\ map[p.jti] - mono >= End(p) - wall

Accounted == failClosed => \A p \in Proofs : uses[p] > 0 => p \in recorded

IndInv == TypeOK /\ Begun /\ Covered /\ Accounted

-----------------------------------------------------------------------------
(* Time *)

\* The constants, as numbers.  However the tolerance wraps, the TTL is odd
\* and so at least one second, and a window that is not negative has not
\* wrapped: then the TTL has not wrapped either.
LEMMA Types ==
  /\ TicksPerSec \in Nat /\ TicksPerSec > 0
  /\ MaxInt \in Nat /\ MinInt \in Int /\ MinInt = -MaxInt - 1
  /\ Modulus = 2 * MaxInt + 2
  /\ Window \in MinInt .. MaxInt
  /\ TtlSecs \in Nat /\ TtlSecs >= 1
  /\ Window >= 0 => TtlSecs = 2 * Window + 1
<1>1. /\ TicksPerSec \in Nat /\ TicksPerSec > 0
      /\ MaxInt \in Nat /\ MinInt \in Int /\ MinInt = -MaxInt - 1
      /\ Modulus = 2 * MaxInt + 2
  BY FreshnessAssumptions DEF Modulus, MinInt
<1>2. HalfWidth \in Nat /\ HalfWidth < Modulus
  <2>1. MaxAge \in Nat /\ MaxAge < Modulus /\ Tolerance \in Nat /\ Tolerance < Modulus
    BY <1>1, FreshnessAssumptions
  <2> QED
    BY <1>1, <2>1 DEF HalfWidth, WrapU64
<1>3. Window = IF HalfWidth > MaxInt THEN HalfWidth - Modulus ELSE HalfWidth
  BY <1>1, <1>2 DEF Window, Wrap
<1>4. TtlSecs = IF 2 * HalfWidth + 1 >= Modulus
                THEN 2 * HalfWidth + 1 - Modulus ELSE 2 * HalfWidth + 1
  BY <1>1, <1>2 DEF TtlSecs, WrapU64
<1> QED
  BY <1>1, <1>2, <1>3, <1>4

\* Truncation to whole seconds.
LEMMA Truncation ==
  ASSUME NEW w \in Nat
  PROVE  /\ NowSecs(w) \in Nat
         /\ TicksPerSec * NowSecs(w) <= w
         /\ w < TicksPerSec * (NowSecs(w) + 1)
BY Types DEF NowSecs

\* A product with a positive factor is monotone.
LEMMA Monotone ==
  ASSUME NEW k \in Nat, k > 0, NEW a \in Int, NEW b \in Int, a <= b
  PROVE  k * a \in Int /\ k * b \in Int /\ k * a <= k * b
OBVIOUS

\* A deadline x on clock n that is no nearer than e on clock w stays so when
\* n gains no more than w.
LEMMA Lag ==
  ASSUME NEW x \in Int, NEW e \in Int, NEW n \in Nat, NEW n1 \in Nat,
         NEW w \in Nat, NEW w1 \in Nat, n1 - n <= w1 - w, x - n >= e - w
  PROVE  x - n1 >= e - w1
OBVIOUS

\* No second of the run is after the last, which is in the first half of
\* the integers.
LEMMA SecondsBounded ==
  ASSUME NEW w \in 0 .. MaxWall
  PROVE  NowSecs(w) \in 0 .. LastSec /\ LastSec \in Nat /\ 2 * LastSec <= MaxInt
<1>1. w \in Nat /\ MaxWall \in Nat /\ w <= MaxWall
  BY ProofReplayAssumptions
<1> DEFINE s == NowSecs(w)
           S == NowSecs(MaxWall)
<1>2. s \in Nat /\ TicksPerSec * s <= w
  BY <1>1, Truncation
<1>3. S \in Nat /\ MaxWall < TicksPerSec * (S + 1)
  BY <1>1, Truncation
<1> HIDE DEF s, S
<1>4. s <= S
  <2> SUFFICES ASSUME S + 1 <= s PROVE FALSE
    BY <1>2, <1>3
  <2>1. TicksPerSec * (S + 1) <= TicksPerSec * s
    BY <1>2, <1>3, Types, Monotone
  <2>2. TicksPerSec * (S + 1) \in Int /\ TicksPerSec * s \in Int
    BY <1>2, <1>3, Types
  <2> QED
    BY <1>1, <1>2, <1>3, <2>1, <2>2
<1>5. 2 * S <= MaxInt
  BY ProofReplayAssumptions DEF S
<1> QED
  BY <1>2, <1>3, <1>4, <1>5 DEF s, S, LastSec

\* What the freshness check accepts, overflow included.
LEMMA FreshSpan ==
  ASSUME NEW iat \in MinInt .. MaxInt,
         LastSec \in Nat, 2 * LastSec <= MaxInt, NEW s \in 0 .. LastSec,
         IsFresh(iat, s)
  PROVE  FirstFresh(iat) <= s /\ s <= LastFresh(iat)
<1>1. CASE Wide
  BY <1>1 DEF FirstFresh, LastFresh
<1> DEFINE d == s - iat
           x == Wrap(d)
<1>2. s \in Nat /\ iat \in Int /\ d \in Int /\ MinInt <= d /\ d <= MaxInt + LastSec + 1
  BY Types
<1>3. x = IF d > MaxInt THEN d - Modulus ELSE d
  BY <1>2, Types DEF Wrap
<1>4. WrappingAbs(x) <= Window
  BY DEF IsFresh, WrappingSub
<1>5. CASE Window < 0
  <2>1. x = MinInt
    BY <1>2, <1>3, <1>4, <1>5, Types DEF WrappingAbs
  <2>2. d = MaxInt + 1
    BY <1>2, <1>3, <2>1, Types
  <2> QED
    BY <1>2, <1>5, <2>2, Types DEF FirstFresh, LastFresh, Wide, Near
<1>6. CASE Window >= 0 /\ ~Wide /\ iat >= -Window
  <2>1. s + Window <= MaxInt
    BY <1>2, <1>6, Types DEF Wide
  <2>2. x = d /\ d # MinInt
    BY <1>2, <1>3, <1>6, <2>1, Types
  <2>3. -Window <= d /\ d <= Window
    BY <1>2, <1>4, <2>2, <1>6, Types DEF WrappingAbs
  <2> QED
    BY <1>2, <1>6, <2>3, Types DEF FirstFresh, LastFresh, Near
<1>7. CASE Window >= 0 /\ ~Wide /\ iat < -Window
  <2>1. LastSec + Window <= MaxInt
    BY <1>7, Types DEF Wide
  <2>2. d > Window
    BY <1>2, <1>7, Types
  <2>3. d > MaxInt
    BY <1>2, <1>3, <1>4, <2>2, <1>7, Types DEF WrappingAbs
  <2>4. x < -Window
    BY <1>2, <1>3, <2>1, <2>3, <1>7, Types
  <2>5. x = MinInt
    BY <1>2, <1>3, <1>4, <2>4, <1>7, Types DEF WrappingAbs
  <2>6. d = MaxInt + 1
    BY <1>2, <1>3, <2>3, <2>5, Types
  <2> QED
    BY <1>2, <1>7, <2>6, Types DEF FirstFresh, LastFresh, Near
<1> QED
  BY <1>1, <1>5, <1>6, <1>7, Types

\* An iat is fresh for no more seconds than the TTL has.
LEMMA SpanWidth ==
  ASSUME NEW iat \in MinInt .. MaxInt, LastSec \in Nat, 2 * LastSec <= MaxInt
  PROVE  /\ FirstFresh(iat) \in Int /\ LastFresh(iat) \in Int
         /\ LastFresh(iat) - FirstFresh(iat) + 1 <= TtlSecs
<1>1. CASE Wide
  BY <1>1, Types DEF FirstFresh, LastFresh, Wide
<1>2. CASE ~Wide
  BY <1>2, Types DEF FirstFresh, LastFresh, Near
<1> QED
  BY <1>1, <1>2

\* In ticks: the TTL covers the whole window, its last second included.
LEMMA TtlCoversWindow ==
  ASSUME NEW p \in Proofs
  PROVE  /\ Begin(p) \in Int /\ End(p) \in Int
         /\ ReplayTtl \in Nat /\ ReplayTtl > 0
         /\ End(p) - Begin(p) <= ReplayTtl
<1>1. p.iat \in MinInt .. MaxInt
  BY ProofReplayAssumptions DEF Proofs
<1> DEFINE a == FirstFresh(p.iat)
           b == LastFresh(p.iat)
<1>2. a \in Int /\ b \in Int /\ b - a + 1 <= TtlSecs
  <2>1. 0 \in 0 .. MaxWall
    BY ProofReplayAssumptions
  <2> QED
    BY <1>1, <2>1, SecondsBounded, SpanWidth
<1> HIDE DEF a, b
<1>3. TicksPerSec * (b + 1 - a) <= TicksPerSec * TtlSecs
  <2>1. b + 1 - a \in Int /\ TtlSecs \in Int /\ b + 1 - a <= TtlSecs
    BY <1>2, Types
  <2> QED
    BY <2>1, Types, Monotone
<1>4. TicksPerSec * (b + 1 - a) = TicksPerSec * (b + 1) - TicksPerSec * a
  BY <1>2, Types
<1>5. TicksPerSec * (b + 1) \in Int /\ TicksPerSec * a \in Int
  BY <1>2, Types
<1>6. TicksPerSec * TtlSecs = TtlSecs * TicksPerSec
  BY Types
<1>7. TtlSecs * TicksPerSec \in Nat /\ TtlSecs * TicksPerSec > 0
  BY Types
<1>8. ReplayTtl = TtlSecs * TicksPerSec
  BY DEF ReplayTtl, TtlSecs
<1> QED
  BY <1>3, <1>4, <1>5, <1>6, <1>7, <1>8 DEF Begin, End, a, b

\* A proof that passes the freshness check is inside its window, in ticks.
LEMMA FreshTicks ==
  ASSUME NEW p \in Proofs, NEW w \in 0 .. MaxWall, IsFresh(p.iat, NowSecs(w))
  PROVE  Begin(p) <= w /\ w < End(p)
<1>1. p.iat \in MinInt .. MaxInt
  BY ProofReplayAssumptions DEF Proofs
<1> DEFINE s == NowSecs(w)
           a == FirstFresh(p.iat)
           b == LastFresh(p.iat)
<1>2. s \in 0 .. LastSec /\ s \in Nat /\ LastSec \in Nat /\ 2 * LastSec <= MaxInt
  BY SecondsBounded
<1>3. a \in Int /\ b \in Int /\ a <= s /\ s <= b
  BY <1>1, <1>2, FreshSpan, SpanWidth
<1>4. w \in Nat /\ TicksPerSec * s <= w /\ w < TicksPerSec * (s + 1)
  BY Truncation
<1> HIDE DEF s, a, b
<1>5. /\ TicksPerSec * a <= TicksPerSec * s
      /\ TicksPerSec * a \in Int /\ TicksPerSec * s \in Int
  BY <1>2, <1>3, Types, Monotone
<1>6. /\ TicksPerSec * (s + 1) <= TicksPerSec * (b + 1)
      /\ TicksPerSec * (s + 1) \in Int /\ TicksPerSec * (b + 1) \in Int
  BY <1>2, <1>3, Types, Monotone
<1> QED
  BY <1>4, <1>5, <1>6 DEF Begin, End, a, b

-----------------------------------------------------------------------------
\* The invariant holds in a new verifier.
LEMMA InitInv == Init => IndInv
<1> SUFFICES ASSUME Init PROVE IndInv
  OBVIOUS
<1>1. DOMAIN map = {}
  BY DEF Init, EmptyMap
<1>2. TypeOK
  <2>1. mono \in Nat /\ wall \in 0 .. MaxWall
    BY DEF Init
  <2>2. steppedBack \in BOOLEAN /\ failClosed \in BOOLEAN
    BY Zenon DEF Init
  <2>3. /\ pc \in [Threads -> {"idle", "checked", "unchecked"}]
        /\ held \in [Threads -> Proofs \cup {NoProof}]
        /\ \A t \in Threads : pc[t] = "idle"
        /\ recorded = {} /\ uses \in [Proofs -> 0 .. 2]
    BY DEF Init
  <2> QED
    BY <1>1, <2>1, <2>2, <2>3 DEF TypeOK
<1>3. Begun /\ Covered /\ Accounted
  BY DEF Init, Begun, Covered, Accounted
<1> QED
  BY <1>2, <1>3 DEF IndInv

\* The store after the mark of a request in flight.
LEMMA StoredTypes ==
  ASSUME TypeOK, NEW t \in Threads, pc[t] # "idle"
  PROVE  /\ held[t] \in Proofs /\ held[t].jti \in Jtis
         /\ DOMAIN Stored(t) \subseteq Jtis
         /\ \A j \in DOMAIN Stored(t) : Stored(t)[j] \in Nat
<1>1. held[t] \in Proofs /\ held[t].jti \in Jtis
  BY DEF TypeOK, Proofs
<1>2. ReplayTtl \in Nat /\ mono \in Nat
  BY <1>1, TtlCoversWindow DEF TypeOK
<1> DEFINE m == Stored(t)
           rec == Answer(t) = "New" /\ ReplayTtl > 0
<1>3. /\ DOMAIN m \subseteq DOMAIN map \cup {held[t].jti}
      /\ \A j \in DOMAIN m : ~(rec /\ j = held[t].jti) => j \in DOMAIN map /\ m[j] = map[j]
      /\ rec => m[held[t].jti] = mono + ReplayTtl
  BY MarkKeepsLive DEF Stored, Answer
<1> HIDE DEF m, rec
<1>4. DOMAIN m \subseteq Jtis /\ \A j \in DOMAIN m : m[j] \in Nat
  BY <1>1, <1>2, <1>3 DEF TypeOK
<1> QED
  BY <1>1, <1>4 DEF m

\* Moving a request on is type-correct.
LEMMA GotoTypes ==
  ASSUME TypeOK, NEW t \in Threads, NEW p,
         \/ Goto(t, "idle", NoProof)
         \/ p \in Proofs /\ (Goto(t, "checked", p) \/ Goto(t, "unchecked", p))
  PROVE  /\ pc' \in [Threads -> {"idle", "checked", "unchecked"}]
         /\ held' \in [Threads -> Proofs \cup {NoProof}]
         /\ \A u \in Threads : pc'[u] # "idle" => held'[u] \in Proofs
BY DEF TypeOK, Goto

\* So is counting a use.
LEMMA UsesTypes ==
  ASSUME TypeOK, NEW t \in Threads, pc[t] # "idle", CountUse(t)
  PROVE  uses' \in [Proofs -> 0 .. 2]
<1>1. held[t] \in Proofs /\ uses[held[t]] \in 0 .. 2
  BY DEF TypeOK
<1> QED
  BY <1>1 DEF TypeOK, CountUse

\* Every step keeps every variable in its type.
LEMMA TypeStep == TypeOK /\ [Next]_vars => TypeOK'
<1> SUFFICES ASSUME TypeOK, [Next]_vars PROVE TypeOK'
  OBVIOUS
<1>1. ASSUME NEW t \in Threads, NEW p \in Proofs, Check(t, p) \/ Skip(t, p)
      PROVE  TypeOK'
  <2>1. /\ Goto(t, "checked", p) \/ Goto(t, "unchecked", p)
        /\ UNCHANGED <<mono, wall, steppedBack, failClosed, map, recorded, uses>>
    BY <1>1 DEF Check, Skip
  <2> QED
    BY <2>1, GotoTypes DEF TypeOK
<1>2. ASSUME NEW t \in Threads, Drop(t) PROVE TypeOK'
  BY <1>2, GotoTypes DEF Drop, TypeOK
<1>3. ASSUME NEW t \in Threads, NEW answer, Consume(t, answer),
             uses' = uses \/ CountUse(t),
             recorded' = recorded \/ recorded' = recorded \cup {held[t]}
      PROVE  TypeOK'
  <2>1. pc[t] # "idle"
    BY <1>3 DEF Consume
  <2>2. uses' \in [Proofs -> 0 .. 2]
    BY <1>3, <2>1, UsesTypes DEF TypeOK
  <2> QED
    BY <1>3, <2>1, <2>2, StoredTypes, GotoTypes DEF Consume, TypeOK
<1>4. ASSUME NEW t \in Threads, MarkNew(t) \/ MarkReplay(t) \/ MarkErr(t)
      PROVE  TypeOK'
  BY <1>3, <1>4 DEF MarkNew, MarkReplay, MarkErr, OnError
<1>5. ASSUME NEW t \in Threads, StoreDown(t) PROVE TypeOK'
  <2>1. pc[t] # "idle"
    BY <1>5 DEF StoreDown
  <2>2. uses' \in [Proofs -> 0 .. 2]
    BY <1>5, <2>1, UsesTypes DEF StoreDown, OnError, TypeOK
  <2> QED
    BY <1>5, <2>1, <2>2, StoredTypes, GotoTypes DEF StoreDown, OnError, TypeOK
<1>6. CASE Tick \/ StepForward \/ StepBack
  <2>1. mono' \in Nat /\ wall' \in 0 .. MaxWall
    BY <1>6, ProofReplayAssumptions DEF Tick, StepForward, StepBack, TypeOK
  <2>2. steppedBack' \in BOOLEAN /\ UNCHANGED <<failClosed, map, pc, held, recorded, uses>>
    BY <1>6, Zenon DEF Tick, StepForward, StepBack, TypeOK
  <2> QED
    BY <2>1, <2>2 DEF TypeOK
<1>7. CASE UNCHANGED vars
  BY <1>7 DEF vars, TypeOK
<1> QED
  BY <1>1, <1>2, <1>4, <1>5, <1>6, <1>7 DEF Next

\* The proof-replay core is type-correct.
THEOREM TypeCorrect == Spec => []TypeOK
<1>1. Init => TypeOK
  BY InitInv DEF IndInv
<1> QED
  BY <1>1, TypeStep, PTL DEF Spec

-----------------------------------------------------------------------------
(* The inductive invariant *)

\* A mark, whatever it answers and whether or not its reply gets through,
\* uncovers no recorded proof: a live entry stays, and a dead one only
\* belongs to proofs whose window has closed.
LEMMA MarkKeepsCovered ==
  ASSUME TypeOK, Covered, ~steppedBack, NEW t \in Threads, pc[t] # "idle",
         NEW p \in recorded
  PROVE  \/ End(p) <= wall
         \/ /\ p.jti \in DOMAIN Stored(t)
            /\ Stored(t)[p.jti] - mono >= End(p) - wall
<1>1. p \in Proofs /\ p.jti \in Jtis
  BY DEF TypeOK, Proofs
<1>2. ReplayTtl \in Nat /\ ReplayTtl > 0 /\ End(p) \in Int
  BY <1>1, TtlCoversWindow
<1>3. mono \in Nat /\ wall \in Nat
  BY ProofReplayAssumptions DEF TypeOK
<1> DEFINE m == Stored(t)
           rec == Answer(t) = "New" /\ ReplayTtl > 0
<1>4. /\ \A j \in DOMAIN map : map[j] > mono => j \in DOMAIN m
      /\ \A j \in DOMAIN m : ~(rec /\ j = held[t].jti) => j \in DOMAIN map /\ m[j] = map[j]
  BY MarkKeepsLive DEF Stored, Answer
<1>5. IsLive(map, held[t].jti, mono) => ~rec
  BY MarkAnswers DEF Answer
<1> HIDE DEF m, rec
<1>6. SUFFICES ASSUME wall < End(p)
               PROVE  p.jti \in DOMAIN m /\ m[p.jti] - mono >= End(p) - wall
  BY <1>2, <1>3 DEF m
<1>7. p.jti \in DOMAIN map /\ map[p.jti] - mono >= End(p) - wall
  BY <1>2, <1>3, <1>6 DEF Covered
<1>8. map[p.jti] \in Nat /\ map[p.jti] > mono
  BY <1>2, <1>3, <1>6, <1>7 DEF TypeOK
<1>9. p.jti \in DOMAIN m /\ ~(rec /\ p.jti = held[t].jti)
  BY <1>4, <1>5, <1>7, <1>8 DEF IsLive
<1> QED
  BY <1>4, <1>7, <1>9

\* The entry a validated proof is given outlasts its window, however long the
\* request stalled between the freshness check and the mark.
LEMMA MarkCovers ==
  ASSUME TypeOK, Begun, ~steppedBack, NEW t \in Threads, pc[t] = "checked",
         Answer(t) = "New"
  PROVE  /\ held[t].jti \in DOMAIN Stored(t)
         /\ Stored(t)[held[t].jti] - mono >= End(held[t]) - wall
<1>1. held[t] \in Proofs
  BY DEF TypeOK
<1> DEFINE p == held[t]
<1>2. /\ Begin(p) \in Int /\ End(p) \in Int /\ ReplayTtl \in Nat /\ ReplayTtl > 0
      /\ End(p) - Begin(p) <= ReplayTtl
  BY <1>1, TtlCoversWindow
<1>3. mono \in Nat /\ wall \in Nat
  BY ProofReplayAssumptions DEF TypeOK
<1>4. Begin(p) <= wall
  BY DEF Begun
<1>5. p.jti \in DOMAIN Stored(t) /\ Stored(t)[p.jti] = mono + ReplayTtl
  BY <1>2, MarkKeepsLive DEF Stored, Answer
<1> DEFINE e == Stored(t)[p.jti]
<1>6. e = mono + ReplayTtl
  BY <1>5
<1> HIDE DEF e, p
<1>7. e - mono >= End(p) - wall
  BY <1>2, <1>3, <1>4, <1>6
<1> QED
  BY <1>5, <1>7 DEF e, p

\* Steps that do not touch the clocks keep a request's window begun: a request
\* enters "checked" only with a proof that is fresh now.
LEMMA BegunStep ==
  ASSUME TypeOK, Begun, UNCHANGED <<wall, steppedBack>>, NEW t \in Threads,
         NEW to, NEW p, Goto(t, to, p),
         to = "checked" => p \in Proofs /\ IsFresh(p.iat, NowSecs(wall))
  PROVE  Begun'
<1>1. SUFFICES ASSUME ~steppedBack, NEW u \in Threads, pc'[u] = "checked"
               PROVE  Begin(held'[u]) <= wall
  BY DEF Begun, Begin, FirstFresh
<1>2. CASE u = t
  <2>1. to = "checked" /\ held'[u] = p
    BY <1>1, <1>2 DEF Goto, TypeOK
  <2> QED
    BY <2>1, FreshTicks DEF TypeOK
<1>3. CASE u # t
  <2>1. pc[u] = "checked" /\ held'[u] = held[u]
    BY <1>1, <1>3 DEF Goto, TypeOK
  <2> QED
    BY <1>1, <2>1 DEF Begun
<1> QED
  BY <1>2, <1>3

\* A mark keeps Covered: it keeps what is covered and covers what it adds.
LEMMA CoveredStep ==
  ASSUME TypeOK, Begun, Covered, UNCHANGED <<wall, mono, steppedBack>>,
         NEW t \in Threads, pc[t] # "idle",
         \/ recorded' = recorded /\ map' \in {map, Stored(t)}
         \/ /\ pc[t] = "checked" /\ Answer(t) = "New"
            /\ recorded' = recorded \cup {held[t]} /\ map' = Stored(t)
  PROVE  Covered'
<1>1. SUFFICES ASSUME ~steppedBack, NEW p \in recorded'
               PROVE  \/ End(p) <= wall
                      \/ p.jti \in DOMAIN map' /\ map'[p.jti] - mono >= End(p) - wall
  BY DEF Covered, End, LastFresh
<1>2. CASE p \in recorded
  BY <1>1, <1>2, MarkKeepsCovered DEF Covered
<1>3. CASE p \notin recorded
  <2>1. /\ pc[t] = "checked" /\ Answer(t) = "New"
        /\ p = held[t] /\ map' = Stored(t)
    BY <1>1, <1>3
  <2> QED
    BY <1>1, <2>1, MarkCovers
<1> QED
  BY <1>2, <1>3

\* Every step keeps the invariant.
LEMMA IndStep == IndInv /\ [Next]_vars => IndInv'
<1> SUFFICES ASSUME IndInv, [Next]_vars PROVE IndInv'
  OBVIOUS
<1> USE DEF IndInv
<1>0. TypeOK'
  BY TypeStep
<1>1. ASSUME NEW t \in Threads, NEW p \in Proofs, Check(t, p) \/ Skip(t, p)
      PROVE  IndInv'
  <2>1. Begun'
    <3>1. CASE Check(t, p)
      BY <3>1, BegunStep DEF Check
    <3>2. CASE Skip(t, p)
      BY <3>2, BegunStep DEF Skip
    <3> QED
      BY <1>1, <3>1, <3>2
  <2>2. UNCHANGED <<mono, wall, steppedBack, failClosed, map, recorded, uses>>
    BY <1>1 DEF Check, Skip
  <2>3. Covered' /\ Accounted'
    BY <2>2 DEF Covered, Accounted, End, LastFresh
  <2> QED
    BY <1>0, <2>1, <2>3
<1>2. ASSUME NEW t \in Threads, Drop(t) PROVE IndInv'
  <2>1. Begun'
    BY <1>2, BegunStep DEF Drop
  <2>2. Covered' /\ Accounted'
    BY <1>2 DEF Drop, Covered, Accounted, End, LastFresh
  <2> QED
    BY <1>0, <2>1, <2>2
<1>3. ASSUME NEW t \in Threads, MarkNew(t) PROVE IndInv'
  <2>1. /\ pc[t] \in {"checked", "unchecked"} /\ Answer(t) = "New" /\ map' = Stored(t)
        /\ Goto(t, "idle", NoProof) /\ UNCHANGED <<mono, wall, steppedBack, failClosed>>
        /\ CountUse(t)
        /\ recorded' = IF pc[t] = "checked" THEN recorded \cup {held[t]} ELSE recorded
    BY <1>3 DEF MarkNew, Consume
  <2>2. Begun'
    BY <2>1, BegunStep
  <2>3. Covered'
    BY <2>1, CoveredStep
  <2>4. Accounted'
    BY <2>1 DEF CountUse, Accounted, TypeOK
  <2> QED
    BY <1>0, <2>2, <2>3, <2>4
<1>4. ASSUME NEW t \in Threads, MarkReplay(t) \/ MarkErr(t) \/ StoreDown(t)
      PROVE  IndInv'
  <2>1. /\ pc[t] \in {"checked", "unchecked"} /\ map' \in {map, Stored(t)}
        /\ Goto(t, "idle", NoProof) /\ UNCHANGED <<mono, wall, steppedBack, failClosed>>
        /\ recorded' = recorded
        /\ failClosed => uses' = uses
    BY <1>4 DEF MarkReplay, MarkErr, StoreDown, Consume, OnError
  <2>2. Begun'
    BY <2>1, BegunStep
  <2>3. Covered'
    BY <2>1, CoveredStep
  <2>4. Accounted'
    BY <2>1 DEF Accounted
  <2> QED
    BY <1>0, <2>2, <2>3, <2>4
<1>5. CASE Tick \/ StepForward
  <2>1. /\ UNCHANGED <<steppedBack, failClosed, map, pc, held, recorded, uses>>
        /\ wall \in Nat /\ wall' \in Nat /\ mono \in Nat /\ mono' \in Nat
        /\ wall' > wall /\ mono' >= mono /\ mono' - mono <= wall' - wall
    BY <1>5, ProofReplayAssumptions DEF Tick, StepForward, TypeOK
  <2>2. Begun'
    <3>1. SUFFICES ASSUME ~steppedBack, NEW u \in Threads, pc[u] = "checked"
                   PROVE  Begin(held[u]) <= wall'
      BY <2>1 DEF Begun, Begin, FirstFresh
    <3>2. Begin(held[u]) <= wall
      BY <3>1 DEF Begun
    <3>3. Begin(held[u]) \in Int
      BY <3>1, TtlCoversWindow DEF TypeOK
    <3> QED
      BY <2>1, <3>2, <3>3
  <2>3. Covered'
    <3>1. SUFFICES ASSUME ~steppedBack, NEW p \in recorded
                   PROVE  \/ End(p) <= wall'
                          \/ p.jti \in DOMAIN map /\ map[p.jti] - mono' >= End(p) - wall'
      BY <2>1 DEF Covered, End, LastFresh
    <3>2. End(p) \in Int
      BY TtlCoversWindow DEF TypeOK
    <3>3. CASE End(p) <= wall
      BY <2>1, <3>2, <3>3
    <3>4. CASE p.jti \in DOMAIN map /\ map[p.jti] - mono >= End(p) - wall
      <4>1. map[p.jti] \in Nat
        BY <3>4 DEF TypeOK
      <4> DEFINE x == map[p.jti]
                 e == End(p)
      <4>2. x \in Int /\ e \in Int /\ x - mono >= e - wall
        BY <3>2, <3>4, <4>1
      <4> HIDE DEF x, e
      <4>3. x - mono' >= e - wall'
        BY <2>1, <4>2, Lag
      <4> QED
        BY <3>4, <4>3 DEF x, e
    <3> QED
      BY <3>1, <3>3, <3>4 DEF Covered
  <2>4. Accounted'
    BY <2>1 DEF Accounted
  <2> QED
    BY <1>0, <2>2, <2>3, <2>4
<1>6. CASE StepBack
  <2>1. Begun' /\ Covered' /\ Accounted'
    BY <1>6 DEF StepBack, Begun, Covered, Accounted
  <2> QED
    BY <1>0, <2>1
<1>7. CASE UNCHANGED vars
  <2>1. Begun' /\ Covered' /\ Accounted'
    BY <1>7 DEF vars, Begun, Covered, Accounted, Begin, FirstFresh, End, LastFresh
  <2> QED
    BY <1>0, <2>1
<1> QED
  BY <1>1, <1>2, <1>3, <1>4, <1>5, <1>6, <1>7 DEF Next

\* A covered proof that is still fresh is live in the store.
LEMMA CoveredIsLive == IndInv => RetainedWhileFresh
<1> SUFFICES ASSUME IndInv, ~steppedBack, NEW p \in recorded,
                    IsFresh(p.iat, NowSecs(wall))
             PROVE  IsLive(map, p.jti, mono)
  BY DEF RetainedWhileFresh
<1>1. p \in Proofs /\ mono \in Nat /\ wall \in Nat /\ wall \in 0 .. MaxWall
  BY ProofReplayAssumptions DEF IndInv, TypeOK
<1>2. wall < End(p) /\ End(p) \in Int
  BY <1>1, FreshTicks, TtlCoversWindow
<1>3. p.jti \in DOMAIN map /\ map[p.jti] - mono >= End(p) - wall
  BY <1>1, <1>2 DEF IndInv, Covered
<1>4. map[p.jti] \in Nat
  BY <1>3 DEF IndInv, TypeOK
<1> QED
  BY <1>1, <1>2, <1>3, <1>4 DEF IsLive

\* The replay store never forgets a jti whose proof is still fresh, while the
\* wall clock is not set back: `replay_ttl` covers the whole window, for every
\* max_age, tolerance, clock resolution and cap, and every iat an i64 holds.
THEOREM Retention == Spec => []RetainedWhileFresh
BY InitInv, IndStep, CoveredIsLive, PTL DEF Spec

\* With fail-closed errors, no validated proof passes the replay check twice
\* while it is fresh, whichever requests race.
THEOREM NoReplay == Spec => NoSecondUseWhileFresh
<1> DEFINE Once == \A p \in Proofs :
             (failClosed /\ ~steppedBack /\ uses[p] > 0 /\ uses'[p] # uses[p])
               => ~IsFresh(p.iat, NowSecs(wall))
<1>1. IndInv /\ [Next]_vars => [Once]_vars
  <2> SUFFICES ASSUME IndInv, Next, NEW p \in Proofs, failClosed, ~steppedBack,
                      uses[p] > 0, uses'[p] # uses[p],
                      IsFresh(p.iat, NowSecs(wall))
               PROVE  FALSE
    OBVIOUS
  <2>1. p \in recorded /\ IsLive(map, p.jti, mono)
    BY CoveredIsLive DEF IndInv, Accounted, RetainedWhileFresh
  <2>2. PICK t \in Threads : MarkNew(t)
    BY DEF Next, Check, Skip, Drop, MarkReplay, MarkErr, StoreDown, OnError,
           Tick, StepForward, StepBack
  <2>3. p = held[t]
    BY <2>2 DEF MarkNew, CountUse, IndInv, TypeOK
  <2>4. Answer(t) = "Replay"
    BY <2>1, <2>3, MarkAnswers DEF Answer
  <2> QED
    BY <2>2, <2>4 DEF MarkNew, Consume
<1> QED
  BY <1>1, InitInv, IndStep, PTL DEF Spec, NoSecondUseWhileFresh

\* What `(now - iat).abs() > window` lets through, exactly, for every window
\* that leaves `now + window` within an i64: the iats within the window, and
\* besides them a single one, i64::MAX + 1 seconds ago, whose distance wraps.
\* AcceptedWithinWindow is violated by that iat and by no other.
THEOREM AcceptsExactly ==
  ASSUME NEW iat \in MinInt .. MaxInt, NEW w \in 0 .. MaxWall,
         Window >= 0, NowSecs(MaxWall) + Window <= MaxInt
  PROVE  IsFresh(iat, NowSecs(w)) <=>
           \/ NowSecs(w) - iat \in -Window .. Window
           \/ NowSecs(w) - iat = MaxInt + 1
<1> DEFINE s == NowSecs(w)
           d == s - iat
           x == Wrap(d)
<1>1. s \in Nat /\ s + Window <= MaxInt
  BY SecondsBounded, Types DEF LastSec
<1> HIDE DEF s
<1>2. iat \in Int /\ d \in Int /\ MinInt <= d /\ d <= s + MaxInt + 1
  BY <1>1, Types
<1>3. x = IF d > MaxInt THEN d - Modulus ELSE d
  BY <1>2, Types DEF Wrap
<1>4. IsFresh(iat, s) <=> WrappingAbs(x) <= Window
  BY DEF IsFresh, WrappingSub
<1> HIDE DEF d, x
<1>5. CASE d <= MaxInt
  <2>1. x = d
    BY <1>2, <1>3, <1>5, Types
  <2>2. d # MinInt
    BY <1>1, <1>2, Types DEF d
  <2> QED
    BY <1>2, <1>4, <1>5, <2>1, <2>2, Types DEF WrappingAbs, d, s
<1>6. CASE d > MaxInt
  <2>1. x \in Int /\ x = d - Modulus /\ x < -Window /\ x < 0 /\ d > Window
    BY <1>1, <1>2, <1>3, <1>6, Types
  <2>2. WrappingAbs(x) <= Window <=> x = MinInt
    BY <2>1, Types DEF WrappingAbs
  <2>3. x = MinInt <=> d = MaxInt + 1
    BY <1>2, <2>1, Types
  <2> QED
    BY <1>2, <1>4, <2>1, <2>2, <2>3, Types DEF d, s
<1> QED
  BY <1>2, <1>5, <1>6, Types
=============================================================================
