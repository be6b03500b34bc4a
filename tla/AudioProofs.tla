----------------------------- MODULE AudioProofs -----------------------------
(***************************************************************************)
(* What holds of the sound for a ring of any length, packets of any size   *)
(* and any number of microphone requests and lost devices:                 *)
(*                                                                         *)
(*   - freed memory, a deadlock or a wrong microphone flag take two events *)
(*     that overlap (OverlapIsNeeded): LifeInv follows the two streams     *)
(*     through their recreation and the destructor, one part of it for     *)
(*     each of those hazards, under the condition that nothing overlapped; *)
(*   - packets are heard in their order (PacketsInOrder): RingInv says     *)
(*     that the numbers rise along the ring, from the one heard last;      *)
(*   - the count of bytes never drifts (AudioTypeCorrect): Counted, which  *)
(*     takes induction over the length of the ring.                        *)
(*                                                                         *)
(* That induction is the first part.  It is stated for sets of naturals    *)
(* (Induction) and rests on the least element of a set (Least); Recursion  *)
(* says that a recursion on the naturals defines a function.               *)
(***************************************************************************)
EXTENDS Audio, WellFoundedInduction, TLAPS

-----------------------------------------------------------------------------
\* INDUCTION

\* The least element of a set of naturals.
LEMMA Least ==
  ASSUME NEW S \in SUBSET Nat, S # {}
  PROVE  \E m \in S : \A n \in S : m <= n
<1> DEFINE R == OpToRel(<, Nat)
<1>1. IsWellFoundedOn(R, Nat)
  BY NatLessThanWellFounded
<1>2. \A x, y \in Nat : x < y => <<x, y>> \in R
  BY DEF OpToRel
<1> HIDE DEF R
<1>3. PICK m \in S : \A n \in S : ~ (<<n, m>> \in R)
  BY <1>1, WFMin
<1>4. ASSUME NEW n \in S PROVE m <= n
  <2>1. ~(n < m)
    BY <1>2, <1>3
  <2> QED BY <2>1
<1> QED BY <1>4

\* Induction, for a set: what holds of 0, and of n + 1 whenever of n.
LEMMA Induction ==
  ASSUME NEW S \in SUBSET Nat, 0 \in S, \A n \in S : n + 1 \in S
  PROVE  S = Nat
<1> SUFFICES ASSUME Nat \ S # {} PROVE FALSE
  OBVIOUS
<1>1. PICK m \in Nat \ S : \A n \in Nat \ S : m <= n
  BY Least
<1>2. m # 0
  BY <1>1
<1>3. m - 1 \in Nat /\ m - 1 < m /\ (m - 1) + 1 = m
  BY <1>2
<1>4. m - 1 \in S
  BY <1>1, <1>3
<1> QED BY <1>1, <1>3, <1>4

\* The first n + 1 values of a recursion.
Part(n, h, x0, F) == /\ DOMAIN h = 0 .. n /\ h = [k \in 0 .. n |-> h[k]]
                     /\ h[0] = x0
                     /\ \A k \in 0 .. n - 1 : h[k + 1] = F[<<k, h[k]>>]

\* Two parts of the same recursion agree.
LEMMA PartUnique ==
  ASSUME NEW n \in Nat, NEW m \in Nat, NEW g, NEW h, NEW x0, NEW F,
         Part(n, g, x0, F), Part(m, h, x0, F)
  PROVE  \A k \in Nat : k <= n /\ k <= m => g[k] = h[k]
<1> DEFINE S == {k \in Nat : k <= n /\ k <= m => g[k] = h[k]}
<1>1. 0 \in S
  BY DEF Part
<1>2. ASSUME NEW k \in S PROVE k + 1 \in S
  <2> SUFFICES ASSUME k + 1 <= n, k + 1 <= m PROVE g[k + 1] = h[k + 1]
    OBVIOUS
  <2>1. k \in 0 .. n - 1 /\ k \in 0 .. m - 1
    OBVIOUS
  <2>2. g[k + 1] = F[<<k, g[k]>>] /\ h[k + 1] = F[<<k, h[k]>>]
    BY <2>1 DEF Part
  <2>3. g[k] = h[k]
    BY <2>1
  <2> QED BY <2>2, <2>3
<1>3. S = Nat
  <2> HIDE DEF S
  <2>1. S \in SUBSET Nat
    BY DEF S
  <2> QED BY <1>1, <1>2, <2>1, Induction
<1> QED BY <1>3

\* A recursion defines a function.
LEMMA Recursion ==
  ASSUME NEW x0 \in Nat, NEW F \in [Nat \X Nat -> Nat]
  PROVE  \E f \in [Nat -> Nat] : f[0] = x0 /\ \A k \in Nat : f[k + 1] = F[<<k, f[k]>>]
<1> DEFINE S == {n \in Nat : \E h \in [0 .. n -> Nat] : Part(n, h, x0, F)}
           value(n) == CHOOSE h \in [0 .. n -> Nat] : Part(n, h, x0, F)
           f == [n \in Nat |-> value(n)[n]]
<1>1. 0 \in S
  <2> DEFINE h == [k \in 0 .. 0 |-> x0]
  <2>1. h \in [0 .. 0 -> Nat] /\ Part(0, h, x0, F)
    BY DEF Part
  <2> QED BY <2>1
<1>2. ASSUME NEW n \in S PROVE n + 1 \in S
  <2>1. PICK h \in [0 .. n -> Nat] : Part(n, h, x0, F)
    OBVIOUS
  <2> DEFINE g == [k \in 0 .. n + 1 |-> IF k <= n THEN h[k] ELSE F[<<n, h[n]>>]]
  <2>2. h[n] \in Nat /\ F[<<n, h[n]>>] \in Nat
    OBVIOUS
  <2>3. g \in [0 .. n + 1 -> Nat]
    BY <2>2
  <2>4. g[0] = x0
    BY <2>1 DEF Part
  <2>5. ASSUME NEW k \in 0 .. (n + 1) - 1 PROVE g[k + 1] = F[<<k, g[k]>>]
    <3>1. k \in 0 .. n /\ k + 1 \in 0 .. n + 1 /\ g[k] = h[k]
      OBVIOUS
    <3>2. CASE k = n
      <4>1. g[n + 1] = F[<<n, h[n]>>]
        OBVIOUS
      <4> HIDE DEF g
      <4> QED BY <3>1, <3>2, <4>1
    <3>3. CASE k # n
      <4>1. k \in 0 .. n - 1 /\ g[k + 1] = h[k + 1]
        BY <3>1, <3>3
      <4> QED BY <2>1, <3>1, <4>1 DEF Part
    <3> QED BY <3>2, <3>3
  <2> HIDE DEF g
  <2>6. Part(n + 1, g, x0, F)
    BY <2>3, <2>4, <2>5 DEF Part
  <2>7. n + 1 \in Nat
    OBVIOUS
  <2> QED BY <2>3, <2>6, <2>7
<1> HIDE DEF S
<1>3. S = Nat
  <2>1. S \in SUBSET Nat
    BY DEF S
  <2> QED BY <1>1, <1>2, <2>1, Induction
<1>4. ASSUME NEW n \in Nat PROVE value(n) \in [0 .. n -> Nat] /\ Part(n, value(n), x0, F)
  BY <1>3 DEF S
<1> HIDE DEF value
<1>5. f \in [Nat -> Nat]
  BY <1>4
<1>6. f[0] = x0
  BY <1>4 DEF Part
<1>7. ASSUME NEW k \in Nat PROVE f[k + 1] = F[<<k, f[k]>>]
  <2>1. k + 1 \in Nat /\ k \in 0 .. (k + 1) - 1
    OBVIOUS
  <2>2. value(k + 1)[k + 1] = F[<<k, value(k + 1)[k]>>]
    BY <1>4, <2>1 DEF Part
  <2>3. value(k + 1)[k] = value(k)[k]
    BY <1>4, <2>1, PartUnique
  <2> QED BY <2>1, <2>2, <2>3
<1> QED BY <1>5, <1>6, <1>7

\* The totals, by their recursion.
LEMMA TotalIs ==
  ASSUME NEW size \in [Nat -> Nat]
  PROVE  /\ Total(size) \in [Nat -> Nat]
         /\ Total(size)[0] = 0
         /\ \A k \in Nat : Total(size)[k + 1] = Total(size)[k] + size[k + 1]
<1> DEFINE F == [p \in Nat \X Nat |-> p[2] + size[p[1] + 1]]
<1>1. F \in [Nat \X Nat -> Nat] /\ \A k, s \in Nat : F[<<k, s>>] = s + size[k + 1]
  OBVIOUS
<1> HIDE DEF F
<1>2. PICK f \in [Nat -> Nat] : f[0] = 0 /\ \A k \in Nat : f[k + 1] = F[<<k, f[k]>>]
  <2>1. 0 \in Nat /\ F \in [Nat \X Nat -> Nat]
    BY <1>1
  <2> QED BY <2>1, Recursion
<1>3. f = [k \in Nat |-> IF k = 0 THEN 0 ELSE f[k - 1] + size[k]]
  <2>1. ASSUME NEW k \in Nat, k # 0 PROVE f[k] = f[k - 1] + size[k]
    <3>1. k - 1 \in Nat /\ (k - 1) + 1 = k
      BY <2>1
    <3> QED BY <1>1, <1>2, <3>1
  <2> QED BY <1>2, <2>1
<1> DEFINE g == Total(size)
<1>4. g = [k \in Nat |-> IF k = 0 THEN 0 ELSE g[k - 1] + size[k]]
  BY <1>3 DEF Total
<1> HIDE DEF g
<1>5. g[0] = 0 /\ \A k \in Nat : g[k + 1] = g[k] + size[k + 1]
  BY <1>4
<1> DEFINE S == {k \in Nat : g[k] \in Nat}
<1>6. S = Nat
  <2>1. S \in SUBSET Nat /\ 0 \in S
    BY <1>5
  <2>2. \A k \in S : k + 1 \in S
    BY <1>5
  <2> HIDE DEF S
  <2> QED BY <2>1, <2>2, Induction
<1>7. g \in [Nat -> Nat]
  BY <1>4, <1>6
<1> QED BY <1>5, <1>7 DEF g

\* Totals of the same sizes are the same; without the first, less by its size.
LEMMA TotalsSame ==
  ASSUME NEW size \in [Nat -> Nat], NEW other \in [Nat -> Nat], NEW n \in Nat,
         \A k \in 1 .. n : other[k] = size[k]
  PROVE  Total(other)[n] = Total(size)[n]
<1> DEFINE S == {k \in Nat : k <= n => Total(other)[k] = Total(size)[k]}
<1>1. 0 \in S
  BY TotalIs
<1>2. ASSUME NEW k \in S PROVE k + 1 \in S
  <2> SUFFICES ASSUME k + 1 <= n PROVE Total(other)[k + 1] = Total(size)[k + 1]
    OBVIOUS
  <2>1. k \in Nat /\ other[k + 1] = size[k + 1] /\ Total(other)[k] = Total(size)[k]
    OBVIOUS
  <2>2. /\ Total(other)[k + 1] = Total(other)[k] + other[k + 1]
        /\ Total(size)[k + 1] = Total(size)[k] + size[k + 1]
    <3> HIDE DEF S
    <3> QED BY <2>1, TotalIs
  <2> QED BY <2>1, <2>2
<1>3. S = Nat
  <2> HIDE DEF S
  <2>1. S \in SUBSET Nat
    BY DEF S
  <2> QED BY <1>1, <1>2, <2>1, Induction
<1> QED BY <1>3

\* Without the first size, the totals are less by it.
LEMMA TotalsShifted ==
  ASSUME NEW size \in [Nat -> Nat], NEW other \in [Nat -> Nat], NEW n \in Nat,
         \A k \in 1 .. n : other[k] = size[k + 1]
  PROVE  Total(other)[n] = Total(size)[n + 1] - size[1]
<1> DEFINE S == {k \in Nat : k <= n => Total(other)[k] = Total(size)[k + 1] - size[1]}
<1>1. 0 \in S
  <2>1. Total(size)[0 + 1] = Total(size)[0] + size[0 + 1] /\ Total(size)[0] = 0
        /\ Total(other)[0] = 0 /\ size[1] \in Nat
    BY TotalIs
  <2> QED BY <2>1
<1>2. ASSUME NEW k \in S PROVE k + 1 \in S
  <2> SUFFICES ASSUME k + 1 <= n
               PROVE  Total(other)[k + 1] = Total(size)[(k + 1) + 1] - size[1]
    OBVIOUS
  <2>1. other[k + 1] = size[(k + 1) + 1] /\ Total(other)[k] = Total(size)[k + 1] - size[1]
    OBVIOUS
  <2>0. k \in Nat /\ k + 1 \in Nat /\ (k + 1) + 1 \in Nat /\ 1 \in Nat
    OBVIOUS
  <2>2. /\ Total(other)[k + 1] = Total(other)[k] + other[k + 1]
        /\ Total(size)[(k + 1) + 1] = Total(size)[k + 1] + size[(k + 1) + 1]
    <3> HIDE DEF S
    <3> QED BY <2>0, TotalIs
  <2>3. Total(size)[k + 1] \in Nat /\ size[1] \in Nat /\ size[(k + 1) + 1] \in Nat
    <3> HIDE DEF S
    <3> QED BY <2>0, TotalIs
  <2> QED BY <2>1, <2>2, <2>3
<1>3. S = Nat
  <2> HIDE DEF S
  <2>1. S \in SUBSET Nat
    BY DEF S
  <2> QED BY <1>1, <1>2, <2>1, Induction
<1> QED BY <1>3

\* A remainder is known by its range.
LEMMA Remainder ==
  ASSUME NEW w \in Nat, w > 0, NEW q \in Int, NEW r \in 0 .. w - 1, NEW p \in Int,
         NEW s \in 0 .. w - 1, w * q + r = w * p + s
  PROVE  r = s
<1>1. ASSUME NEW d \in Int, d >= 1 PROVE w * d >= w
  BY <1>1
<1>2. w * (q - p) = s - r /\ w * (p - q) = r - s
  OBVIOUS
<1>3. q - p < 1
  <2> SUFFICES ASSUME q - p >= 1 PROVE FALSE
    OBVIOUS
  <2>1. q - p \in Int
    OBVIOUS
  <2>2. w * (q - p) >= w
    BY <1>1, <2>1
  <2>3. s - r < w
    OBVIOUS
  <2> QED BY <1>2, <2>2, <2>3
<1>4. p - q < 1
  <2> SUFFICES ASSUME p - q >= 1 PROVE FALSE
    OBVIOUS
  <2>1. p - q \in Int
    OBVIOUS
  <2>2. w * (p - q) >= w
    BY <1>1, <2>1
  <2>3. r - s < w
    OBVIOUS
  <2> QED BY <1>2, <2>2, <2>3
<1>5. p = q
  BY <1>3, <1>4
<1> QED BY <1>5

\* Quotient and remainder.
LEMMA Divided ==
  ASSUME NEW a \in Int, NEW w \in Nat, w > 0
  PROVE  a \div w \in Int /\ a % w \in 0 .. w - 1 /\ a = w * (a \div w) + (a % w)
OBVIOUS

\* What is added to a remainder may be added before.
LEMMA ModAdd ==
  ASSUME NEW a \in Int, NEW b \in Int, NEW w \in Nat, w > 0
  PROVE  ((a % w) + b) % w = (a + b) % w
<1> DEFINE q == a \div w
           r == a % w
<1>1. q \in Int /\ r \in 0 .. w - 1 /\ a = w * q + r
  BY Divided
<1> HIDE DEF q, r
<1> DEFINE p == (r + b) \div w
           s == (r + b) % w
           t == (a + b) \div w
           u == (a + b) % w
<1>2. p \in Int /\ s \in 0 .. w - 1 /\ r + b = w * p + s
  <2>1. r + b \in Int
    BY <1>1
  <2> QED BY <2>1, Divided
<1>3. t \in Int /\ u \in 0 .. w - 1 /\ a + b = w * t + u
  <2>1. a + b \in Int
    OBVIOUS
  <2> QED BY <2>1, Divided
<1> HIDE DEF p, s, t, u
<1>4. w * (q + p) = w * q + w * p
  BY <1>1, <1>2
<1>5. w * (q + p) + s = w * t + u
  BY <1>1, <1>2, <1>3, <1>4
<1>6. q + p \in Int
  BY <1>1, <1>2
<1>7. s = u
  BY <1>2, <1>3, <1>5, <1>6, Remainder
<1> QED BY <1>7 DEF s, u, r

-----------------------------------------------------------------------------
\* THE INVARIANTS

\* Nothing but the microphone has overlapped.
Settled == overlap \cap {"errors", "end", "toggle"} = {}

\* Stream k waits for a thread to open it again.
Reopening(k) == err[k] # "idle" \/ (worker.at \in {"lock", "close"} /\ worker.of = k)

\* Nothing is pending once the session is gone, one device at a time before;
\* no stream is closed but by recreate_thread or the destructor.
Alone ==
    /\ Pending => session
    /\ \A k \in AudioStreams : err[k] # "idle" =>
          /\ worker.at = None
          /\ \A l \in AudioStreams : l # k => err[l] = "idle"
    /\ \A k \in AudioStreams : Reopening(k) => stream[k] = "broken"
    /\ worker.at = "build" => stream[worker.of] = "closed"
    /\ worker.at = "finish" => stream[worker.of] \in {None, "stopped"}

Closing == {"exit", "stop", "copy", "close speaker", "close microphone", "lock",
            "join", "gone"}

\* What the destructor has copied is what the members point to, and what it
\* has closed stays closed.
Destroyed ==
    /\ \A k \in AudioStreams : stream[k] = "closed" =>
          \/ worker.at = "build" /\ worker.of = k
          \/ net.at \in {"close microphone", "lock", "join", "gone"} /\ k = "speaker"
          \/ net.at \in {"lock", "join", "gone"} /\ k = "microphone"
    /\ net.at = "close speaker" =>
          \A k \in AudioStreams : copies[k] = IF stream[k] = None THEN None ELSE "live"
    /\ net.at = "close microphone" =>
          /\ stream["speaker"] \in {None, "closed"}
          /\ copies["microphone"] = IF stream["microphone"] = None THEN None ELSE "live"
    /\ net.at \in {"lock", "join", "gone"} =>
          \A k \in AudioStreams : stream[k] \in {None, "closed"}

\* Without the session, only a microphone that ran when it ended calls it.
SessionUsed ==
    /\ session <=> net.at \notin Closing
    /\ exiting => ~session
    /\ ~session /\ (stream["microphone"] = "started" \/ mic = "send")
          => "microphone" \in overlap
    /\ fault = "session" => "microphone" \in overlap

\* The flag, where a request or a recreation is under way as well.
FlagKept ==
    /\ mic = "ending" => ~mic_running
    /\ net.at = "mic" =>
          /\ ~Pending /\ mic # "ending" /\ mic_running = net.want
          /\ stream["microphone"] = IF net.want THEN "stopped" ELSE "started"
    /\ worker.at # None => joinable
    /\ worker.at = "finish" /\ worker.of = "microphone" => stream["microphone"] # "started"
    /\ stream["microphone"] = "broken" => Reopening("microphone")
    /\ stream["microphone"] = "closed" => worker.at = "build" /\ worker.of = "microphone"
    /\ worker.at = "build" /\ worker.of = "microphone" => stream["microphone"] = "closed"
    /\ /\ stream["microphone"] \in {None, "stopped", "started"}
       /\ net.at # "mic" /\ mic # "ending"
       /\ ~(worker.at = "finish" /\ worker.of = "microphone")
       => (mic_running <=> stream["microphone"] = "started")

\* The ring, from the slot after output_read to the one at output_write.
Ahead(i, j) == IF j >= i THEN j - i ELSE j - i + Capacity
Count == Ahead(output_read, output_write)
InRing(i) == Ahead(output_read, i) \in 1 .. Count

Ordered ==
    \A i, j \in 0 .. Capacity - 1 :
       InRing(i) /\ InRing(j) /\ Ahead(output_read, i) < Ahead(output_read, j)
          => slots[i].n < slots[j].n

AfterHeard ==
    /\ heard <= packets
    /\ \A i \in 0 .. Capacity - 1 : InRing(i) =>
          /\ slots[i].n <= packets
          /\ IF Ahead(output_read, i) = 1 /\ spk.at = "advance"
             THEN slots[i].n = heard ELSE slots[i].n > heard

Published ==
    /\ spk.at \in {"move", "advance"} => Count >= 1
    /\ net.at \in {"write", "publish"} =>
          /\ Count < Capacity - 1 /\ heard < packets
          /\ \A i \in 0 .. Capacity - 1 : InRing(i) => slots[i].n < packets
    /\ net.at = "publish" => slots[NextSlot(output_write)].n = packets

Rising == Ordered /\ AfterHeard /\ Published

RingInv == RingTypes /\ NetTypes /\ Rising

LifeInv ==
    /\ NetTypes /\ LifeTypes
    /\ SessionUsed
    /\ fault = None /\ Settled => Alone /\ Destroyed
    /\ fault = None /\ session /\ "toggle" \notin overlap => FlagKept
    /\ FaultNeedsOverlap

-----------------------------------------------------------------------------
\* THE STREAMS

\* The two streams.
LEMMA Two == /\ "speaker" \in AudioStreams /\ "microphone" \in AudioStreams
             /\ \A k \in AudioStreams : k = "speaker" \/ k = "microphone"
BY DEF AudioStreams

\* The steps that are none of the ring's.
LifeStep ==
  \/ SpeakerCallback
  \/ \E running \in BOOLEAN : SetMicState(running)
  \/ SetMicRequest \/ EndSession \/ Exit \/ ExitStop \/ DestroyCopy
  \/ \E k \in AudioStreams : DestroyClose(k)
  \/ DestroyLock \/ DestroyJoin
  \/ MicrophoneCallback \/ MicrophoneSend \/ MicrophoneEnds
  \/ WorkerLock \/ WorkerClose \/ WorkerBuild \/ WorkerFinish
  \/ \E k \in AudioStreams : \/ DeviceLost(k) \/ ErrorCheck(k) \/ ErrorLock(k)
                             \/ ErrorSpawn(k) \/ Survivor(k)

\* The types of the streams' variables, action by action.
LEMMA LifeTypesKept ==
  ASSUME NetTypes, LifeTypes, LifeStep
  PROVE  NetTypes' /\ LifeTypes'
<1>1. CASE SpeakerCallback
  <2>1. NetTypes'
    BY <1>1 DEF SpeakerCallback, NetTypes
  <2>2. stream' \in [AudioStreams -> {None, "stopped", "started", "broken", "closed"}]
    BY <1>1, Two DEF SpeakerCallback, LifeTypes
  <2>3. UNCHANGED <<exiting, mic_running, mutex, joinable, worker, err, mic, copies, session,
                    events, overlap, fault>>
    BY <1>1 DEF SpeakerCallback
  <2> QED BY <2>1, <2>2, <2>3 DEF LifeTypes
<1>2. ASSUME NEW running \in BOOLEAN, SetMicState(running) PROVE NetTypes' /\ LifeTypes'
  <2>1. NetTypes'
    BY <1>2 DEF SetMicState, NetTypes
  <2>2. overlap' \subseteq Overlaps
    BY <1>2 DEF SetMicState, LifeTypes, Overlaps
  <2>3. events' \in 0 .. MaxEvents
    BY <1>2, AudioAssumption DEF SetMicState, LifeTypes
  <2>4. UNCHANGED <<joinable, worker, mutex, mic, copies, fault, session, exiting>>
    BY <1>2 DEF SetMicState, ringVars
  <2>5. /\ err' \in [AudioStreams -> {"idle", "check", "lock", "join"}]
        /\ stream' \in [AudioStreams -> {None, "stopped", "started", "broken", "closed"}]
        /\ mic_running' \in BOOLEAN
    BY <1>2 DEF SetMicState, LifeTypes
  <2> QED BY <2>1, <2>2, <2>3, <2>4, <2>5 DEF LifeTypes
<1>3. CASE SetMicRequest
  <2>1. NetTypes'
    BY <1>3 DEF SetMicRequest, Request, NetTypes
  <2>2. overlap' \subseteq Overlaps
    BY <1>3 DEF SetMicRequest, Request, LifeTypes, Overlaps
  <2>3. /\ stream' \in [AudioStreams -> {None, "stopped", "started", "broken", "closed"}]
        /\ fault' \in {None, "freed", "session"}
    BY <1>3, Two DEF SetMicRequest, Request, LifeTypes, None
  <2>4. UNCHANGED <<exiting, mic_running, mutex, joinable, worker, err, mic, copies, session,
                    events>>
    BY <1>3 DEF SetMicRequest
  <2> QED BY <2>1, <2>2, <2>3, <2>4 DEF LifeTypes
<1>4. CASE EndSession
  <2>1. NetTypes'
    BY <1>4 DEF EndSession, NetTypes
  <2>2. overlap' \subseteq Overlaps
    BY <1>4 DEF EndSession, LifeTypes, Overlaps
  <2> QED BY <1>4, <2>1, <2>2, Two DEF EndSession, LifeTypes, ringVars, lifeVars, None
<1>5. CASE Exit
  <2>1. NetTypes'
    BY <1>5 DEF Exit, NetTypes
  <2> QED BY <1>5, <2>1, Two DEF Exit, LifeTypes, ringVars, lifeVars, None
<1>6. CASE ExitStop
  <2>1. NetTypes'
    BY <1>6 DEF ExitStop, NetTypes
  <2> QED BY <1>6, <2>1, Two DEF ExitStop, LifeTypes, ringVars, lifeVars, None
<1>7. CASE DestroyCopy
  <2>1. NetTypes'
    BY <1>7 DEF DestroyCopy, NetTypes
  <2>2. copies' \in [AudioStreams -> {None, "live", "dead"}]
    BY <1>7 DEF DestroyCopy
  <2>3. UNCHANGED <<stream, exiting, mic_running, mutex, joinable, worker, err, mic, session,
                    events, overlap, fault>>
    BY <1>7 DEF DestroyCopy
  <2> QED BY <2>1, <2>2, <2>3 DEF LifeTypes
<1>8. ASSUME NEW k \in AudioStreams, DestroyClose(k) PROVE NetTypes' /\ LifeTypes'
  <2>1. NetTypes'
    BY <1>8 DEF DestroyClose, NetTypes
  <2> QED BY <1>8, <2>1, Two DEF DestroyClose, LifeTypes, ringVars, lifeVars, None
<1>9. CASE DestroyLock
  <2>1. NetTypes'
    BY <1>9 DEF DestroyLock, NetTypes
  <2> QED BY <1>9, <2>1, Two DEF DestroyLock, LifeTypes, ringVars, lifeVars, None
<1>10. CASE DestroyJoin
  <2>1. NetTypes'
    BY <1>10 DEF DestroyJoin, NetTypes
  <2> QED BY <1>10, <2>1, Two DEF DestroyJoin, LifeTypes, ringVars, lifeVars, None
<1>11. CASE MicrophoneCallback
  <2>1. NetTypes'
    BY <1>11 DEF MicrophoneCallback, NetTypes
  <2>2. stream' \in [AudioStreams -> {None, "stopped", "started", "broken", "closed"}]
    BY <1>11, Two DEF MicrophoneCallback, LifeTypes
  <2>3. mic' \in {"idle", "send", "ending"} /\ mic_running' \in BOOLEAN
    BY <1>11 DEF MicrophoneCallback, LifeTypes
  <2>4. UNCHANGED <<exiting, mutex, joinable, worker, err, copies, session, events, overlap,
                    fault>>
    BY <1>11 DEF MicrophoneCallback
  <2> QED BY <2>1, <2>2, <2>3, <2>4 DEF LifeTypes
<1>12. CASE MicrophoneSend
  <2>1. NetTypes'
    BY <1>12 DEF MicrophoneSend, NetTypes
  <2>2. overlap' \subseteq Overlaps
    BY <1>12 DEF MicrophoneSend, LifeTypes, Overlaps
  <2> QED BY <1>12, <2>1, <2>2, Two DEF MicrophoneSend, LifeTypes, ringVars, lifeVars, None
<1>13. CASE MicrophoneEnds
  <2>1. NetTypes'
    BY <1>13 DEF MicrophoneEnds, NetTypes
  <2> QED BY <1>13, <2>1, Two DEF MicrophoneEnds, LifeTypes, ringVars, lifeVars, None
<1>14. CASE WorkerLock
  <2>1. NetTypes'
    BY <1>14 DEF WorkerLock, NetTypes
  <2> QED BY <1>14, <2>1, Two DEF WorkerLock, LifeTypes, ringVars, lifeVars, None
<1>15. CASE WorkerClose
  <2>1. NetTypes'
    BY <1>15 DEF WorkerClose, NetTypes
  <2> QED BY <1>15, <2>1, Two DEF WorkerClose, LifeTypes, ringVars, lifeVars, None
<1>16. CASE WorkerBuild
  <2>1. NetTypes'
    BY <1>16 DEF WorkerBuild, NetTypes
  <2> QED BY <1>16, <2>1, Two DEF WorkerBuild, LifeTypes, ringVars, lifeVars, None
<1>17. CASE WorkerFinish
  <2>1. NetTypes'
    BY <1>17 DEF WorkerFinish, Request, NetTypes
  <2> QED BY <1>17, <2>1, Two DEF WorkerFinish, Request, LifeTypes, ringVars, lifeVars, None
<1>18. ASSUME NEW k \in AudioStreams, DeviceLost(k) PROVE NetTypes' /\ LifeTypes'
  <2>1. NetTypes'
    BY <1>18 DEF DeviceLost, NetTypes
  <2>2. overlap' \subseteq Overlaps
    BY <1>18 DEF DeviceLost, LifeTypes, Overlaps
  <2>3. events' \in 0 .. MaxEvents
    BY <1>18, AudioAssumption DEF DeviceLost, LifeTypes
  <2>4. UNCHANGED <<joinable, worker, mutex, mic, copies, fault, session, exiting>>
    BY <1>18 DEF DeviceLost, ringVars
  <2>5. /\ err' \in [AudioStreams -> {"idle", "check", "lock", "join"}]
        /\ stream' \in [AudioStreams -> {None, "stopped", "started", "broken", "closed"}]
        /\ mic_running' \in BOOLEAN
    BY <1>18 DEF DeviceLost, LifeTypes
  <2> QED BY <2>1, <2>2, <2>3, <2>4, <2>5 DEF LifeTypes
<1>19. ASSUME NEW k \in AudioStreams, ErrorCheck(k) PROVE NetTypes' /\ LifeTypes'
  <2>1. NetTypes'
    BY <1>19 DEF ErrorCheck, NetTypes
  <2> QED BY <1>19, <2>1, Two DEF ErrorCheck, LifeTypes, ringVars, lifeVars, None
<1>20. ASSUME NEW k \in AudioStreams, ErrorLock(k) PROVE NetTypes' /\ LifeTypes'
  <2>1. NetTypes'
    BY <1>20 DEF ErrorLock, NetTypes
  <2> QED BY <1>20, <2>1, Two DEF ErrorLock, LifeTypes, ringVars, lifeVars, None
<1>21. ASSUME NEW k \in AudioStreams, ErrorSpawn(k) PROVE NetTypes' /\ LifeTypes'
  <2>1. NetTypes'
    BY <1>21 DEF ErrorSpawn, NetTypes
  <2> QED BY <1>21, <2>1, Two DEF ErrorSpawn, LifeTypes, ringVars, lifeVars, None
<1>22. ASSUME NEW k \in AudioStreams, Survivor(k) PROVE NetTypes' /\ LifeTypes'
  <2>1. NetTypes'
    BY <1>22 DEF Survivor, NetTypes
  <2> QED BY <1>22, <2>1, Two DEF Survivor, LifeTypes, ringVars, lifeVars, None
<1> QED BY <1>1, <1>2, <1>3, <1>4, <1>5, <1>6, <1>7, <1>8, <1>9, <1>10, <1>11, <1>12,
           <1>13, <1>14, <1>15, <1>16, <1>17, <1>18, <1>19, <1>20, <1>21, <1>22 DEF
           LifeStep

\* The session ends once, and who still uses it was switched on.
LEMMA SessionKept ==
  ASSUME NetTypes, LifeTypes, LifeStep, SessionUsed
  PROVE  SessionUsed'
<1>1. CASE SpeakerCallback
  BY <1>1, Two DEF SpeakerCallback, SessionUsed, LifeTypes
<1>2. ASSUME NEW running \in BOOLEAN, SetMicState(running) PROVE SessionUsed'
  BY <1>2 DEF SetMicState, SessionUsed, Closing, NetTypes
<1>3. CASE SetMicRequest
  BY <1>3 DEF SetMicRequest, Request, SessionUsed, Closing
<1>4. CASE EndSession
  BY <1>4 DEF EndSession, SessionUsed, Closing
<1>5. CASE Exit
  BY <1>5 DEF Exit, SessionUsed, Closing
<1>6. CASE ExitStop
  <2>1. /\ stream'["microphone"] = "started" => stream["microphone"] = "started"
        /\ mic' = mic /\ session' = session /\ exiting' = exiting /\ overlap' = overlap
        /\ net.at = "stop" /\ net'.at = "copy" /\ (fault' = "session" => fault = "session")
    BY <1>6, Two DEF ExitStop, NetTypes, ringVars
  <2> QED BY <2>1 DEF SessionUsed, Closing
<1>7. CASE DestroyCopy
  BY <1>7 DEF DestroyCopy, SessionUsed, Closing, NetTypes
<1>8. ASSUME NEW k \in AudioStreams, DestroyClose(k) PROVE SessionUsed'
  BY <1>8, Two DEF DestroyClose, SessionUsed, Closing, NetTypes, LifeTypes
<1>9. CASE DestroyLock
  BY <1>9 DEF DestroyLock, SessionUsed, Closing
<1>10. CASE DestroyJoin
  BY <1>10 DEF DestroyJoin, SessionUsed, Closing
<1>11. CASE MicrophoneCallback
  BY <1>11 DEF MicrophoneCallback, SessionUsed
<1>12. CASE MicrophoneSend
  BY <1>12 DEF MicrophoneSend, SessionUsed
<1>13. CASE MicrophoneEnds
  BY <1>13 DEF MicrophoneEnds, SessionUsed
<1>14. CASE WorkerLock
  BY <1>14 DEF WorkerLock, SessionUsed
<1>15. CASE WorkerClose
  <2>1. /\ stream'["microphone"] = "started" => stream["microphone"] = "started"
        /\ mic' = mic /\ session' = session /\ net' = net /\ exiting' = exiting
        /\ overlap' = overlap /\ (fault' = "session" => fault = "session")
    BY <1>15, Two DEF WorkerClose, LifeTypes, ringVars
  <2> QED BY <2>1 DEF SessionUsed
<1>16. CASE WorkerBuild
  <2>1. /\ stream'["microphone"] = "started" => stream["microphone"] = "started"
        /\ mic' = mic /\ session' = session /\ net' = net /\ exiting' = exiting
        /\ overlap' = overlap /\ fault' = fault
    BY <1>16, Two DEF WorkerBuild, LifeTypes, None
  <2> QED BY <2>1 DEF SessionUsed
<1>17. CASE WorkerFinish
  BY <1>17, Two DEF WorkerFinish, Request, SessionUsed, LifeTypes
<1>18. ASSUME NEW k \in AudioStreams, DeviceLost(k) PROVE SessionUsed'
  BY <1>18 DEF DeviceLost, SessionUsed
<1>19. ASSUME NEW k \in AudioStreams, ErrorCheck(k) PROVE SessionUsed'
  BY <1>19 DEF ErrorCheck, SessionUsed
<1>20. ASSUME NEW k \in AudioStreams, ErrorLock(k) PROVE SessionUsed'
  BY <1>20 DEF ErrorLock, SessionUsed
<1>21. ASSUME NEW k \in AudioStreams, ErrorSpawn(k) PROVE SessionUsed'
  BY <1>21 DEF ErrorSpawn, SessionUsed
<1>22. ASSUME NEW k \in AudioStreams, Survivor(k) PROVE SessionUsed'
  BY <1>22 DEF Survivor, SessionUsed, lifeVars
<1> QED BY <1>1, <1>2, <1>3, <1>4, <1>5, <1>6, <1>7, <1>8, <1>9, <1>10, <1>11, <1>12,
           <1>13, <1>14, <1>15, <1>16, <1>17, <1>18, <1>19, <1>20, <1>21, <1>22 DEF
           LifeStep

\* The connection ends with nothing pending and nothing closed.
LEMMA StopsOpen ==
  ASSUME NetTypes, LifeTypes, SessionUsed, Alone, Destroyed, net.at = "stop"
  PROVE  ~Pending /\ \A k \in AudioStreams : stream[k] # "closed"
<1>1. ~Pending
  BY DEF SessionUsed, Closing, Alone
<1> QED BY <1>1 DEF Destroyed, Pending, None

\* To stop the streams opens and closes none.
LEMMA Stops ==
  ASSUME NetTypes, LifeTypes, SessionUsed, Alone, Destroyed, ExitStop
  PROVE  /\ fault' = fault /\ net.at = "stop" /\ net'.at = "copy"
         /\ UNCHANGED <<worker, err, session, copies, joinable>>
         /\ \A k \in AudioStreams : stream'[k] = stream[k] \/
               (stream[k] = "started" /\ stream'[k] = "stopped")
BY StopsOpen, Two DEF ExitStop, NetTypes, ringVars

\* Only then may a step be taken with a device pending.
LEMMA Sessions ==
  ASSUME SessionUsed, Alone, Pending
  PROVE  session /\ ~exiting /\ net.at \notin Closing
BY DEF SessionUsed, Alone

\* Short of an overlap a device is recreated alone.
LEMMA AloneKept ==
  ASSUME NetTypes, LifeTypes, LifeStep,
         SessionUsed, Alone, Destroyed, fault = None, fault' = None, Settled'
  PROVE  Alone'
<1>1. CASE SpeakerCallback
  <2>1. /\ UNCHANGED <<worker, err, session>>
        /\ \A k \in AudioStreams : stream'[k] = stream[k] \/
              (stream[k] = "started" /\ stream'[k] = "stopped")
    BY <1>1, Two DEF SpeakerCallback, LifeTypes, ringVars
  <2> QED BY <2>1, Two DEF Alone, Pending, Reopening, LifeTypes
<1>2. ASSUME NEW running \in BOOLEAN, SetMicState(running) PROVE Alone'
  BY <1>2 DEF SetMicState, Settled, Alone, Pending, Reopening
<1>3. CASE SetMicRequest
  BY <1>3 DEF SetMicRequest, Settled, Alone, Pending, Reopening, None
<1>4. CASE EndSession
  BY <1>4 DEF EndSession, Settled, Alone, Pending, Reopening
<1>5. CASE Exit
  <2>1. UNCHANGED <<stream, worker, err, session>>
    BY <1>5 DEF Exit, ringVars
  <2> QED BY <2>1 DEF Alone, Pending, Reopening
<1>6. CASE ExitStop
  BY <1>6, Stops, Two DEF Alone, Pending, Reopening, LifeTypes
<1>7. CASE DestroyCopy
  <2>1. UNCHANGED <<stream, worker, err, session>>
    BY <1>7 DEF DestroyCopy, ringVars
  <2> QED BY <2>1 DEF Alone, Pending, Reopening
<1>8. ASSUME NEW k \in AudioStreams, DestroyClose(k) PROVE Alone'
  BY <1>8 DEF DestroyClose, SessionUsed, Alone, Pending, Reopening, Closing, None
<1>9. CASE DestroyLock
  <2>1. UNCHANGED <<stream, worker, err, session>>
    BY <1>9 DEF DestroyLock, ringVars
  <2> QED BY <2>1 DEF Alone, Pending, Reopening
<1>10. CASE DestroyJoin
  <2>1. UNCHANGED <<stream, worker, err, session>>
    BY <1>10 DEF DestroyJoin, ringVars
  <2> QED BY <2>1 DEF Alone, Pending, Reopening
<1>11. CASE MicrophoneCallback
  <2>1. /\ UNCHANGED <<worker, err, session>>
        /\ \A k \in AudioStreams : stream'[k] = stream[k] \/
              (stream[k] = "started" /\ stream'[k] = "stopped")
    BY <1>11, Two DEF MicrophoneCallback, LifeTypes, ringVars
  <2> QED BY <2>1, Two DEF Alone, Pending, Reopening, LifeTypes
<1>12. CASE MicrophoneSend
  <2>1. UNCHANGED <<stream, worker, err, session>>
    BY <1>12 DEF MicrophoneSend, ringVars
  <2> QED BY <2>1 DEF Alone, Pending, Reopening
<1>13. CASE MicrophoneEnds
  <2>1. /\ UNCHANGED <<worker, err, session>>
        /\ \A k \in AudioStreams : stream'[k] = stream[k] \/
              (stream[k] = "started" /\ stream'[k] = "stopped")
    BY <1>13, Two DEF MicrophoneEnds, LifeTypes, ringVars
  <2> QED BY <2>1, Two DEF Alone, Pending, Reopening, LifeTypes
<1>14. CASE WorkerLock
  BY <1>14 DEF WorkerLock, Alone, Pending, Reopening, None
<1>15. CASE WorkerClose
  BY <1>15 DEF WorkerClose, SessionUsed, Alone, Pending, Reopening, LifeTypes, None
<1>16. CASE WorkerBuild
  <2>1. /\ worker.at = "build" /\ worker'.at = "finish" /\ worker'.of = worker.of
        /\ UNCHANGED <<err, session>> /\ stream'[worker'.of] \in {None, "stopped"}
    BY <1>16, Two DEF WorkerBuild, LifeTypes, ringVars
  <2>2. session /\ \A l \in AudioStreams : err[l] = "idle"
    BY <2>1 DEF Alone, Pending, None
  <2> QED BY <2>1, <2>2 DEF Alone, Pending, Reopening, None
<1>17. CASE WorkerFinish
  BY <1>17 DEF WorkerFinish, Alone, Pending, Reopening, None
<1>18. ASSUME NEW k \in AudioStreams, DeviceLost(k) PROVE Alone'
  <2>1. ~Pending /\ session /\ UNCHANGED <<worker, session>>
    BY <1>18 DEF DeviceLost, Settled, ringVars
  <2>2. /\ err' = [err EXCEPT ![k] = "check"] /\ stream' = [stream EXCEPT ![k] = "broken"]
    BY <1>18 DEF DeviceLost
  <2>3. /\ err'[k] = "check" /\ stream'[k] = "broken"
        /\ \A l \in AudioStreams : l # k => err'[l] = "idle"
    BY <2>1, <2>2, Two DEF Pending, LifeTypes
  <2> QED BY <2>1, <2>3 DEF Alone, Pending, Reopening, None
<1>19. ASSUME NEW k \in AudioStreams, ErrorCheck(k) PROVE Alone'
  <2>1. /\ err[k] # "idle" /\ UNCHANGED <<stream, worker, session>>
        /\ \A l \in AudioStreams : l # k => err'[l] = err[l]
    BY <1>19, Two DEF ErrorCheck, LifeTypes, ringVars
  <2>2. session /\ worker.at = None /\ \A l \in AudioStreams : l # k => err[l] = "idle"
    BY <2>1 DEF Alone, Pending
  <2> QED BY <2>1, <2>2 DEF Alone, Pending, Reopening, None
<1>20. ASSUME NEW k \in AudioStreams, ErrorLock(k) PROVE Alone'
  <2>1. /\ err[k] # "idle" /\ UNCHANGED <<stream, worker, session>>
        /\ \A l \in AudioStreams : l # k => err'[l] = err[l]
    BY <1>20, Two DEF ErrorLock, LifeTypes, ringVars
  <2>2. session /\ worker.at = None /\ \A l \in AudioStreams : l # k => err[l] = "idle"
    BY <2>1 DEF Alone, Pending
  <2> QED BY <2>1, <2>2 DEF Alone, Pending, Reopening, None
<1>21. ASSUME NEW k \in AudioStreams, ErrorSpawn(k) PROVE Alone'
  <2>1. /\ err[k] = "join" /\ UNCHANGED <<stream, session>>
        /\ worker' = [at |-> "lock", of |-> k]
        /\ err'[k] = "idle" /\ \A l \in AudioStreams : l # k => err'[l] = err[l]
    BY <1>21, Two DEF ErrorSpawn, LifeTypes, ringVars
  <2>2. session /\ stream[k] = "broken" /\ \A l \in AudioStreams : l # k => err[l] = "idle"
    BY <2>1 DEF Alone, Pending, Reopening
  <2> QED BY <2>1, <2>2 DEF Alone, Pending, Reopening, None
<1>22. ASSUME NEW k \in AudioStreams, Survivor(k) PROVE Alone'
  BY <1>22 DEF Survivor, None
<1> QED BY <1>1, <1>2, <1>3, <1>4, <1>5, <1>6, <1>7, <1>8, <1>9, <1>10, <1>11, <1>12,
           <1>13, <1>14, <1>15, <1>16, <1>17, <1>18, <1>19, <1>20, <1>21, <1>22 DEF
           LifeStep

\* A stream that stops is still there.
LEMMA StoppedIsThere ==
  ASSUME Destroyed, UNCHANGED <<worker, net, copies>>,
         \A k \in AudioStreams : stream'[k] = stream[k] \/
            (stream[k] = "started" /\ stream'[k] = "stopped")
  PROVE  Destroyed'
<1>1. \A k \in AudioStreams : /\ stream'[k] = "closed" <=> stream[k] = "closed"
                              /\ stream'[k] = None <=> stream[k] = None
  BY DEF None
<1>2. \A k \in AudioStreams : stream'[k] \in {None, "closed"} <=> stream[k] \in {None, "closed"}
  BY <1>1
<1>3. "speaker" \in AudioStreams /\ "microphone" \in AudioStreams
  BY Two
<1>4. CASE net.at = "close speaker"
  BY <1>1, <1>4 DEF Destroyed
<1>5. CASE net.at = "close microphone"
  BY <1>1, <1>2, <1>3, <1>5 DEF Destroyed
<1>6. CASE net.at \notin {"close speaker", "close microphone"}
  BY <1>1, <1>2, <1>6 DEF Destroyed
<1> QED BY <1>4, <1>5, <1>6

\* Short of an overlap the destructor's copies are good.
LEMMA DestroyedKept ==
  ASSUME NetTypes, LifeTypes, LifeStep,
         SessionUsed, Alone, Destroyed, fault = None, fault' = None, Settled'
  PROVE  Destroyed'
<1>1. CASE SpeakerCallback
  <2>1. /\ UNCHANGED <<worker, net, copies>>
        /\ \A k \in AudioStreams : stream'[k] = stream[k] \/
              (stream[k] = "started" /\ stream'[k] = "stopped")
    BY <1>1, Two DEF SpeakerCallback, LifeTypes, ringVars
  <2> QED BY <2>1, StoppedIsThere
<1>2. ASSUME NEW running \in BOOLEAN, SetMicState(running) PROVE Destroyed'
  BY <1>2 DEF SetMicState, Settled, Destroyed, NetTypes
<1>3. CASE SetMicRequest
  <2>1. net.at = "mic" /\ net'.at = "idle" /\ worker' = worker
    BY <1>3 DEF SetMicRequest, NetTypes
  <2>2. \A k \in AudioStreams : stream'[k] = "closed" => stream[k] = "closed"
    BY <1>3, Two DEF SetMicRequest, Request, LifeTypes
  <2> QED BY <2>1, <2>2, Two DEF Destroyed
<1>4. CASE EndSession
  BY <1>4 DEF EndSession, Settled, Destroyed
<1>5. CASE Exit
  BY <1>5 DEF Exit, Destroyed
<1>6. CASE ExitStop
  <2>1. /\ net'.at = "copy"
        /\ \A k \in AudioStreams : stream'[k] # "closed"
    BY <1>6, Stops, StopsOpen
  <2> QED BY <2>1 DEF Destroyed
<1>7. CASE DestroyCopy
  BY <1>7 DEF DestroyCopy, SessionUsed, Alone, Destroyed, Pending, Closing, NetTypes,
     None
<1>8. ASSUME NEW k \in AudioStreams, DestroyClose(k) PROVE Destroyed'
  <2>1. \A l \in AudioStreams : l # k => stream'[l] = stream[l]
    BY <1>8, Two DEF DestroyClose, LifeTypes
  <2>2. stream'[k] = (IF copies[k] = "live" THEN "closed" ELSE stream[k])
    BY <1>8, Two DEF DestroyClose, LifeTypes
  <2>3. UNCHANGED <<worker, copies>>
    BY <1>8 DEF DestroyClose
  <2>4. CASE k = "speaker"
    <3>1. net.at = "close speaker" /\ net'.at = "close microphone"
      BY <1>8, <2>4 DEF DestroyClose, NetTypes
    <3> QED BY <2>1, <2>2, <2>3, <2>4, <3>1, Two DEF Destroyed, None
  <2>5. CASE k = "microphone"
    <3>1. net.at = "close microphone" /\ net'.at = "lock"
      BY <1>8, <2>5 DEF DestroyClose, NetTypes
    <3> QED BY <2>1, <2>2, <2>3, <2>5, <3>1, Two DEF Destroyed, None
  <2> QED BY <2>4, <2>5, Two
<1>9. CASE DestroyLock
  BY <1>9 DEF DestroyLock, Destroyed
<1>10. CASE DestroyJoin
  BY <1>10 DEF DestroyJoin, Destroyed
<1>11. CASE MicrophoneCallback
  <2>1. /\ UNCHANGED <<worker, net, copies>>
        /\ \A k \in AudioStreams : stream'[k] = stream[k] \/
              (stream[k] = "started" /\ stream'[k] = "stopped")
    BY <1>11, Two DEF MicrophoneCallback, LifeTypes, ringVars
  <2> QED BY <2>1, StoppedIsThere
<1>12. CASE MicrophoneSend
  BY <1>12 DEF MicrophoneSend, Destroyed
<1>13. CASE MicrophoneEnds
  <2>1. /\ UNCHANGED <<worker, net, copies>>
        /\ \A k \in AudioStreams : stream'[k] = stream[k] \/
              (stream[k] = "started" /\ stream'[k] = "stopped")
    BY <1>13, Two DEF MicrophoneEnds, LifeTypes, ringVars
  <2> QED BY <2>1, StoppedIsThere
<1>14. CASE WorkerLock
  BY <1>14 DEF WorkerLock, SessionUsed, Destroyed
<1>15. CASE WorkerClose
  <2>1. /\ worker.at = "close" /\ worker'.at = "build" /\ worker'.of = worker.of /\ net' = net
        /\ \A k \in AudioStreams : k # worker.of => stream'[k] = stream[k]
    BY <1>15 DEF WorkerClose, LifeTypes
  <2>2. net.at \notin Closing
    BY <2>1, Sessions DEF Pending, None
  <2> QED BY <2>1, <2>2 DEF Destroyed, Closing
<1>16. CASE WorkerBuild
  <2>1. /\ worker.at = "build" /\ net' = net /\ stream'[worker.of] # "closed"
        /\ \A k \in AudioStreams : k # worker.of => stream'[k] = stream[k]
    BY <1>16, Two DEF WorkerBuild, LifeTypes, ringVars, None
  <2>2. net.at \notin Closing
    BY <2>1, Sessions DEF Pending, None
  <2> QED BY <2>1, <2>2 DEF Destroyed, Closing
<1>17. CASE WorkerFinish
  <2>1. /\ worker.at = "finish" /\ net' = net
        /\ \A k \in AudioStreams : stream'[k] = "closed" => stream[k] = "closed"
    BY <1>17, Two DEF WorkerFinish, Request, LifeTypes, ringVars
  <2>2. net.at \notin Closing
    BY <2>1, Sessions DEF Pending, None
  <2> QED BY <2>1, <2>2 DEF Destroyed, Closing
<1>18. ASSUME NEW k \in AudioStreams, DeviceLost(k) PROVE Destroyed'
  <2>1. /\ session /\ net' = net /\ worker' = worker
        /\ \A l \in AudioStreams : stream'[l] = "closed" => stream[l] = "closed"
    BY <1>18, Two DEF DeviceLost, Settled, LifeTypes
  <2>2. net.at \notin Closing
    BY <2>1 DEF SessionUsed
  <2> QED BY <2>1, <2>2 DEF Destroyed, Closing
<1>19. ASSUME NEW k \in AudioStreams, ErrorCheck(k) PROVE Destroyed'
  BY <1>19 DEF ErrorCheck, Alone, Destroyed, Reopening, Closing
<1>20. ASSUME NEW k \in AudioStreams, ErrorLock(k) PROVE Destroyed'
  BY <1>20 DEF ErrorLock, Alone, Destroyed, Reopening
<1>21. ASSUME NEW k \in AudioStreams, ErrorSpawn(k) PROVE Destroyed'
  BY <1>21 DEF ErrorSpawn, Alone, Destroyed, Reopening, None
<1>22. ASSUME NEW k \in AudioStreams, Survivor(k) PROVE Destroyed'
  BY <1>22 DEF Survivor, None
<1> QED BY <1>1, <1>2, <1>3, <1>4, <1>5, <1>6, <1>7, <1>8, <1>9, <1>10, <1>11, <1>12,
           <1>13, <1>14, <1>15, <1>16, <1>17, <1>18, <1>19, <1>20, <1>21, <1>22 DEF
           LifeStep

\* Short of an overlap the flag follows the microphone.
LEMMA FlagStays ==
  ASSUME NetTypes, LifeTypes, LifeStep,
         SessionUsed, FlagKept, fault = None, fault' = None, session', "toggle" \notin overlap'
  PROVE  FlagKept'
<1>1. CASE SpeakerCallback
  BY <1>1 DEF SpeakerCallback, SessionUsed, FlagKept, Pending, Reopening, Closing
<1>2. ASSUME NEW running \in BOOLEAN, SetMicState(running) PROVE FlagKept'
  BY <1>2, Two DEF SetMicState, FlagKept, Pending, Reopening, LifeTypes, None
<1>3. CASE SetMicRequest
  <2>1. /\ net.at = "mic" /\ net'.at = "idle" /\ UNCHANGED <<mic_running, joinable, worker, err, mic>>
        /\ ~Pending /\ mic # "ending"
    BY <1>3 DEF SetMicRequest, NetTypes, ringVars
  <2>2. mic_running = net.want
        /\ stream["microphone"] = IF net.want THEN "stopped" ELSE "started"
    BY <2>1 DEF FlagKept
  <2>3. stream'["microphone"] = IF net.want THEN "started" ELSE "stopped"
    BY <1>3, <2>2, Two DEF SetMicRequest, Request, LifeTypes
  <2>4. worker'.at = None
    BY <2>1 DEF Pending
  <2>5. net.want \in BOOLEAN
    BY DEF NetTypes
  <2> QED BY <2>1, <2>2, <2>3, <2>4, <2>5 DEF FlagKept, Reopening, None
<1>4. CASE EndSession
  BY <1>4 DEF EndSession
<1>5. CASE Exit
  BY <1>5 DEF Exit, FlagKept, Reopening
<1>6. CASE ExitStop
  BY <1>6 DEF ExitStop, SessionUsed, Closing
<1>7. CASE DestroyCopy
  BY <1>7 DEF DestroyCopy, FlagKept, Reopening, NetTypes
<1>8. ASSUME NEW k \in AudioStreams, DestroyClose(k) PROVE FlagKept'
  BY <1>8 DEF DestroyClose, SessionUsed, Closing
<1>9. CASE DestroyLock
  BY <1>9 DEF DestroyLock, FlagKept, Reopening
<1>10. CASE DestroyJoin
  BY <1>10 DEF DestroyJoin, FlagKept, Reopening
<1>11. CASE MicrophoneCallback
  BY <1>11 DEF MicrophoneCallback, SessionUsed, FlagKept, Pending
<1>12. CASE MicrophoneSend
  <2>1. /\ UNCHANGED <<stream, joinable, worker, err, net>> /\ mic = "send" /\ Pending' = Pending
    BY <1>12 DEF MicrophoneSend, ringVars, Pending
  <2>2. CASE mic' = "idle" /\ mic_running' = mic_running
    BY <2>1, <2>2 DEF FlagKept, Reopening
  <2>3. CASE mic' = "ending" /\ ~mic_running' /\ net.at # "mic"
    BY <2>1, <2>3 DEF FlagKept, Reopening
  <2> QED BY <1>12, <2>2, <2>3 DEF MicrophoneSend, None
<1>13. CASE MicrophoneEnds
  BY <1>13, Two DEF MicrophoneEnds, FlagKept, Reopening, LifeTypes
<1>14. CASE WorkerLock
  BY <1>14 DEF WorkerLock, FlagKept, Pending, Reopening, None
<1>15. CASE WorkerClose
  <2>1. /\ worker.at = "close" /\ worker' = [worker EXCEPT !.at = "build"]
        /\ stream' = [stream EXCEPT ![worker.of] = "closed"]
        /\ UNCHANGED <<mic_running, joinable, err, mic, net>>
    BY <1>15 DEF WorkerClose, ringVars, None
  <2>2. /\ worker'.at = "build" /\ worker'.of = worker.of /\ worker.of \in AudioStreams
        /\ stream'[worker.of] = "closed"
        /\ \A l \in AudioStreams : l # worker.of => stream'[l] = stream[l]
    BY <2>1 DEF LifeTypes
  <2>3. Pending /\ Pending'
    BY <2>1, <2>2 DEF Pending, None
  <2>4. worker.of # "microphone" /\ Reopening("microphone") => Reopening("microphone")'
    BY <2>1 DEF Reopening
  <2> QED BY <2>1, <2>2, <2>3, <2>4, Two DEF FlagKept, None
<1>16. CASE WorkerBuild
  BY <1>16 DEF WorkerBuild, FlagKept, Pending, Reopening, LifeTypes, None
<1>17. CASE WorkerFinish
  <2>1. /\ worker.at = "finish" /\ UNCHANGED <<joinable, err, mic, net>>
        /\ worker'.at = None
        /\ worker.of = "speaker" => mic_running' = mic_running
        /\ worker.of # "speaker" => ~mic_running'
        /\ stream'["microphone"] = stream["microphone"]
    BY <1>17, Two DEF WorkerFinish, Request, LifeTypes, ringVars
  <2>2. net.at # "mic" /\ stream["microphone"] # "closed"
    BY <2>1 DEF FlagKept, Pending, None
  <2>3. stream["microphone"] = "broken" => err["microphone"] # "idle"
    BY <2>1 DEF FlagKept, Reopening
  <2> QED BY <2>1, <2>2, <2>3, Two DEF FlagKept, Pending, Reopening, LifeTypes, None
<1>18. ASSUME NEW k \in AudioStreams, DeviceLost(k) PROVE FlagKept'
  <2>1. /\ UNCHANGED <<mic_running, joinable, worker, mic, net>> /\ net.at # "mic"
        /\ err'[k] = "check" /\ \A l \in AudioStreams : l # k => err'[l] = err[l]
        /\ stream[k] \in {"stopped", "started"} /\ stream'[k] = "broken"
        /\ k # "microphone" => stream'["microphone"] = stream["microphone"]
    BY <1>18, Two DEF DeviceLost, LifeTypes, ringVars
  <2>2. Pending' /\ (k = "microphone" \/ Reopening("microphone") => Reopening("microphone")')
    BY <2>1, Two DEF Pending, Reopening
  <2> QED BY <2>1, <2>2, Two DEF FlagKept, None
<1>19. ASSUME NEW k \in AudioStreams, ErrorCheck(k) PROVE FlagKept'
  <2>1. /\ UNCHANGED <<stream, mic_running, joinable, worker, mic, net>>
        /\ err[k] = "check" /\ err'[k] = "lock"
        /\ \A l \in AudioStreams : l # k => err'[l] = err[l]
    BY <1>19, Two DEF ErrorCheck, LifeTypes, ringVars, SessionUsed
  <2>2. Pending /\ Pending' /\ (Reopening("microphone") => Reopening("microphone")')
    BY <2>1, Two DEF Pending, Reopening
  <2> QED BY <2>1, <2>2, Two DEF FlagKept, None
<1>20. ASSUME NEW k \in AudioStreams, ErrorLock(k) PROVE FlagKept'
  BY <1>20 DEF ErrorLock, FlagKept, Pending, Reopening
<1>21. ASSUME NEW k \in AudioStreams, ErrorSpawn(k) PROVE FlagKept'
  <2>1. /\ UNCHANGED <<stream, mic_running, mic, net>> /\ joinable'
        /\ worker' = [at |-> "lock", of |-> k] /\ err[k] = "join"
        /\ joinable => worker.at = None
        /\ \A l \in AudioStreams : l # k => err'[l] = err[l]
    BY <1>21, Two DEF ErrorSpawn, LifeTypes, ringVars
  <2>2. Pending /\ Pending' /\ worker.at = None
    BY <2>1 DEF Pending, FlagKept, None
  <2>3. Reopening("microphone") => Reopening("microphone")'
    BY <2>1, <2>2, Two DEF Reopening, None
  <2> QED BY <2>1, <2>2, <2>3, Two DEF FlagKept, None
<1>22. ASSUME NEW k \in AudioStreams, Survivor(k) PROVE FlagKept'
  BY <1>22 DEF Survivor, None
<1> QED BY <1>1, <1>2, <1>3, <1>4, <1>5, <1>6, <1>7, <1>8, <1>9, <1>10, <1>11, <1>12,
           <1>13, <1>14, <1>15, <1>16, <1>17, <1>18, <1>19, <1>20, <1>21, <1>22 DEF
           LifeStep

\* Short of an overlap nothing freed is used, and nobody is blocked.
LEMMA FaultNeeds ==
  ASSUME NetTypes, LifeTypes, LifeStep,
         SessionUsed, Alone, Destroyed, fault = None, Settled'
  PROVE  fault' # "freed" /\ ~Deadlocked'
<1>1. CASE SpeakerCallback
  BY <1>1, Two DEF SpeakerCallback, Deadlocked, Alone, Destroyed, None
<1>2. ASSUME NEW running \in BOOLEAN, SetMicState(running) PROVE fault' # "freed" /\ ~Deadlocked'
  BY <1>2 DEF SetMicState, Deadlocked, Alone, None
<1>3. CASE SetMicRequest
  BY <1>3, Two DEF SetMicRequest, Request, Deadlocked, Settled, Destroyed, Pending, None
<1>4. CASE EndSession
  BY <1>4 DEF EndSession, Deadlocked, Alone, None
<1>5. CASE Exit
  BY <1>5 DEF Exit, Deadlocked, Alone, None
<1>6. CASE ExitStop
  BY <1>6, Stops, StopsOpen DEF Deadlocked, Pending, None
<1>7. CASE DestroyCopy
  BY <1>7 DEF DestroyCopy, Deadlocked, Alone, NetTypes, None
<1>8. ASSUME NEW k \in AudioStreams, DestroyClose(k) PROVE fault' # "freed" /\ ~Deadlocked'
  BY <1>8, Two DEF DestroyClose, Deadlocked, Alone, Destroyed, NetTypes, None
<1>9. CASE DestroyLock
  BY <1>9 DEF DestroyLock, Deadlocked, Alone, Destroyed, Reopening, LifeTypes, None
<1>10. CASE DestroyJoin
  BY <1>10 DEF DestroyJoin, Deadlocked, None
<1>11. CASE MicrophoneCallback
  BY <1>11, Two DEF MicrophoneCallback, Deadlocked, Alone, Destroyed, None
<1>12. CASE MicrophoneSend
  BY <1>12 DEF MicrophoneSend, Deadlocked, Alone, Destroyed, Reopening, LifeTypes, None
<1>13. CASE MicrophoneEnds
  BY <1>13 DEF MicrophoneEnds, Deadlocked, Alone, Destroyed, Reopening, LifeTypes, None
<1>14. CASE WorkerLock
  BY <1>14 DEF WorkerLock, Deadlocked, None
<1>15. CASE WorkerClose
  BY <1>15 DEF WorkerClose, Deadlocked, Alone, Reopening, LifeTypes, None
<1>16. CASE WorkerBuild
  BY <1>16 DEF WorkerBuild, Deadlocked, None
<1>17. CASE WorkerFinish
  BY <1>17 DEF WorkerFinish, Request, Deadlocked, Alone, None
<1>18. ASSUME NEW k \in AudioStreams, DeviceLost(k) PROVE fault' # "freed" /\ ~Deadlocked'
  BY <1>18 DEF DeviceLost, Deadlocked, Settled, Pending, None
<1>19. ASSUME NEW k \in AudioStreams, ErrorCheck(k) PROVE fault' # "freed" /\ ~Deadlocked'
  BY <1>19 DEF ErrorCheck, Deadlocked, Alone, None
<1>20. ASSUME NEW k \in AudioStreams, ErrorLock(k) PROVE fault' # "freed" /\ ~Deadlocked'
  BY <1>20 DEF ErrorLock, Deadlocked, Alone, None
<1>21. ASSUME NEW k \in AudioStreams, ErrorSpawn(k) PROVE fault' # "freed" /\ ~Deadlocked'
  <2>1. /\ err[k] = "join" /\ UNCHANGED <<net, fault>>
        /\ err'[k] = "idle" /\ \A l \in AudioStreams : l # k => err'[l] = err[l]
    BY <1>21, Two DEF ErrorSpawn, LifeTypes, ringVars
  <2>2. session /\ \A l \in AudioStreams : l # k => err[l] = "idle"
    BY <2>1 DEF Alone, Pending
  <2> QED BY <2>1, <2>2 DEF Deadlocked, SessionUsed, Closing, None
<1>22. ASSUME NEW k \in AudioStreams, Survivor(k) PROVE fault' # "freed" /\ ~Deadlocked'
  BY <1>22 DEF Survivor, Alone, Destroyed, Reopening, None
<1> QED BY <1>1, <1>2, <1>3, <1>4, <1>5, <1>6, <1>7, <1>8, <1>9, <1>10, <1>11, <1>12,
           <1>13, <1>14, <1>15, <1>16, <1>17, <1>18, <1>19, <1>20, <1>21, <1>22 DEF
           LifeStep

-----------------------------------------------------------------------------
\* The steps of the ring.

RingStep ==
  \/ \E size \in 1 .. MaxSize : Push(size)
  \/ PushWrite \/ PushPublish \/ PushCount
  \/ Play \/ PlayMove \/ PlayAdvance \/ PlayCheck \/ Skip \/ SkipUncount

\* Every step is one of the streams or one of the ring.
LEMMA StepsAre ==
  ASSUME [AudioNext]_audioVars
  PROVE  ((RingStep \/ LifeStep) /\ fault = None) \/ UNCHANGED audioVars
BY DEF AudioNext, NetStep, SpeakerStep, WorkerStep, ErrorStep, RingStep, LifeStep

Ringing == {"idle", "write", "publish", "count"}

\* What a step of the ring leaves of the rest.
LEMMA RingSteps ==
  ASSUME NetTypes, RingStep
  PROVE  /\ UNCHANGED <<lifeVars, fault>> /\ NetTypes' /\ net'.want = net.want
         /\ net'.at = net.at \/ (net.at \in Ringing /\ net'.at \in Ringing)
<1>1. ASSUME NEW size \in 1 .. MaxSize, Push(size)
      PROVE  /\ UNCHANGED <<lifeVars, fault>> /\ NetTypes' /\ net'.want = net.want
             /\ net'.at = net.at \/ (net.at \in Ringing /\ net'.at \in Ringing)
  <2>1. net' = net \/ net' = [net EXCEPT !.at = "write", !.size = size]
    BY <1>1 DEF Push
  <2>2. net.at = "idle" /\ UNCHANGED <<lifeVars, fault>>
    BY <1>1 DEF Push
  <2>3. size \in 0 .. MaxSize
    BY AudioAssumption
  <2>4. NetTypes' /\ net'.want = net.want /\ net'.at \in {"idle", "write"}
    BY <2>1, <2>2, <2>3 DEF NetTypes
  <2> QED BY <2>2, <2>4 DEF Ringing
<1>2. CASE PushWrite \/ PushPublish \/ PushCount
  BY <1>2 DEF PushWrite, PushPublish, PushCount, NetTypes, Ringing
<1>3. CASE Play \/ PlayMove \/ PlayAdvance \/ PlayCheck \/ Skip \/ SkipUncount
  <2>1. UNCHANGED <<lifeVars, fault, net>>
    BY <1>3 DEF Play, PlayMove, PlayAdvance, PlayCheck, Skip, SkipUncount
  <2> QED BY <2>1 DEF NetTypes
<1> QED BY <1>1, <1>2, <1>3 DEF RingStep

-----------------------------------------------------------------------------
\* THE RING

\* The slot after, without a remainder.
LEMMA SlotAfter ==
  ASSUME NEW i \in 0 .. Capacity - 1
  PROVE  /\ NextSlot(i) \in 0 .. Capacity - 1
         /\ NextSlot(i) = IF i + 1 = Capacity THEN 0 ELSE i + 1
<1>1. Capacity \in Nat /\ Capacity >= 2
  BY AudioAssumption
<1>2. CASE i + 1 = Capacity
  <2>1. Capacity % Capacity = 0
    BY <1>1
  <2> QED BY <1>1, <1>2, <2>1 DEF NextSlot
<1>3. CASE i + 1 # Capacity
  <2>1. i + 1 \in 0 .. Capacity - 1
    BY <1>1, <1>3
  <2>2. (i + 1) % Capacity = i + 1
    BY <1>1, <2>1
  <2> QED BY <1>1, <1>3, <2>1, <2>2 DEF NextSlot
<1> QED BY <1>2, <1>3

\* Distances along the ring.
LEMMA AheadProperties ==
  ASSUME NEW i \in 0 .. Capacity - 1, NEW j \in 0 .. Capacity - 1
  PROVE  /\ Ahead(i, j) \in 0 .. Capacity - 1
         /\ Ahead(i, j) = 0 <=> i = j
         /\ Ahead(i, NextSlot(i)) = 1
         /\ \A k \in 0 .. Capacity - 1 : Ahead(i, j) = Ahead(i, k) => j = k
         /\ NextSlot(j) = i <=> Ahead(i, j) = Capacity - 1
         /\ NextSlot(j) # i => Ahead(i, NextSlot(j)) = Ahead(i, j) + 1
         /\ i # j => Ahead(NextSlot(i), j) = Ahead(i, j) - 1
         /\ Ahead(NextSlot(i), i) = Capacity - 1
<1>1. Capacity \in Nat /\ Capacity >= 2
  BY AudioAssumption
<1> DEFINE a == NextSlot(i)
           b == NextSlot(j)
<1>2. /\ a \in 0 .. Capacity - 1 /\ a = IF i + 1 = Capacity THEN 0 ELSE i + 1
      /\ b \in 0 .. Capacity - 1 /\ b = IF j + 1 = Capacity THEN 0 ELSE j + 1
  BY SlotAfter
<1> HIDE DEF a, b
<1>3. /\ Ahead(i, j) \in 0 .. Capacity - 1
      /\ Ahead(i, j) = 0 <=> i = j
      /\ Ahead(i, a) = 1
      /\ \A k \in 0 .. Capacity - 1 : Ahead(i, j) = Ahead(i, k) => j = k
  BY <1>1, <1>2 DEF Ahead
<1>4. /\ b = i <=> Ahead(i, j) = Capacity - 1
      /\ b # i => Ahead(i, b) = Ahead(i, j) + 1
  BY <1>1, <1>2 DEF Ahead
<1>5. /\ i # j => Ahead(a, j) = Ahead(i, j) - 1
      /\ Ahead(a, i) = Capacity - 1
  BY <1>1, <1>2 DEF Ahead
<1> QED BY <1>3, <1>4, <1>5 DEF a, b

\* What RingTypes says of the ring itself.
LEMMA RingFacts ==
  ASSUME RingTypes
  PROVE  /\ Capacity \in Nat /\ Capacity >= 2 /\ Capacity - 1 \in Nat
         /\ output_read \in 0 .. Capacity - 1 /\ output_write \in 0 .. Capacity - 1
         /\ NextSlot(output_read) \in 0 .. Capacity - 1
         /\ NextSlot(output_write) \in 0 .. Capacity - 1
         /\ packets \in Nat /\ heard \in Nat /\ Count \in 0 .. Capacity - 1
         /\ \A i \in 0 .. Capacity - 1 :
               slots[i].n \in Nat /\ Ahead(output_read, i) \in 0 .. Capacity - 1
<1>1. /\ Capacity \in Nat /\ Capacity >= 2 /\ Capacity - 1 \in Nat /\ MaxPackets \in Nat
  BY AudioAssumption
<1>2. output_read \in 0 .. Capacity - 1 /\ output_write \in 0 .. Capacity - 1
  BY DEF RingTypes
<1>3. packets \in Nat /\ heard \in Nat /\ \A i \in 0 .. Capacity - 1 : slots[i].n \in Nat
  BY <1>1 DEF RingTypes
<1> QED BY <1>1, <1>2, <1>3, SlotAfter, AheadProperties DEF Count

\* A step that leaves the packets where they are.
LEMMA RingLeft ==
  ASSUME RingTypes, Rising, UNCHANGED <<slots, output_read, output_write, heard, packets>>,
         net'.at = net.at \/ net'.at \notin {"write", "publish"},
         spk'.at = "advance" <=> spk.at = "advance",
         spk'.at = "move" /\ spk.at # "move" => output_read # output_write
  PROVE  Rising'
<1>1. UNCHANGED Count /\ \A i : InRing(i)' = InRing(i)
  BY DEF Count, InRing, Ahead
<1>2. output_read # output_write => Count >= 1
  BY RingFacts, AheadProperties DEF Count
<1>3. \A i : Ahead(output_read, i)' = Ahead(output_read, i)
  BY DEF Ahead
<1>4. Ordered' /\ AfterHeard'
  BY <1>1, <1>3 DEF Rising, Ordered, AfterHeard
<1>5. Published'
  BY <1>1, <1>2 DEF Rising, Published
<1> QED BY <1>4, <1>5 DEF Rising

\* A packet that comes is later than those of the ring.
LEMMA PushRises ==
  ASSUME RingTypes, NetTypes, Rising, NEW size \in 1 .. MaxSize, Push(size)
  PROVE  Rising'
<1>1. /\ UNCHANGED <<slots, output_read, output_write, heard, spk>>
      /\ packets' = packets + 1 /\ net.at = "idle"
      /\ net'.at = "idle" \/ (net'.at = "write" /\ NextSlot(output_write) # output_read)
  BY DEF Push, NetTypes
<1>2. UNCHANGED Count /\ \A i : InRing(i)' = InRing(i)
  BY <1>1 DEF Count, InRing, Ahead
<1>3. \A i : Ahead(output_read, i)' = Ahead(output_read, i)
  BY <1>1 DEF Ahead
<1>4. Ordered' /\ AfterHeard'
  BY <1>1, <1>2, <1>3, RingFacts DEF Rising, Ordered, AfterHeard
<1>5. net'.at = "write" => Count < Capacity - 1
  BY <1>1, RingFacts, AheadProperties DEF Count
<1>6. heard < packets' /\ \A i \in 0 .. Capacity - 1 : InRing(i) => slots[i].n < packets'
  BY <1>1, RingFacts DEF Rising, AfterHeard
<1>7. Published'
  BY <1>1, <1>2, <1>5, <1>6 DEF Rising, Published
<1> QED BY <1>4, <1>7 DEF Rising

\* The slot that is written is not in the ring yet.
LEMMA PushWriteRises ==
  ASSUME RingTypes, NetTypes, Rising, PushWrite
  PROVE  Rising'
<1> DEFINE w == NextSlot(output_write)
<1>1. /\ UNCHANGED <<output_read, output_write, heard, packets, spk>>
      /\ net.at = "write" /\ net'.at = "publish"
  BY DEF PushWrite, NetTypes
<1>2. /\ slots'[w].n = packets
      /\ \A i \in 0 .. Capacity - 1 : i # w => slots'[i] = slots[i]
  BY RingFacts DEF PushWrite, RingTypes
<1>3. UNCHANGED Count /\ \A i : InRing(i)' = InRing(i)
  BY <1>1 DEF Count, InRing, Ahead
<1>4. \A i : Ahead(output_read, i)' = Ahead(output_read, i)
  BY <1>1 DEF Ahead
<1>5. ~InRing(w)
  <2>1. Count < Capacity - 1
    BY <1>1 DEF Rising, Published
  <2>2. w # output_read
    BY <2>1, RingFacts, AheadProperties DEF Count
  <2>3. Ahead(output_read, w) = Count + 1
    BY <2>2, RingFacts, AheadProperties DEF Count
  <2> QED BY <2>3, RingFacts DEF InRing
<1> HIDE DEF w
<1>6. Ordered' /\ AfterHeard'
  BY <1>1, <1>2, <1>3, <1>4, <1>5 DEF Rising, Ordered, AfterHeard
<1>7. Published'
  <2>1. w' = w /\ w = NextSlot(output_write)
    BY <1>1 DEF w
  <2> QED BY <1>1, <1>2, <1>3, <1>5, <2>1 DEF Rising, Published, w
<1> QED BY <1>6, <1>7 DEF Rising

\* The slot that is published is the last of the ring.
LEMMA PushPublishRises ==
  ASSUME RingTypes, NetTypes, Rising, PushPublish
  PROVE  Rising'
<1> DEFINE w == NextSlot(output_write)
<1>1. /\ UNCHANGED <<slots, output_read, heard, packets, spk>>
      /\ output_write' = w /\ net.at = "publish" /\ net'.at = "count"
  BY DEF PushPublish, NetTypes
<1>2. Count < Capacity - 1 /\ slots[w].n = packets /\ heard < packets
      /\ \A i \in 0 .. Capacity - 1 : InRing(i) => slots[i].n < packets
  BY <1>1 DEF Rising, Published
<1>3. w # output_read
  BY <1>2, RingFacts, AheadProperties DEF Count
<1>4. Ahead(output_read, w) = Count + 1
  BY <1>3, RingFacts, AheadProperties DEF Count
<1>5. \A i : Ahead(output_read, i)' = Ahead(output_read, i)
  BY <1>1 DEF Ahead
<1>6. Count' = Count + 1
  BY <1>1, <1>4 DEF Count, Ahead
<1>7. ASSUME NEW i \in 0 .. Capacity - 1, InRing(i)' PROVE InRing(i) \/ i = w
  <2>1. Ahead(output_read, i) \in 1 .. Count + 1
    BY <1>5, <1>6, <1>7 DEF InRing
  <2>2. Ahead(output_read, i) = Count + 1 => i = w
    BY <1>4, RingFacts, AheadProperties
  <2> QED BY <2>1, <2>2, RingFacts DEF InRing
<1> HIDE DEF w
<1>8. Ordered'
  <2> SUFFICES ASSUME NEW i \in 0 .. Capacity - 1, NEW j \in 0 .. Capacity - 1,
                      InRing(i)', InRing(j)',
                      Ahead(output_read, i) < Ahead(output_read, j)
               PROVE  slots[i].n < slots[j].n
    BY <1>1, <1>5 DEF Ordered
  <2>1. InRing(i) => Ahead(output_read, i) <= Count
    BY RingFacts DEF InRing
  <2>2. InRing(j) => Ahead(output_read, j) <= Count
    BY RingFacts DEF InRing
  <2>3. InRing(i)
    <3>1. CASE i = w
      BY <1>4, <1>7, <2>2, <3>1, RingFacts
    <3> QED BY <1>7, <3>1
  <2> QED BY <1>2, <1>7, <2>3 DEF Rising, Ordered
<1>9. AfterHeard'
  <2>1. ASSUME NEW i \in 0 .. Capacity - 1, i = w, spk.at = "advance"
        PROVE  Ahead(output_read, i) # 1
    BY <1>4, <2>1, RingFacts DEF Rising, Published
  <2> QED BY <1>1, <1>2, <1>5, <1>7, <2>1, RingFacts DEF Rising, AfterHeard
<1>10. Published'
  BY <1>1, <1>6, RingFacts DEF Rising, Published
<1> QED BY <1>8, <1>9, <1>10 DEF Rising

\* The next packet is later than the one heard before.
LEMMA Next1 ==
  ASSUME RingTypes, Rising, Count >= 1
  PROVE  /\ InRing(NextSlot(output_read))
         /\ Ahead(output_read, NextSlot(output_read)) = 1
         /\ \A i \in 0 .. Capacity - 1 :
               Ahead(output_read, i) = 1 <=> i = NextSlot(output_read)
<1>1. Ahead(output_read, NextSlot(output_read)) = 1
  BY RingFacts, AheadProperties
<1>2. InRing(NextSlot(output_read))
  BY <1>1, RingFacts DEF InRing
<1>3. ASSUME NEW i \in 0 .. Capacity - 1, Ahead(output_read, i) = 1
      PROVE  i = NextSlot(output_read)
  BY <1>1, <1>3, RingFacts, AheadProperties
<1> QED BY <1>1, <1>2, <1>3

\* The packet that is taken is later than the one before.
LEMMA PlayMoveRises ==
  ASSUME RingTypes, Rising, PlayMove
  PROVE  Rising' /\ heard' > heard
<1> DEFINE r == NextSlot(output_read)
<1>1. /\ UNCHANGED <<slots, output_read, output_write, packets, net>>
      /\ spk.at = "move" /\ spk'.at = "advance" /\ heard' = slots[r].n
  BY DEF PlayMove, RingTypes
<1>2. Count >= 1
  BY <1>1 DEF Rising, Published
<1>3. /\ InRing(r) /\ Ahead(output_read, r) = 1 /\ r \in 0 .. Capacity - 1
      /\ \A i \in 0 .. Capacity - 1 : Ahead(output_read, i) = 1 <=> i = r
  BY <1>2, Next1, RingFacts
<1> HIDE DEF r
<1>4. UNCHANGED Count /\ \A i : InRing(i)' = InRing(i)
  BY <1>1 DEF Count, InRing, Ahead
<1>5. \A i : Ahead(output_read, i)' = Ahead(output_read, i)
  BY <1>1 DEF Ahead
<1>6. Ordered'
  BY <1>1, <1>4, <1>5 DEF Rising, Ordered
<1>7. heard' > heard /\ heard' <= packets
  BY <1>1, <1>3 DEF Rising, AfterHeard
<1>8. ASSUME NEW i \in 0 .. Capacity - 1, InRing(i), i # r PROVE slots[i].n > slots[r].n
  <2>1. Ahead(output_read, i) > 1
    BY <1>3, <1>8, RingFacts DEF InRing
  <2> QED BY <1>3, <1>8, <2>1, RingFacts DEF Rising, Ordered
<1>9. AfterHeard'
  BY <1>1, <1>3, <1>4, <1>5, <1>7, <1>8 DEF Rising, AfterHeard
<1>10. Published'
  BY <1>1, <1>2, <1>3, <1>4 DEF Rising, Published
<1> QED BY <1>6, <1>7, <1>9, <1>10 DEF Rising

\* The slot at hand leaves the ring: heard, or skipped.
LEMMA ReadAdvances ==
  ASSUME RingTypes, Rising, Count >= 1, output_read' = NextSlot(output_read),
         UNCHANGED <<slots, output_write, heard, packets, net>>,
         spk'.at \notin {"advance", "move"}
  PROVE  Rising'
<1>1. output_read # output_write
  BY RingFacts, AheadProperties DEF Count
<1>2. Count' = Count - 1
  BY <1>1, RingFacts, AheadProperties DEF Count
<1>3. ASSUME NEW i \in 0 .. Capacity - 1, InRing(i)'
      PROVE  InRing(i) /\ Ahead(output_read, i)' = Ahead(output_read, i) - 1
             /\ Ahead(output_read, i) # 1
  <2>1. Ahead(output_read', i) \in 1 .. Count - 1
    BY <1>2, <1>3 DEF InRing, Ahead
  <2>2. i # output_read
    BY <2>1, RingFacts, AheadProperties
  <2>3. Ahead(output_read', i) = Ahead(output_read, i) - 1
    BY <2>2, RingFacts, AheadProperties
  <2>4. Ahead(output_read, i)' = Ahead(output_read', i)
    BY DEF Ahead
  <2> QED BY <2>1, <2>3, <2>4, RingFacts DEF InRing
<1>4. Ordered'
  BY <1>3, RingFacts DEF Rising, Ordered
<1>5. AfterHeard'
  BY <1>3 DEF Rising, AfterHeard
<1>6. Published'
  BY <1>2, <1>3, RingFacts DEF Rising, Published
<1> QED BY <1>4, <1>5, <1>6 DEF Rising

\* The packet that was taken leaves the ring.
LEMMA PlayAdvanceRises == ASSUME RingTypes, Rising, PlayAdvance PROVE Rising'
<1>1. spk.at = "advance" /\ spk'.at = "play"
  BY DEF PlayAdvance, RingTypes
<1>2. Count >= 1
  BY <1>1 DEF Rising, Published
<1> QED BY <1>1, <1>2, ReadAdvances DEF PlayAdvance, lifeVars

\* A packet that is skipped leaves the ring.
LEMMA SkipRises == ASSUME RingTypes, Rising, Skip PROVE Rising'
<1>1. spk.at = "skip" /\ spk'.at \in {"idle", "uncount"}
  BY DEF Skip, RingTypes
<1>2. CASE output_read = output_write
  BY <1>1, <1>2, RingLeft DEF Skip
<1>3. CASE output_read # output_write
  <2>1. Count >= 1
    BY <1>3, RingFacts, AheadProperties DEF Count
  <2> QED BY <1>1, <1>3, <2>1, ReadAdvances DEF Skip
<1> QED BY <1>2, <1>3

\* A size_t.
LEMMA WrapAround == Wrap \in Nat /\ Wrap > 0 /\ \A n \in Int : n % Wrap \in 0 .. Wrap - 1
<1>1. Capacity \in Nat /\ MaxSize \in Nat /\ Fill \in Nat \ {0} /\ Wrap \in Nat
      /\ Wrap > Capacity * MaxSize + Fill + MaxSize
  BY AudioAssumption
<1>2. Capacity * MaxSize \in Nat
  BY <1>1
<1>3. Wrap > 0
  BY <1>1, <1>2
<1> QED BY <1>1, <1>3

\* Every step of the life leaves the ring alone; the callback may begin to play.
LEMMA LifeLeavesRing ==
  ASSUME RingTypes, NetTypes, LifeStep
  PROVE  /\ UNCHANGED <<slots, output_read, output_write, buffer_size_bytes, speaker_tmp,
                        heard, packets>>
         /\ spk' = spk \/ (spk.at = "idle" /\ spk'.at = "play" /\ RingTypes')
         /\ net' = net \/ (net.at # "count" /\ net'.at \notin {"write", "publish", "count"})
<1>1. CASE SpeakerCallback
  <2>1. UNCHANGED <<slots, output_read, output_write, buffer_size_bytes, speaker_tmp,
                    heard, packets, net>>
    BY <1>1 DEF SpeakerCallback
  <2>2. CASE spk' = spk
    BY <2>1, <2>2
  <2>3. ASSUME NEW n \in 1 .. MaxRequest, spk' = [spk EXCEPT !.at = "play", !.need = n]
        PROVE  spk'.at = "play" /\ RingTypes'
    <3>1. n \in 0 .. MaxRequest
      BY AudioAssumption
    <3> QED BY <2>1, <2>3, <3>1 DEF RingTypes
  <2> QED BY <1>1, <2>1, <2>2, <2>3 DEF SpeakerCallback
<1>2. CASE \/ \E running \in BOOLEAN : SetMicState(running)
           \/ SetMicRequest \/ EndSession \/ Exit \/ ExitStop \/ DestroyCopy
  BY <1>2 DEF SetMicState, SetMicRequest, EndSession, Exit, ExitStop, DestroyCopy,
     NetTypes, ringVars
<1>3. CASE (\E k \in AudioStreams : DestroyClose(k)) \/ DestroyLock \/ DestroyJoin
  BY <1>3 DEF DestroyClose, DestroyLock, DestroyJoin, NetTypes, ringVars
<1>4. CASE \/ MicrophoneCallback \/ MicrophoneSend \/ MicrophoneEnds
           \/ WorkerLock \/ WorkerClose \/ WorkerBuild \/ WorkerFinish
  BY <1>4 DEF MicrophoneCallback, MicrophoneSend, MicrophoneEnds, WorkerLock,
     WorkerClose, WorkerBuild, WorkerFinish, ringVars
<1>5. CASE \E k \in AudioStreams : \/ DeviceLost(k) \/ ErrorCheck(k) \/ ErrorLock(k)
                                   \/ ErrorSpawn(k) \/ Survivor(k)
  BY <1>5 DEF DeviceLost, ErrorCheck, ErrorLock, ErrorSpawn, Survivor, ringVars
<1> QED BY <1>1, <1>2, <1>3, <1>4, <1>5 DEF LifeStep

\* The types of the ring's variables, action by action.
LEMMA RingTypesKept ==
  ASSUME RingTypes, NetTypes, RingStep
  PROVE  RingTypes'
<1>0. /\ MaxPackets \in Nat /\ MaxSize \in Nat /\ Fill \in Nat /\ MaxRequest \in Nat
      /\ Wrap \in Nat /\ \A n \in Int : n % Wrap \in 0 .. Wrap - 1
  BY AudioAssumption, WrapAround
<1>b. /\ buffer_size_bytes \in 0 .. Wrap - 1 /\ speaker_tmp \in 0 .. (Fill + MaxSize)
      /\ packets \in 0 .. MaxPackets
      /\ spk.need \in 0 .. MaxRequest /\ spk.size \in 0 .. MaxSize /\ net.size \in 0 .. MaxSize
  BY DEF RingTypes, NetTypes
<1>1. ASSUME NEW size \in 1 .. MaxSize, Push(size) PROVE RingTypes'
  <2>1. packets' \in 0 .. MaxPackets
    <3>1. packets < MaxPackets /\ packets' = packets + 1
      BY <1>1 DEF Push
    <3> QED BY <1>0, <1>b, <3>1
  <2> QED BY <1>1, <2>1 DEF Push, RingTypes
<1>2. CASE PushWrite
  <2>1. [n |-> packets, size |-> net.size] \in [n : 0 .. MaxPackets, size : 0 .. MaxSize]
    BY DEF RingTypes, NetTypes
  <2> QED BY <1>2, <2>1 DEF PushWrite, RingTypes
<1>3. CASE PushPublish \/ PlayAdvance
  BY <1>3, RingFacts DEF PushPublish, PlayAdvance, RingTypes
<1>4. CASE PushCount \/ SkipUncount
  <2>1. /\ buffer_size_bytes + net.size \in Int /\ buffer_size_bytes - spk.size \in Int
    BY <1>0, <1>b
  <2>2. buffer_size_bytes' \in 0 .. Wrap - 1
    BY <1>0, <1>4, <2>1 DEF PushCount, SkipUncount
  <2> QED BY <1>4, <2>2 DEF PushCount, SkipUncount, RingTypes
<1>5. CASE Play
  <2> DEFINE take == Smaller(speaker_tmp, spk.need)
  <2>1. take \in 0 .. speaker_tmp /\ take \in 0 .. spk.need
    BY <1>0, <1>b DEF Smaller
  <2>2. /\ buffer_size_bytes - take \in Int /\ buffer_size_bytes + Fill \in Int
        /\ speaker_tmp - take \in 0 .. (Fill + MaxSize) /\ Fill \in 0 .. (Fill + MaxSize)
        /\ spk.need - take \in 0 .. MaxRequest
    BY <1>0, <1>b, <2>1
  <2> HIDE DEF take
  <2>3. buffer_size_bytes' \in {buffer_size_bytes, (buffer_size_bytes - take) % Wrap,
                                (buffer_size_bytes + Fill) % Wrap}
    BY <1>5 DEF Play, take
  <2>4. speaker_tmp' \in {speaker_tmp, speaker_tmp - take, Fill}
    BY <1>5 DEF Play, take
  <2>5. \/ spk' = spk \/ spk' = [spk EXCEPT !.at = "check"]
        \/ spk' = [spk EXCEPT !.at = "move"] \/ spk' = [spk EXCEPT !.need = spk.need - take]
    BY <1>5 DEF Play, take
  <2>6. spk' \in [at : {"idle", "play", "move", "advance", "check", "drop", "skip", "uncount"},
                  need : 0 .. MaxRequest, size : 0 .. MaxSize]
    BY <2>2, <2>5 DEF RingTypes
  <2>7. buffer_size_bytes' \in 0 .. Wrap - 1 /\ speaker_tmp' \in 0 .. (Fill + MaxSize)
    BY <1>0, <1>b, <2>2, <2>3, <2>4
  <2> QED BY <1>5, <2>6, <2>7 DEF Play, RingTypes
<1>6. CASE PlayMove
  <2>1. slots[NextSlot(output_read)] \in [n : 0 .. MaxPackets, size : 0 .. MaxSize]
    BY RingFacts DEF RingTypes
  <2>2. PICK slot \in [n : 0 .. MaxPackets, size : 0 .. MaxSize] :
             speaker_tmp' = slot.size /\ heard' = slot.n
    BY <1>6, <2>1 DEF PlayMove
  <2>3. slot.size \in 0 .. (Fill + MaxSize) /\ slot.n \in 0 .. MaxPackets
    <3>1. slot.size \in 0 .. MaxSize /\ slot.n \in 0 .. MaxPackets
      OBVIOUS
    <3> QED BY <1>0, <3>1
  <2> QED BY <1>6, <2>2, <2>3 DEF PlayMove, RingTypes
<1>7. CASE PlayCheck
  BY <1>7 DEF PlayCheck, RingTypes
<1>8. CASE Skip
  <2>1. slots[NextSlot(output_read)] \in [n : 0 .. MaxPackets, size : 0 .. MaxSize]
    BY RingFacts DEF RingTypes
  <2> QED BY <1>8, <2>1, RingFacts DEF Skip, RingTypes
<1> QED BY <1>1, <1>2, <1>3, <1>4, <1>5, <1>6, <1>7, <1>8 DEF RingStep

\* The numbers rise along the ring after every step of it.
LEMMA RingRises ==
  ASSUME RingTypes, NetTypes, Rising, RingStep
  PROVE  Rising'
<1>1. ASSUME NEW size \in 1 .. MaxSize, Push(size) PROVE Rising'
  BY <1>1, PushRises
<1>2. CASE PushCount
  BY <1>2, RingLeft DEF PushCount, NetTypes
<1>3. CASE Play
  BY <1>3, RingLeft DEF Play, RingTypes
<1>4. CASE PlayCheck \/ SkipUncount
  BY <1>4, RingLeft DEF PlayCheck, SkipUncount, RingTypes
<1> QED BY <1>1, <1>2, <1>3, <1>4, PushWriteRises, PushPublishRises, PlayMoveRises,
           PlayAdvanceRises, SkipRises DEF RingStep

\* The ring's invariant is inductive.
LEMMA RingInvKept ==
  ASSUME RingInv, NetTypes', [AudioNext]_audioVars
  PROVE  RingInv'
<1>1. CASE RingStep
  BY <1>1, RingTypesKept, RingRises DEF RingInv
<1>2. CASE LifeStep
  <2>1. RingTypes'
    BY <1>2, LifeLeavesRing DEF RingInv, RingTypes
  <2>2. Rising'
    BY <1>2, LifeLeavesRing, RingLeft DEF RingInv
  <2> QED BY <2>1, <2>2 DEF RingInv
<1>3. CASE UNCHANGED audioVars
  <2>1. UNCHANGED <<ringVars, net>>
    BY <1>3 DEF audioVars
  <2>2. Rising' /\ RingTypes'
    BY <2>1, RingLeft DEF RingInv, ringVars, RingTypes
  <2> QED BY <2>2 DEF RingInv
<1> QED BY <1>1, <1>2, <1>3, StepsAre

-----------------------------------------------------------------------------
\* ALL OF IT

\* Both invariants hold in the beginning.
LEMMA AudioInits == AudioInit => LifeInv /\ RingInv
<1> SUFFICES ASSUME AudioInit PROVE LifeInv /\ RingInv
  OBVIOUS
<1>0. /\ {MaxPackets, MaxSize, Fill, MaxRequest, MaxEvents} \subseteq Nat
      /\ Capacity \in Nat /\ Capacity >= 2 /\ Wrap \in Nat /\ Wrap > 0
  BY AudioAssumption, WrapAround
<1>1. NetTypes
  BY <1>0 DEF AudioInit, NetTypes
<1>2. LifeTypes
  <2>1. stream \in [AudioStreams -> {None, "stopped", "started", "broken", "closed"}]
    BY Two DEF AudioInit, AudioStreams
  <2>2. /\ err \in [AudioStreams -> {"idle", "check", "lock", "join"}]
        /\ copies \in [AudioStreams -> {None, "live", "dead"}]
        /\ worker \in [at : {None, "lock", "close", "build", "finish"}, of : AudioStreams]
    BY Two DEF AudioInit
  <2>3. events \in 0 .. MaxEvents /\ overlap \subseteq Overlaps
    BY <1>0 DEF AudioInit
  <2> QED BY <2>1, <2>2, <2>3 DEF AudioInit, LifeTypes
<1>3. RingTypes
  BY <1>0 DEF AudioInit, RingTypes
<1>4. Rising
  <2>1. Count = 0
    BY <1>0 DEF AudioInit, Count, Ahead
  <2> QED BY <1>0, <2>1 DEF AudioInit, Rising, Ordered, AfterHeard, Published, InRing
<1>5. SessionUsed
  BY DEF AudioInit, SessionUsed, Closing, None
<1>6. Alone /\ Destroyed
  BY <1>2, Two DEF AudioInit, Alone, Destroyed, Pending, Reopening, None
<1>7. FlagKept
  BY Two DEF AudioInit, FlagKept, Pending, Reopening, None
<1>8. FaultNeedsOverlap
  BY DEF AudioInit, FaultNeedsOverlap, Deadlocked, None
<1> QED BY <1>1, <1>2, <1>3, <1>4, <1>5, <1>6, <1>7, <1>8 DEF LifeInv, RingInv

\* What overlapped is not forgotten, and the session does not come back.
LEMMA OverlapGrows ==
  ASSUME LifeStep PROVE overlap \subseteq overlap' /\ (session' => session)
<1>1. CASE \E running \in BOOLEAN : SetMicState(running)
  BY <1>1 DEF SetMicState
<1>2. CASE SetMicRequest
  BY <1>2 DEF SetMicRequest
<1>3. CASE EndSession
  BY <1>3 DEF EndSession
<1>4. CASE MicrophoneSend
  BY <1>4 DEF MicrophoneSend
<1>5. CASE \E k \in AudioStreams : DeviceLost(k)
  BY <1>5 DEF DeviceLost
<1>6. CASE SpeakerCallback \/ Exit \/ ExitStop \/ DestroyCopy
  <2>1. overlap' = overlap /\ session' = session
    BY <1>6 DEF SpeakerCallback, Exit, ExitStop, DestroyCopy
  <2> QED BY <2>1
<1>7. CASE (\E k \in AudioStreams : DestroyClose(k)) \/ DestroyLock \/ DestroyJoin
  <2>1. overlap' = overlap /\ session' = session
    BY <1>7 DEF DestroyClose, DestroyLock, DestroyJoin
  <2> QED BY <2>1
<1>8. CASE MicrophoneCallback \/ MicrophoneEnds
  BY <1>8 DEF MicrophoneCallback, MicrophoneEnds
<1>9. CASE WorkerLock \/ WorkerClose \/ WorkerBuild \/ WorkerFinish
  BY <1>9 DEF WorkerLock, WorkerClose, WorkerBuild, WorkerFinish
<1>10. CASE \E k \in AudioStreams : \/ ErrorCheck(k) \/ ErrorLock(k)
                                    \/ ErrorSpawn(k) \/ Survivor(k)
  BY <1>10 DEF ErrorCheck, ErrorLock, ErrorSpawn, Survivor, lifeVars
<1> QED BY <1>1, <1>2, <1>3, <1>4, <1>5, <1>6, <1>7, <1>8, <1>9, <1>10 DEF LifeStep

\* The streams' invariant is inductive.
LEMMA LifeInvKept ==
  ASSUME LifeInv, [AudioNext]_audioVars
  PROVE  LifeInv'
<1>1. CASE LifeStep /\ fault = None
  <2>1. NetTypes' /\ LifeTypes' /\ SessionUsed'
    BY <1>1, LifeTypesKept, SessionKept DEF LifeInv
  <2>2. overlap \subseteq overlap' /\ (session' => session) /\ (Settled' => Settled)
    BY <1>1, OverlapGrows DEF Settled
  <2>3. fault' = None /\ Settled' => Alone' /\ Destroyed'
    BY <1>1, <2>2, AloneKept, DestroyedKept DEF LifeInv
  <2>4. fault' = None /\ session' /\ "toggle" \notin overlap' => FlagKept'
    BY <1>1, <2>2, FlagStays DEF LifeInv
  <2>5. FaultNeedsOverlap'
    <3>1. Settled' => fault' # "freed" /\ ~Deadlocked'
      BY <1>1, <2>2, FaultNeeds DEF LifeInv
    <3> QED BY <2>1, <3>1 DEF FaultNeedsOverlap, Settled, SessionUsed
  <2> QED BY <2>1, <2>3, <2>4, <2>5 DEF LifeInv
<1>2. CASE RingStep \/ UNCHANGED audioVars
  <2>1. /\ UNCHANGED <<lifeVars, fault>> /\ NetTypes' /\ net'.want = net.want
        /\ net'.at = net.at \/ (net.at \in Ringing /\ net'.at \in Ringing)
    BY <1>2, RingSteps DEF audioVars, NetTypes, LifeInv
  <2>2. UNCHANGED <<stream, exiting, mic_running, mutex, joinable, worker, err, mic, copies,
                    session, events, overlap, fault>>
    BY <2>1 DEF lifeVars
  <2>3. LifeTypes'
    BY <2>2 DEF LifeInv, LifeTypes
  <2>4. SessionUsed'
    BY <2>1, <2>2 DEF LifeInv, SessionUsed, Closing, Ringing
  <2>5. (Alone => Alone') /\ (Destroyed => Destroyed')
    BY <2>1, <2>2 DEF Alone, Destroyed, Pending, Reopening, Ringing
  <2>6. FlagKept => FlagKept'
    BY <2>1, <2>2 DEF FlagKept, Pending, Reopening, Ringing
  <2>7. FaultNeedsOverlap'
    BY <2>1, <2>2 DEF LifeInv, FaultNeedsOverlap, Deadlocked, Ringing
  <2>8. (fault' = None <=> fault = None) /\ (Settled' <=> Settled)
        /\ (session' <=> session) /\ ("toggle" \in overlap' <=> "toggle" \in overlap)
    BY <2>2 DEF Settled
  <2> QED BY <2>1, <2>3, <2>4, <2>5, <2>6, <2>7, <2>8 DEF LifeInv
<1> QED BY <1>1, <1>2, StepsAre

\* Both invariants hold.
LEMMA AudioInvariance == AudioSpec => [](LifeInv /\ RingInv)
<1>1. LifeInv /\ RingInv /\ [AudioNext]_audioVars => (LifeInv /\ RingInv)'
  BY LifeInvKept, RingInvKept DEF LifeInv
<1> QED BY <1>1, AudioInits, PTL DEF AudioSpec

\* Freed memory and deadlock take two overlapping events, a deleted session a
\* microphone that was on; short of them the flag says whether it runs.
THEOREM OverlapIsNeeded == AudioSpec => []OverlapNeeded
<1>1. LifeInv => OverlapNeeded
  <2> SUFFICES ASSUME LifeInv PROVE MicFollowsFlag
    BY DEF LifeInv, OverlapNeeded
  <2> SUFFICES ASSUME "toggle" \notin overlap, session, fault = None, ~Pending,
                      net.at # "mic", mic # "ending"
               PROVE  mic_running <=> stream["microphone"] = "started"
    BY DEF MicFollowsFlag
  <2>1. FlagKept
    BY DEF LifeInv
  <2>2. worker.at = None /\ ~Reopening("microphone")
    BY Two DEF Pending, Reopening, None
  <2>3. stream["microphone"] \in {None, "stopped", "started"}
    BY <2>1, <2>2, Two DEF FlagKept, LifeInv, LifeTypes, None
  <2> QED BY <2>1, <2>2, <2>3 DEF FlagKept, None
<1> QED BY <1>1, AudioInvariance, PTL

\* Packets are heard in the order they came, each at most once, for a ring of
\* any length and packets of any size.
THEOREM PacketsInOrder == AudioSpec => HeardInOrder
<1>1. RingInv /\ [AudioNext]_audioVars =>
        [spk.at = "move" /\ spk'.at = "advance" => heard' > heard]_audioVars
  <2> SUFFICES ASSUME RingInv, AudioNext, spk.at = "move", spk'.at = "advance"
               PROVE  heard' > heard
    OBVIOUS
  <2>1. CASE LifeStep
    BY <2>1, LifeLeavesRing DEF RingInv
  <2>2. CASE RingStep
    <3>1. PlayMove
      BY <2>2 DEF RingStep, Push, PushWrite, PushPublish, PushCount, Play, PlayAdvance,
         PlayCheck, Skip, SkipUncount
    <3> QED BY <3>1, PlayMoveRises DEF RingInv
  <2>3. CASE UNCHANGED audioVars
    BY <2>3 DEF audioVars, ringVars
  <2> QED BY <2>1, <2>2, <2>3, StepsAre
<1> QED BY <1>1, AudioInvariance, PTL DEF AudioSpec, HeardInOrder

-----------------------------------------------------------------------------
\* THE COUNT OF BYTES

\* What the ring and its counter agree on, between two steps as well.
Counted ==
    /\ spk.at = "move" => speaker_tmp = 0
    /\ net.at = "publish" => slots[NextSlot(output_write)].size = net.size
    /\ CountFollows

\* The packet k places after output_read is the one Ahead by k.
LEMMA SlotAhead ==
  ASSUME NEW i \in 0 .. Capacity - 1, NEW k \in 0 .. Capacity - 1
  PROVE  /\ (i + k) % Capacity \in 0 .. Capacity - 1
         /\ (i + k) % Capacity = IF i + k < Capacity THEN i + k ELSE i + k - Capacity
         /\ Ahead(i, (i + k) % Capacity) = k
<1>1. Capacity \in Nat /\ Capacity >= 2
  BY AudioAssumption
<1>2. CASE i + k < Capacity
  <2>1. i + k \in 0 .. Capacity - 1
    BY <1>1, <1>2
  <2>2. (i + k) % Capacity = i + k
    BY <1>1, <2>1
  <2> QED BY <1>1, <1>2, <2>1, <2>2 DEF Ahead
<1>3. CASE ~(i + k < Capacity)
  <2>1. i + k - Capacity \in 0 .. Capacity - 1
    BY <1>1, <1>3
  <2>2. (i + k) % Capacity = i + k - Capacity
    <3>1. /\ (i + k) \div Capacity \in Int /\ (i + k) % Capacity \in 0 .. Capacity - 1
          /\ i + k = Capacity * ((i + k) \div Capacity) + ((i + k) % Capacity)
      BY <1>1, Divided
    <3>2. i + k = Capacity * 1 + (i + k - Capacity)
      BY <1>1
    <3> DEFINE p == (i + k) \div Capacity
               s == (i + k) % Capacity
               r == i + k - Capacity
    <3>3. p \in Int /\ s \in 0 .. Capacity - 1 /\ r \in 0 .. Capacity - 1
          /\ Capacity * 1 + r = Capacity * p + s
      BY <2>1, <3>1, <3>2
    <3> HIDE DEF p, s, r
    <3>4. r = s
      BY <1>1, <3>3, Remainder
    <3> QED BY <3>4 DEF r, s
  <2> QED BY <1>1, <1>3, <2>1, <2>2 DEF Ahead
<1> QED BY <1>2, <1>3

\* The distance, as Waiting computes it.
LEMMA Distance ==
  ASSUME NEW i \in 0 .. Capacity - 1, NEW j \in 0 .. Capacity - 1
  PROVE  (j - i) % Capacity = Ahead(i, j)
<1>1. Capacity \in Nat /\ Capacity >= 2 /\ Ahead(i, j) \in 0 .. Capacity - 1
  BY AudioAssumption, AheadProperties
<1> DEFINE d == j - i
           p == d \div Capacity
           s == d % Capacity
<1>2. d \in Int
  BY <1>1
<1>3. p \in Int /\ s \in 0 .. Capacity - 1 /\ d = Capacity * p + s
  BY <1>1, <1>2, Divided
<1>4. \E q \in Int : d = Capacity * q + Ahead(i, j)
  <2>1. CASE j >= i
    <3>1. d = Capacity * 0 + Ahead(i, j)
      BY <1>1, <2>1 DEF Ahead
    <3> QED BY <3>1
  <2>2. CASE ~(j >= i)
    <3>1. d = Capacity * (-1) + Ahead(i, j)
      BY <1>1, <2>2 DEF Ahead
    <3> QED BY <3>1
  <2> QED BY <2>1, <2>2
<1>5. PICK q \in Int : d = Capacity * q + Ahead(i, j)
  BY <1>4
<1>6. Capacity * q + Ahead(i, j) = Capacity * p + s
  BY <1>3, <1>5
<1> HIDE DEF d, p, s
<1>7. Ahead(i, j) = s
  BY <1>1, <1>3, <1>6, Remainder
<1> QED BY <1>7 DEF s, d

\* The number of packets in the ring.
LEMMA CountIs ==
  ASSUME RingTypes
  PROVE  (output_write - output_read) % Capacity = Count
BY RingFacts, Distance DEF Count

\* The sizes of the packets along the ring.
LEMMA SizesAre ==
  ASSUME RingTypes
  PROVE  /\ Sizes \in [Nat -> Nat]
         /\ \A k \in Nat : Sizes[k] = slots[(output_read + k) % Capacity].size
         /\ Sizes[1] = slots[NextSlot(output_read)].size
<1>1. /\ Capacity \in Nat /\ Capacity >= 2 /\ output_read \in 0 .. Capacity - 1
      /\ MaxSize \in Nat
  BY RingFacts, AudioAssumption
<1>2. ASSUME NEW k \in Nat PROVE slots[(output_read + k) % Capacity].size \in Nat
  <2>1. output_read + k \in Int
    BY <1>1
  <2>2. (output_read + k) % Capacity \in 0 .. Capacity - 1
    BY <1>1, <2>1, Divided
  <2> QED BY <1>1, <2>2 DEF RingTypes
<1>3. 1 \in Nat /\ (output_read + 1) % Capacity = NextSlot(output_read)
  BY DEF NextSlot
<1> QED BY <1>2, <1>3 DEF Sizes

Owed == Waiting + (IF spk.at = "uncount" THEN spk.size ELSE 0)
                - (IF net.at = "count" THEN net.size ELSE 0)

\* CountFollows, by what is owed.
LEMMA FollowsOwed ==
  /\ CountFollows <=> buffer_size_bytes = Owed % Wrap
  /\ CountFollows' <=> buffer_size_bytes' = Owed' % Wrap
BY DEF CountFollows, Owed

\* The terms of what is owed are numbers.
LEMMA OwedIs ==
  ASSUME RingTypes, NetTypes
  PROVE  /\ Total(Sizes)[Count] \in Nat /\ Sizes[1] \in Nat
         /\ Waiting = speaker_tmp + Total(Sizes)[Count]
                        - (IF spk.at = "advance" THEN Sizes[1] ELSE 0)
         /\ Owed \in Int /\ Waiting \in Int
         /\ Wrap \in Nat /\ Wrap > 0 /\ MaxSize \in Nat /\ Fill \in Nat
         /\ speaker_tmp \in Nat /\ buffer_size_bytes \in Nat
         /\ spk.size \in Nat /\ net.size \in Nat /\ spk.need \in Nat
<1>1. Total(Sizes)[Count] \in Nat /\ Sizes[1] \in Nat
  <2>1. Count \in Nat /\ 1 \in Nat
    BY RingFacts
  <2> QED BY <2>1, SizesAre, TotalIs
<1>2. Waiting = speaker_tmp + Total(Sizes)[Count]
                  - (IF spk.at = "advance" THEN Sizes[1] ELSE 0)
  BY CountIs DEF Waiting
<1>3. /\ Wrap \in Nat /\ Wrap > 0 /\ Fill \in Nat /\ MaxSize \in Nat /\ MaxRequest \in Nat
  BY WrapAround, AudioAssumption
<1>4. speaker_tmp \in Nat /\ buffer_size_bytes \in Nat
  BY <1>3 DEF RingTypes
<1>5. spk.size \in 0 .. MaxSize /\ net.size \in 0 .. MaxSize /\ spk.need \in 0 .. MaxRequest
  BY DEF RingTypes, NetTypes
<1>6. spk.size \in Nat /\ net.size \in Nat /\ spk.need \in Nat
  BY <1>3, <1>5
<1>7. Waiting \in Int
  BY <1>1, <1>2, <1>4
<1>8. Owed \in Int
  BY <1>6, <1>7 DEF Owed
<1> QED BY <1>1, <1>2, <1>3, <1>4, <1>6, <1>7, <1>8

\* What is counted is what is owed, modulo the values of a size_t.
LEMMA Follows ==
  ASSUME RingTypes, NetTypes, CountFollows, NEW d \in Int,
         Owed' = Owed + d, buffer_size_bytes' = (buffer_size_bytes + d) % Wrap
  PROVE  CountFollows'
<1>1. buffer_size_bytes = Owed % Wrap /\ Owed \in Int /\ Wrap \in Nat /\ Wrap > 0
  BY OwedIs, FollowsOwed
<1>2. ((Owed % Wrap) + d) % Wrap = (Owed + d) % Wrap
  BY <1>1, ModAdd
<1> QED BY <1>1, <1>2, FollowsOwed

\* A step that changes neither.
LEMMA Same ==
  ASSUME CountFollows, Owed' = Owed, buffer_size_bytes' = buffer_size_bytes
  PROVE  CountFollows'
BY FollowsOwed

\* A step that leaves the ring.
LEMMA RingSame ==
  ASSUME UNCHANGED <<slots, output_read, output_write>>
  PROVE  /\ UNCHANGED <<Sizes, Count, Total(Sizes)[Count]>>
         /\ /\ speaker_tmp' = speaker_tmp
            /\ spk'.at = "advance" <=> spk.at = "advance"
            => Waiting' = Waiting
<1>1. UNCHANGED <<Sizes, Count, Total(Sizes)[Count]>>
  BY DEF Sizes, Count, Ahead, Total
<1>2. ASSUME speaker_tmp' = speaker_tmp, spk'.at = "advance" <=> spk.at = "advance"
      PROVE  Waiting' = Waiting
  BY <1>1, <1>2 DEF Waiting, Total, Sizes
<1> QED BY <1>1, <1>2

\* A packet that comes is not waiting yet.
LEMMA PushCounts ==
  ASSUME RingTypes, NetTypes, Counted, NEW size \in 1 .. MaxSize, Push(size)
  PROVE  Counted'
<1>1. /\ UNCHANGED <<slots, output_read, output_write, buffer_size_bytes, speaker_tmp, spk>>
      /\ net.at = "idle" /\ net'.at \in {"idle", "write"}
  BY DEF Push, NetTypes
<1>2. Waiting' = Waiting
  BY <1>1, RingSame
<1>3. Owed' = Owed
  BY <1>1, <1>2 DEF Owed
<1> QED BY <1>1, <1>3, Same DEF Counted

\* Nor is one that is written, outside of the ring.
LEMMA PushWriteCounts ==
  ASSUME RingTypes, NetTypes, RingTypes', Counted, Rising, PushWrite
  PROVE  Counted'
<1> DEFINE w == NextSlot(output_write)
<1>1. /\ UNCHANGED <<output_read, output_write, buffer_size_bytes, speaker_tmp, spk>>
      /\ net.at = "write" /\ net'.at = "publish" /\ net'.size = net.size
  BY DEF PushWrite, NetTypes
<1>2. /\ slots'[w].size = net.size
      /\ \A i \in 0 .. Capacity - 1 : i # w => slots'[i] = slots[i]
  BY RingFacts DEF PushWrite, RingTypes
<1>3. Count < Capacity - 1
  BY <1>1 DEF Rising, Published
<1>4. Ahead(output_read, w) = Count + 1 /\ w' = w
  <2>1. w # output_read
    BY <1>3, RingFacts, AheadProperties DEF Count
  <2> QED BY <1>1, <2>1, RingFacts, AheadProperties DEF Count
<1>5. Count' = Count
  BY <1>1 DEF Count, Ahead
<1>6. ASSUME NEW k \in 1 .. Count PROVE Sizes'[k] = Sizes[k]
  <2> DEFINE i == (output_read + k) % Capacity
  <2>1. k \in 0 .. Capacity - 1 /\ k \in Nat
    BY <1>3, RingFacts
  <2>2. i \in 0 .. Capacity - 1 /\ Ahead(output_read, i) = k
    BY <2>1, SlotAhead, RingFacts
  <2>3. i # w
    <3>1. k # Count + 1
      BY RingFacts
    <3> HIDE DEF i, w
    <3> QED BY <1>4, <2>2, <3>1
  <2>4. slots'[i] = slots[i]
    <3> HIDE DEF i, w
    <3> QED BY <1>2, <2>2, <2>3
  <2>5. Sizes'[k] = slots'[i].size /\ Sizes[k] = slots[i].size
    BY <1>1, <2>1 DEF Sizes
  <2> QED BY <2>4, <2>5
<1>7. Sizes \in [Nat -> Nat] /\ Sizes' \in [Nat -> Nat] /\ Count \in Nat
  <2>1. Sizes' = [k \in Nat |-> slots'[(output_read' + k) % Capacity].size]
    BY DEF Sizes
  <2>2. ASSUME NEW k \in Nat PROVE slots'[(output_read' + k) % Capacity].size \in Nat
    <3>1. output_read' + k \in Int /\ Capacity \in Nat /\ Capacity >= 2 /\ MaxSize \in Nat
      BY <1>1, RingFacts, AudioAssumption
    <3>2. (output_read' + k) % Capacity \in 0 .. Capacity - 1
      BY <3>1, Divided
    <3>3. slots'[(output_read' + k) % Capacity].size \in 0 .. MaxSize
      BY <3>2 DEF RingTypes
    <3> QED BY <3>1, <3>3
  <2> QED BY <2>1, <2>2, SizesAre, RingFacts
<1>8. Total(Sizes')[Count] = Total(Sizes)[Count]
  <2> DEFINE old == Sizes
             new == Sizes'
             n == Count
  <2>1. old \in [Nat -> Nat] /\ new \in [Nat -> Nat] /\ n \in Nat
        /\ \A k \in 1 .. n : new[k] = old[k]
    BY <1>6, <1>7
  <2> HIDE DEF old, new, n
  <2>2. Total(new)[n] = Total(old)[n]
    BY <2>1, TotalsSame
  <2> QED BY <2>2 DEF old, new, n
<1>9. Waiting' = Waiting
  <2>1. Waiting' = speaker_tmp' + Total(Sizes')[(output_write' - output_read') % Capacity]
                     - (IF spk'.at = "advance" THEN Sizes'[1] ELSE 0)
    BY DEF Waiting, Total
  <2>2. spk.at = "advance" => Sizes'[1] = Sizes[1]
    <3>1. ASSUME spk.at = "advance" PROVE 1 \in 1 .. Count
      BY <3>1, RingFacts DEF Rising, Published
    <3> QED BY <3>1, <1>6
  <2>3. Waiting' = speaker_tmp + Total(Sizes)[Count]
                     - (IF spk.at = "advance" THEN Sizes[1] ELSE 0)
    BY <1>1, <1>8, <2>1, <2>2, CountIs
  <2> QED BY <2>3, OwedIs
<1>10. Owed' = Owed
  BY <1>1, <1>9 DEF Owed
<1>11. CountFollows'
  BY <1>1, <1>10, Same DEF Counted
<1>12. slots'[NextSlot(output_write')].size = net'.size
  BY <1>1, <1>2
<1> QED BY <1>1, <1>11, <1>12 DEF Counted

\* One that is published waits, and is owed until it is counted.
LEMMA PushPublishCounts ==
  ASSUME RingTypes, NetTypes, Counted, Rising, PushPublish
  PROVE  Counted'
<1> DEFINE w == NextSlot(output_write)
<1>1. /\ UNCHANGED <<slots, output_read, buffer_size_bytes, speaker_tmp, spk>>
      /\ output_write' = w /\ net.at = "publish" /\ net'.at = "count" /\ net'.size = net.size
  BY DEF PushPublish, NetTypes
<1>2. Count < Capacity - 1 /\ slots[w].size = net.size
  BY <1>1 DEF Rising, Published, Counted
<1>3. Ahead(output_read, w) = Count + 1 /\ w \in 0 .. Capacity - 1
  <2>1. w # output_read
    BY <1>2, RingFacts, AheadProperties DEF Count
  <2> QED BY <2>1, RingFacts, AheadProperties DEF Count
<1>4. Count' = Count + 1 /\ Count + 1 \in 0 .. Capacity - 1 /\ Count \in Nat /\ Count + 1 \in Nat
  BY <1>1, <1>2, <1>3, RingFacts DEF Count, Ahead
<1>5. Sizes[Count + 1] = net.size
  <2>1. (output_read + (Count + 1)) % Capacity \in 0 .. Capacity - 1
        /\ Ahead(output_read, (output_read + (Count + 1)) % Capacity) = Count + 1
    <3> DEFINE k == Count + 1
    <3>1. k \in 0 .. Capacity - 1
      BY <1>4
    <3> HIDE DEF k
    <3>2. (output_read + k) % Capacity \in 0 .. Capacity - 1
          /\ Ahead(output_read, (output_read + k) % Capacity) = k
      BY <3>1, SlotAhead, RingFacts
    <3> QED BY <3>2 DEF k
  <2>2. (output_read + (Count + 1)) % Capacity = w
    BY <1>3, <2>1, RingFacts, AheadProperties
  <2> QED BY <1>2, <1>4, <2>2, SizesAre
<1>6. UNCHANGED Sizes
  BY <1>1 DEF Sizes
<1>7. Total(Sizes)[Count + 1] = Total(Sizes)[Count] + net.size
  BY <1>4, <1>5, SizesAre, TotalIs
<1>8. (output_write' - output_read') % Capacity = Count'
  <2>1. Count' = Ahead(output_read, w) /\ output_write' - output_read' = w - output_read
    BY <1>1 DEF Count, Ahead
  <2>2. (w - output_read) % Capacity = Ahead(output_read, w)
    BY <1>3, RingFacts, Distance
  <2> QED BY <2>1, <2>2
<1>9. Waiting' = Waiting + net.size
  BY <1>1, <1>4, <1>6, <1>7, <1>8, OwedIs DEF Waiting
<1>10. Owed' = Owed
  BY <1>1, <1>9, OwedIs DEF Owed
<1>11. CountFollows'
  BY <1>1, <1>10, Same DEF Counted
<1> QED BY <1>1, <1>11 DEF Counted

\* Then it is counted.
LEMMA PushCountCounts ==
  ASSUME RingTypes, NetTypes, Counted, PushCount
  PROVE  Counted'
<1>1. /\ UNCHANGED <<slots, output_read, output_write, speaker_tmp, spk>>
      /\ net.at = "count" /\ net'.at = "idle"
      /\ buffer_size_bytes' = (buffer_size_bytes + net.size) % Wrap
  BY DEF PushCount, NetTypes
<1>2. Waiting' = Waiting
  BY <1>1, RingSame
<1>3. Owed' = Owed + net.size /\ net.size \in Int
  BY <1>1, <1>2, OwedIs DEF Owed
<1>4. CountFollows'
  BY <1>1, <1>3, Follows DEF Counted
<1> QED BY <1>1, <1>4 DEF Counted

\* Bytes that are played or filled in are counted with the step.
LEMMA PlayCounts ==
  ASSUME RingTypes, NetTypes, Counted, Play
  PROVE  Counted'
<1> DEFINE take == Smaller(speaker_tmp, spk.need)
<1>1. /\ UNCHANGED <<slots, output_read, output_write, net>>
      /\ spk.at = "play" /\ spk'.at \in {"check", "play", "move"}
      /\ spk'.at = "move" => speaker_tmp = 0 /\ speaker_tmp' = 0
  BY DEF Play, RingTypes
<1>2. take \in Nat /\ take \in Int /\ -take \in Int /\ Fill \in Int
  BY OwedIs DEF Smaller
<1>3. UNCHANGED Total(Sizes)[Count]
  BY <1>1, RingSame
<1>4. UNCHANGED <<Sizes, Count>>
  BY <1>1, RingSame
<1>5. Waiting' = speaker_tmp' + Total(Sizes)[Count]
  <2>1. Waiting' = speaker_tmp' + Total(Sizes')[(output_write' - output_read') % Capacity]
                     - (IF spk'.at = "advance" THEN Sizes'[1] ELSE 0)
    BY DEF Waiting, Total
  <2>2. speaker_tmp' \in Int
    BY <1>2, OwedIs DEF Play
  <2>3. Waiting' = speaker_tmp' + Total(Sizes)[Count] - 0
    BY <1>1, <1>4, <2>1, CountIs
  <2> QED BY <2>2, <2>3, OwedIs
<1>6. Waiting = speaker_tmp + Total(Sizes)[Count]
  BY <1>1, OwedIs
<1>7. Owed' = Waiting' - (IF net.at = "count" THEN net.size ELSE 0)
      /\ Owed = Waiting - (IF net.at = "count" THEN net.size ELSE 0)
  <2>1. Waiting' \in Int
    BY <1>2, <1>5, OwedIs DEF Play
  <2> QED BY <1>1, <2>1, OwedIs DEF Owed
<1> HIDE DEF take
<1>8. \/ UNCHANGED <<speaker_tmp, buffer_size_bytes>>
      \/ /\ speaker_tmp' = speaker_tmp - take
         /\ buffer_size_bytes' = (buffer_size_bytes - take) % Wrap
      \/ /\ speaker_tmp = 0 /\ speaker_tmp' = Fill
         /\ buffer_size_bytes' = (buffer_size_bytes + Fill) % Wrap
  BY DEF Play, take
<1>9. CASE UNCHANGED <<speaker_tmp, buffer_size_bytes>>
  <2>1. Owed' = Owed
    BY <1>5, <1>6, <1>7, <1>9
  <2> QED BY <1>1, <1>9, <2>1, Same DEF Counted
<1>10. CASE /\ speaker_tmp' = speaker_tmp - take
            /\ buffer_size_bytes' = (buffer_size_bytes - take) % Wrap
  <2>1. Owed' = Owed + (-take)
    BY <1>2, <1>5, <1>6, <1>7, <1>10, OwedIs
  <2>2. buffer_size_bytes' = (buffer_size_bytes + (-take)) % Wrap
    <3>1. buffer_size_bytes - take = buffer_size_bytes + (-take)
      BY <1>2, OwedIs
    <3> QED BY <1>10, <3>1
  <2>3. CountFollows'
    BY <1>2, <2>1, <2>2, Follows DEF Counted
  <2> QED BY <1>1, <2>3 DEF Counted
<1>11. CASE /\ speaker_tmp = 0 /\ speaker_tmp' = Fill
            /\ buffer_size_bytes' = (buffer_size_bytes + Fill) % Wrap
  <2>1. Owed' = Owed + Fill
    BY <1>2, <1>5, <1>6, <1>7, <1>11, OwedIs
  <2>2. CountFollows'
    BY <1>2, <1>11, <2>1, Follows DEF Counted
  <2> QED BY <1>1, <2>2 DEF Counted
<1> QED BY <1>8, <1>9, <1>10, <1>11

\* A packet that is moved is in the ring and at hand: it waits once.
LEMMA PlayMoveCounts ==
  ASSUME RingTypes, NetTypes, Counted, PlayMove
  PROVE  Counted'
<1>1. /\ UNCHANGED <<slots, output_read, output_write, buffer_size_bytes, net>>
      /\ spk.at = "move" /\ spk'.at = "advance" /\ speaker_tmp = 0
      /\ speaker_tmp' = slots[NextSlot(output_read)].size
  BY DEF PlayMove, RingTypes, Counted
<1>2. UNCHANGED <<Sizes, Count>>
  BY <1>1, RingSame
<1>3. speaker_tmp' = Sizes[1]
  BY <1>1, SizesAre
<1>4. Waiting' = Sizes[1] + Total(Sizes)[Count] - Sizes[1]
  <2>1. Waiting' = speaker_tmp' + Total(Sizes')[(output_write' - output_read') % Capacity]
                     - (IF spk'.at = "advance" THEN Sizes'[1] ELSE 0)
    BY DEF Waiting, Total
  <2> QED BY <1>1, <1>2, <1>3, <2>1, CountIs
<1>5. Waiting' = Waiting
  BY <1>1, <1>4, OwedIs
<1>6. Owed' = Owed
  BY <1>1, <1>5 DEF Owed
<1> QED BY <1>1, <1>6, Same DEF Counted

\* Once the slot at hand has left the ring, the others add up to less by it.
LEMMA FirstGone ==
  ASSUME RingTypes, NetTypes, Count >= 1, output_read' = NextSlot(output_read),
         UNCHANGED <<slots, output_write, speaker_tmp>>, spk'.at # "advance"
  PROVE  Waiting' = speaker_tmp + (Total(Sizes)[Count] - Sizes[1])
<1>1. output_read # output_write
  BY RingFacts, AheadProperties DEF Count
<1>2. Count' = Count - 1
  BY <1>1, RingFacts, AheadProperties DEF Count
<1>3. Count - 1 \in Nat /\ (Count - 1) + 1 = Count /\ Count - 1 \in 0 .. Capacity - 1
  BY RingFacts
<1>4. (output_write' - output_read') % Capacity = Count'
  <2>1. Count' = Ahead(NextSlot(output_read), output_write)
    BY DEF Count, Ahead
  <2> QED BY <2>1, RingFacts, Distance
<1>5. ASSUME NEW k \in 1 .. Count - 1 PROVE Sizes'[k] = Sizes[k + 1]
  <2>1. k \in 0 .. Capacity - 1 /\ k + 1 \in 0 .. Capacity - 1 /\ k \in Nat /\ k + 1 \in Nat
    BY RingFacts
  <2> DEFINE i == (NextSlot(output_read) + k) % Capacity
             j == (output_read + (k + 1)) % Capacity
             l == k + 1
  <2>2. i \in 0 .. Capacity - 1 /\ Ahead(NextSlot(output_read), i) = k
    BY <2>1, SlotAhead, RingFacts
  <2>3. j \in 0 .. Capacity - 1 /\ Ahead(output_read, j) = k + 1
    <3>1. l \in 0 .. Capacity - 1
      BY <2>1
    <3> HIDE DEF l
    <3>2. (output_read + l) % Capacity \in 0 .. Capacity - 1
          /\ Ahead(output_read, (output_read + l) % Capacity) = l
      BY <3>1, SlotAhead, RingFacts
    <3> QED BY <3>2 DEF l
  <2>4. Sizes'[k] = slots[i].size /\ Sizes[k + 1] = slots[j].size
    BY <2>1 DEF Sizes
  <2> HIDE DEF i, j
  <2>5. Ahead(NextSlot(output_read), j) = k
    <3>1. k + 1 # 0 /\ (k + 1) - 1 = k
      BY <2>1
    <3>2. output_read # j
      BY <2>3, <3>1, RingFacts, AheadProperties
    <3>3. output_read \in 0 .. Capacity - 1 /\ j \in 0 .. Capacity - 1
      BY <2>3, RingFacts
    <3>4. Ahead(NextSlot(output_read), j) = Ahead(output_read, j) - 1
      BY <3>2, <3>3, AheadProperties
    <3> QED BY <2>3, <3>1, <3>4
  <2>6. i = j
    BY <2>2, <2>3, <2>5, RingFacts, AheadProperties
  <2> QED BY <2>4, <2>6
<1>6. Sizes \in [Nat -> Nat] /\ Sizes' \in [Nat -> Nat]
  <2>1. Sizes' = [k \in Nat |-> slots[(NextSlot(output_read) + k) % Capacity].size]
    BY DEF Sizes
  <2>2. ASSUME NEW k \in Nat
        PROVE  slots[(NextSlot(output_read) + k) % Capacity].size \in Nat
    <3>1. NextSlot(output_read) + k \in Int /\ Capacity \in Nat /\ Capacity >= 2
          /\ MaxSize \in Nat
      BY RingFacts, AudioAssumption
    <3>2. (NextSlot(output_read) + k) % Capacity \in 0 .. Capacity - 1
      BY <3>1, Divided
    <3>3. slots[(NextSlot(output_read) + k) % Capacity].size \in 0 .. MaxSize
      BY <3>2 DEF RingTypes
    <3> QED BY <3>1, <3>3
  <2> QED BY <2>1, <2>2, SizesAre
<1>7. Total(Sizes')[Count - 1] = Total(Sizes)[Count] - Sizes[1]
  <2> DEFINE old == Sizes
             new == Sizes'
             n == Count - 1
  <2>1. old \in [Nat -> Nat] /\ new \in [Nat -> Nat] /\ n \in Nat
        /\ \A k \in 1 .. n : new[k] = old[k + 1]
    BY <1>3, <1>5, <1>6
  <2>2. n + 1 = Count
    BY <1>3
  <2> HIDE DEF old, new, n
  <2>3. Total(new)[n] = Total(old)[n + 1] - old[1]
    BY <2>1, TotalsShifted
  <2> QED BY <2>2, <2>3 DEF old, new, n
<1>8. Waiting' = speaker_tmp' + Total(Sizes')[(output_write' - output_read') % Capacity]
                   - (IF spk'.at = "advance" THEN Sizes'[1] ELSE 0)
  BY DEF Waiting, Total
<1>9. Waiting' = speaker_tmp + (Total(Sizes)[Count] - Sizes[1]) - 0
  BY <1>2, <1>4, <1>7, <1>8
<1> QED BY <1>9, OwedIs

\* It leaves the ring.
LEMMA PlayAdvanceCounts ==
  ASSUME RingTypes, NetTypes, Counted, Rising, PlayAdvance
  PROVE  Counted'
<1>1. /\ UNCHANGED <<slots, output_write, buffer_size_bytes, speaker_tmp, net>>
      /\ spk.at = "advance" /\ spk'.at = "play" /\ output_read' = NextSlot(output_read)
  BY DEF PlayAdvance, RingTypes
<1>2. Count >= 1
  BY <1>1 DEF Rising, Published
<1>3. Waiting' = speaker_tmp + (Total(Sizes)[Count] - Sizes[1])
  BY <1>1, <1>2, FirstGone
<1>4. Waiting' = Waiting
  BY <1>1, <1>3, OwedIs
<1>5. Owed' = Owed
  BY <1>1, <1>4 DEF Owed
<1> QED BY <1>1, <1>5, Same DEF Counted

\* To look at the count changes nothing.
LEMMA PlayCheckCounts ==
  ASSUME RingTypes, NetTypes, Counted, PlayCheck
  PROVE  Counted'
<1>1. /\ UNCHANGED <<slots, output_read, output_write, buffer_size_bytes, speaker_tmp, net>>
      /\ spk.at \in {"check", "drop"} /\ spk'.at \in {"drop", "skip", "idle"}
  BY DEF PlayCheck, RingTypes
<1>2. Waiting' = Waiting
  BY <1>1, RingSame
<1>3. Owed' = Owed
  BY <1>1, <1>2 DEF Owed
<1> QED BY <1>1, <1>3, Same DEF Counted

\* A packet that is skipped stays counted for a step.
LEMMA SkipCounts ==
  ASSUME RingTypes, NetTypes, Counted, Skip
  PROVE  Counted'
<1>1. /\ UNCHANGED <<slots, output_write, buffer_size_bytes, speaker_tmp, net>>
      /\ spk.at = "skip"
  BY DEF Skip
<1>2. CASE output_read = output_write
  <2>1. spk'.at = "idle" /\ output_read' = output_read
    BY <1>2 DEF Skip, RingTypes
  <2>2. Waiting' = Waiting
    BY <1>1, <2>1, RingSame
  <2>3. Owed' = Owed
    BY <1>1, <2>1, <2>2 DEF Owed
  <2> QED BY <1>1, <2>1, <2>3, Same DEF Counted
<1>3. CASE output_read # output_write
  <2>1. /\ spk'.at = "uncount" /\ output_read' = NextSlot(output_read)
        /\ spk'.size = slots[NextSlot(output_read)].size
    BY <1>3 DEF Skip, RingTypes
  <2>2. Count >= 1 /\ spk'.size = Sizes[1]
    <3>1. Count >= 1
      BY <1>3, RingFacts, AheadProperties DEF Count
    <3>2. spk'.size = Sizes[1]
      BY <2>1, SizesAre
    <3> QED BY <3>1, <3>2
  <2>3. Waiting' = speaker_tmp + (Total(Sizes)[Count] - Sizes[1])
    BY <1>1, <2>1, <2>2, FirstGone
  <2>4. Waiting' + Sizes[1] = Waiting
    BY <1>1, <2>3, OwedIs
  <2>5. Owed' = Owed
    BY <1>1, <2>1, <2>2, <2>3, <2>4, OwedIs DEF Owed
  <2> QED BY <1>1, <2>1, <2>5, Same DEF Counted
<1> QED BY <1>2, <1>3

\* Then it is counted no more.
LEMMA SkipUncountCounts ==
  ASSUME RingTypes, NetTypes, Counted, SkipUncount
  PROVE  Counted'
<1>1. /\ UNCHANGED <<slots, output_read, output_write, speaker_tmp, net>>
      /\ spk.at = "uncount" /\ spk'.at = "drop"
      /\ buffer_size_bytes' = (buffer_size_bytes - spk.size) % Wrap
  BY DEF SkipUncount, RingTypes
<1>2. Waiting' = Waiting
  BY <1>1, RingSame
<1>3. Owed' = Owed + (-spk.size) /\ -spk.size \in Int
  BY <1>1, <1>2, OwedIs DEF Owed
<1>4. buffer_size_bytes' = (buffer_size_bytes + (-spk.size)) % Wrap
  <2>1. buffer_size_bytes - spk.size = buffer_size_bytes + (-spk.size)
    BY OwedIs
  <2> QED BY <1>1, <2>1
<1>5. CountFollows'
  BY <1>3, <1>4, Follows DEF Counted
<1> QED BY <1>1, <1>5 DEF Counted

\* The count's invariant is inductive, beside the ring's.
LEMMA CountedKept ==
  ASSUME RingInv, Counted, RingTypes', [AudioNext]_audioVars
  PROVE  Counted'
<1>0. RingTypes /\ NetTypes /\ Rising
  BY DEF RingInv
<1>1. CASE RingStep
  BY <1>0, <1>1, PushCounts, PushWriteCounts, PushPublishCounts, PushCountCounts,
     PlayCounts,
     PlayMoveCounts, PlayAdvanceCounts, PlayCheckCounts, SkipCounts, SkipUncountCounts
  DEF RingStep
<1>2. CASE LifeStep \/ UNCHANGED audioVars
  <2>1. /\ UNCHANGED <<slots, output_read, output_write, buffer_size_bytes, speaker_tmp>>
        /\ spk' = spk \/ (spk.at = "idle" /\ spk'.at = "play")
        /\ net' = net \/ (net.at # "count" /\ net'.at \notin {"publish", "count"})
    <3>1. CASE LifeStep
      <4>1. net' = net \/ (net.at # "count" /\ net'.at \notin {"write", "publish", "count"})
        BY <1>0, <3>1, LifeLeavesRing
      <4>2. spk' = spk \/ (spk.at = "idle" /\ spk'.at = "play")
        BY <1>0, <3>1, LifeLeavesRing
      <4>3. UNCHANGED <<slots, output_read, output_write, buffer_size_bytes, speaker_tmp>>
        BY <1>0, <3>1, LifeLeavesRing
      <4> QED BY <4>1, <4>2, <4>3
    <3>2. CASE UNCHANGED audioVars
      BY <3>2 DEF audioVars, ringVars
    <3> QED BY <1>2, <3>1, <3>2
  <2>2. Waiting' = Waiting
    BY <2>1, RingSame
  <2>3. Owed' = Owed
    BY <2>1, <2>2 DEF Owed
  <2> QED BY <2>1, <2>3, Same DEF Counted
<1> QED BY <1>1, <1>2, StepsAre

\* The count's invariant holds in the beginning.
LEMMA CountStarts == AudioInit => Counted
<1> SUFFICES ASSUME AudioInit PROVE Counted
  OBVIOUS
<1>1. RingTypes /\ NetTypes
  BY AudioInits DEF RingInv
<1>2. Count = 0 /\ spk.at = "idle" /\ net.at = "idle" /\ speaker_tmp = 0
      /\ buffer_size_bytes = 0
  BY RingFacts, <1>1 DEF AudioInit, Count, Ahead
<1>3. Waiting = 0
  BY <1>1, <1>2, OwedIs, SizesAre, TotalIs
<1>4. Owed = 0 /\ 0 % Wrap = 0
  BY <1>1, <1>2, <1>3, OwedIs DEF Owed
<1> QED BY <1>2, <1>4, FollowsOwed DEF Counted

\* The types of all of it, and the ring's counter is what it holds, wrapped: it
\* does not drift, whatever the sizes and however the two threads interleave.
THEOREM AudioTypeCorrect == AudioSpec => []AudioTypeOK
<1>1. LifeInv /\ RingInv /\ Counted /\ [AudioNext]_audioVars => (LifeInv /\ RingInv /\ Counted)'
  <2> SUFFICES ASSUME LifeInv, RingInv, Counted, [AudioNext]_audioVars
               PROVE  (LifeInv /\ RingInv /\ Counted)'
    OBVIOUS
  <2>1. LifeInv' /\ RingInv'
    BY LifeInvKept, RingInvKept DEF LifeInv
  <2> QED BY <2>1, CountedKept DEF RingInv
<1>2. LifeInv /\ RingInv /\ Counted => AudioTypeOK
  BY DEF LifeInv, RingInv, Counted, AudioTypeOK
<1> QED BY <1>1, <1>2, AudioInits, CountStarts, PTL DEF AudioSpec
==============================================================================
