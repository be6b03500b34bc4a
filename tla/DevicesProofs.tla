--------------------------- MODULE DevicesProofs ---------------------------
(***************************************************************************)
(* Proofs about the two components of MCDevices, each for any bounds.      *)
(*                                                                         *)
(* VideoDecoder, with any number of codec buffers and a codec that keeps   *)
(* the order of frames or does not: every frame in the pipeline was pushed *)
(* (Stages), the infos are pruned neither too late nor too early (Order),  *)
(* and a buffer can only be lost while a flush is on (Taken).              *)
(*                                                                         *)
(* Camera, with any number of switches, launches and failed starts: until  *)
(* both threads have been in the camera at once, at most one is inside it, *)
(* and the place it has reached (PlaceOf) says which of the camera's       *)
(* objects are open: when it is on, all its parts but those being closed;  *)
(* when it is off, those opened so far.  Every other object was left       *)
(* behind by a start that failed, so of each kind there are no more of     *)
(* these than starts have failed (Objects).                                *)
(***************************************************************************)
EXTENDS VideoDecoder, Camera, SequenceTheorems, FiniteSetTheorems, TLAPS

Sent == 0..newest

Records ==
    /\ net \in [at : {"idle", "pushed", "exiting", "notified", "stopped", "gone"},
                frame : Frames]
    /\ input \in [at : Places, frame : Frames, fresh : BOOLEAN]
    /\ output \in [at : {"top", "holding", "ended"}, frame : Frames,
                   fresh : BOOLEAN]
    /\ callback \in [at : {"idle", "found"}, frame : Frames]
    /\ render \in {"idle", "begun", "codec", "pending", "infos"}

\* What the pipeline holds was pushed.
Stages ==
    /\ Records
    /\ newest \in -1..MaxFrame /\ newestImage \in -1..newest
    /\ newestShown \in -1..newestImage /\ shown \in -1..newestShown
    /\ pending \in Seq(Sent) /\ Len(pending) <= 2
    /\ infos \in Seq(Sent) /\ recorded \subseteq Sent
    /\ queued \in Seq(Sent) /\ done \in Seq(Sent) /\ images \in Seq(Sent)
    /\ net.at = "pushed" => net.frame \in Sent /\ net.frame >= newest - 1
    /\ input.at \in {"polling", "dequeuing", "holding"} => input.frame \in Sent
    /\ output.at = "holding" => output.frame \in Sent
    /\ callback.at = "found" => callback.frame \in 0..newestImage

\* An info is at most one frame behind any recorded before it.
Sorted(seq) ==
    \A i, j \in 1..Len(seq) : i < j => seq[j] >= seq[i] - 1

Order ==
    /\ Sorted(infos) /\ InfosRecent /\ InfoKept /\ ShownInOrder
    /\ callback.at = "found" => callback.frame >= newestShown - 1

\* The input buffers the client has: outside a flush at most one is lost, and
\* after the codec's flush none can be dequeued until the flush ends.
Taken ==
    /\ taken \in Nat /\ Len(queued) \in Nat /\ taken + Len(queued) <= Buffers
    /\ flushing <=> render # "idle"
    /\ input.fresh => input.at = "holding" /\ taken >= 1
    /\ net.at \in {"exiting", "notified", "stopped", "gone"} => exiting
    /\ OneBufferLost
    /\ ~exiting /\ render \in {"codec", "pending", "infos"} =>
        IF input.at = "dequeuing" THEN taken = 0 ELSE taken <= 1

IInv == Stages /\ Order /\ Taken

-----------------------------------------------------------------------------
(* Sequences *)

LEMMA RemoveAtProperties ==
    ASSUME NEW S, NEW seq \in Seq(S), NEW i \in 1..Len(seq)
    PROVE  /\ RemoveAt(seq, i) \in Seq(S)
           /\ Len(RemoveAt(seq, i)) = Len(seq) - 1
           /\ \A k \in 1..(Len(seq) - 1) :
                RemoveAt(seq, i)[k] = IF k < i THEN seq[k] ELSE seq[k + 1]
<1>0. Len(seq) \in Nat /\ \A k \in 1..Len(seq) : seq[k] \in S
  BY LenProperties, ElementOfSeq
<1> DEFINE head == SubSeq(seq, 1, i - 1)
           tail == SubSeq(seq, i + 1, Len(seq))
<1>1. /\ head \in Seq(S) /\ Len(head) = i - 1
      /\ \A k \in 1..(i - 1) : head[k] = seq[k]
  <2>1. i - 1 \in Int /\ \A k \in 1..(i - 1) : seq[k] \in S
    BY <1>0
  <2>2. /\ head \in Seq(S) /\ Len(head) = IF 1 <= i - 1 THEN i - 1 - 1 + 1 ELSE 0
        /\ \A k \in 1..(i - 1 - 1 + 1) : head[k] = seq[1 + k - 1]
    BY <2>1, SubSeqProperties
  <2> HIDE DEF head
  <2>3. QED
    BY <1>0, <2>2
<1>2. /\ tail \in Seq(S) /\ Len(tail) = Len(seq) - i
      /\ \A k \in 1..(Len(seq) - i) : tail[k] = seq[i + k]
  <2>1. i + 1 \in Int /\ \A k \in (i + 1)..Len(seq) : seq[k] \in S
    BY <1>0
  <2>2. /\ tail \in Seq(S)
        /\ Len(tail) = IF i + 1 <= Len(seq) THEN Len(seq) - (i + 1) + 1 ELSE 0
        /\ \A k \in 1..(Len(seq) - (i + 1) + 1) : tail[k] = seq[i + 1 + k - 1]
    BY <1>0, <2>1, SubSeqProperties
  <2> HIDE DEF tail
  <2>3. QED
    BY <1>0, <2>2
<1>3. RemoveAt(seq, i) = head \o tail
  BY DEF RemoveAt
<1> HIDE DEF head, tail
<1>4. /\ head \o tail \in Seq(S) /\ Len(head \o tail) = Len(head) + Len(tail)
      /\ \A k \in 1..(Len(head) + Len(tail)) :
            (head \o tail)[k] = IF k <= Len(head) THEN head[k] ELSE tail[k - Len(head)]
  BY <1>1, <1>2, ConcatProperties
<1>5. Len(head \o tail) = Len(seq) - 1
  BY <1>0, <1>1, <1>2, <1>4
<1>6. ASSUME NEW k \in 1..(Len(seq) - 1)
      PROVE  (head \o tail)[k] = IF k < i THEN seq[k] ELSE seq[k + 1]
  <2>1. CASE k < i
    BY <1>0, <1>1, <1>2, <1>4, <2>1
  <2>2. CASE ~(k < i)
    <3>1. (head \o tail)[k] = tail[k - (i - 1)] /\ k - (i - 1) \in 1..(Len(seq) - i)
      BY <1>0, <1>1, <1>2, <1>4, <2>2
    <3>2. i + (k - (i - 1)) = k + 1
      OBVIOUS
    <3>3. QED
      BY <1>0, <1>2, <2>2, <3>1, <3>2
  <2>3. QED
    BY <2>1, <2>2, Zenon
<1>7. QED
  BY <1>3, <1>4, <1>5, <1>6

\* rest is seq without its first n elements, all before f, and the next is not.
Leftover(S, seq, f, rest, n) ==
    /\ \A k \in 1..n : seq[k] < f
    /\ n < Len(seq) => seq[n + 1] >= f
    /\ rest \in Seq(S) /\ Len(rest) = Len(seq) - n
    /\ \A k \in 1..(Len(seq) - n) : rest[k] = seq[n + k]

\* What pruning leaves is such a tail.
LEMMA PrunedProperties ==
    ASSUME NEW S \in SUBSET Int, NEW seq \in Seq(S), NEW f \in Int, NEW rest,
           Pruned(seq, f, rest)
    PROVE  \E n \in 0..Len(seq) : Leftover(S, seq, f, rest, n)
<1>1. PICK n \in 0..Len(seq) :
            /\ \A k \in 1..n : seq[k] < f
            /\ n < Len(seq) => seq[n + 1] >= f
            /\ rest = SubSeq(seq, n + 1, Len(seq))
  BY DEF Pruned
<1>0. Len(seq) \in Nat /\ \A k \in 1..Len(seq) : seq[k] \in S
  BY LenProperties, ElementOfSeq
<1>2. /\ rest \in Seq(S) /\ Len(rest) = Len(seq) - n
      /\ \A k \in 1..(Len(seq) - n) : rest[k] = seq[n + k]
  <2>1. n + 1 \in Int /\ \A k \in (n + 1)..Len(seq) : seq[k] \in S
    BY <1>0, <1>1
  <2>2. /\ rest \in Seq(S)
        /\ Len(rest) = IF n + 1 <= Len(seq) THEN Len(seq) - (n + 1) + 1 ELSE 0
        /\ \A k \in 1..(Len(seq) - (n + 1) + 1) : rest[k] = seq[n + 1 + k - 1]
    BY <1>0, <1>1, <2>1, SubSeqProperties
  <2>3. QED
    BY <1>0, <2>2
<1>3. Leftover(S, seq, f, rest, n)
  BY <1>1, <1>2 DEF Leftover
<1>4. QED
  BY <1>3

\* A sequence of frames pushed stays one when a newer frame is pushed.
LEMMA SentGrows ==
    ASSUME NEW old \in -1..MaxFrame, NEW new \in old..MaxFrame,
           NEW seq \in Seq(0..old)
    PROVE  seq \in Seq(0..new)
  BY FramesAssumption, SeqMonotonic

-----------------------------------------------------------------------------
(* The infos *)

Elements(seq) == {seq[k] : k \in 1..Len(seq)}

\* Erasing an info keeps the order, and all infos but those of its frame.
LEMMA EraseInfo ==
    ASSUME NEW S \in SUBSET Int, NEW seq \in Seq(S), Sorted(seq),
           NEW i \in 1..Len(seq)
    PROVE  /\ RemoveAt(seq, i) \in Seq(S) /\ Sorted(RemoveAt(seq, i))
           /\ Elements(RemoveAt(seq, i)) \subseteq Elements(seq)
           /\ Elements(seq) \ {seq[i]} \subseteq Elements(RemoveAt(seq, i))
<1> DEFINE mid == RemoveAt(seq, i)
<1>1. /\ mid \in Seq(S) /\ Len(mid) = Len(seq) - 1 /\ Len(seq) \in Nat
      /\ \A k \in 1..(Len(seq) - 1) : mid[k] = IF k < i THEN seq[k] ELSE seq[k + 1]
      /\ \A k \in 1..Len(seq) : seq[k] \in Int
  BY RemoveAtProperties, LenProperties, ElementOfSeq
<1> HIDE DEF mid
<1>2. Sorted(mid)
  <2> SUFFICES ASSUME NEW p \in 1..Len(mid), NEW q \in 1..Len(mid), p < q
               PROVE  mid[q] >= mid[p] - 1
    BY DEF Sorted
  <2> DEFINE at(k) == IF k < i THEN k ELSE k + 1
  <2>1. /\ at(p) \in 1..Len(seq) /\ at(q) \in 1..Len(seq) /\ at(p) < at(q)
        /\ mid[p] = seq[at(p)] /\ mid[q] = seq[at(q)]
    BY <1>1
  <2> HIDE DEF at
  <2>2. seq[at(q)] >= seq[at(p)] - 1
    BY <2>1 DEF Sorted
  <2>3. QED
    BY <2>1, <2>2
<1>3. Elements(mid) \subseteq Elements(seq)
  BY <1>1 DEF Elements
<1>4. ASSUME NEW j \in 1..Len(seq), seq[j] # seq[i]
      PROVE  seq[j] \in Elements(mid)
  <2>1. CASE j < i
    <3>1. j \in 1..Len(mid) /\ mid[j] = seq[j]
      BY <1>1, <2>1
    <3>2. QED
      BY <3>1 DEF Elements
  <2>2. CASE j > i
    <3>1. j - 1 \in 1..Len(mid) /\ mid[j - 1] = seq[j]
      BY <1>1, <2>2
    <3>2. QED
      BY <3>1 DEF Elements
  <2>3. QED
    BY <1>1, <1>4, <2>1, <2>2
<1>5. QED
  BY <1>1, <1>2, <1>3, <1>4 DEF Elements, mid

\* What pruning leaves is sorted, starts at the image or after it, and has
\* lost nothing newer than the image.
LEMMA PruneInfos ==
    ASSUME NEW S \in SUBSET Int, NEW seq \in Seq(S), Sorted(seq), NEW f \in Int,
           NEW rest, Pruned(seq, f, rest)
    PROVE  /\ rest \in Seq(S) /\ Sorted(rest)
           /\ \A x \in Elements(rest) : x >= f - 1
           /\ Elements(rest) \subseteq Elements(seq)
           /\ \A x \in Elements(seq) : x > f => x \in Elements(rest)
<1>0. PICK n \in 0..Len(seq) : Leftover(S, seq, f, rest, n)
  BY PrunedProperties
<1>1. /\ \A k \in 1..n : seq[k] < f
      /\ n < Len(seq) => seq[n + 1] >= f
      /\ rest \in Seq(S) /\ Len(rest) = Len(seq) - n
      /\ \A k \in 1..(Len(seq) - n) : rest[k] = seq[n + k]
  BY <1>0 DEF Leftover
<1>2. Len(seq) \in Nat /\ \A k \in 1..Len(seq) : seq[k] \in Int
  BY LenProperties, ElementOfSeq
<1>3. \A k \in 1..Len(rest) : n + k \in 1..Len(seq) /\ rest[k] = seq[n + k]
  BY <1>1, <1>2
<1>4. Sorted(rest)
  <2> SUFFICES ASSUME NEW i \in 1..Len(rest), NEW j \in 1..Len(rest), i < j
               PROVE  rest[j] >= rest[i] - 1
    BY DEF Sorted
  <2>1. n + i < n + j
    BY <1>1, <1>2
  <2>2. seq[n + j] >= seq[n + i] - 1
    BY <1>3, <2>1 DEF Sorted
  <2>3. QED
    BY <1>3, <2>2
<1>5. ASSUME NEW k \in 1..Len(rest) PROVE rest[k] >= f - 1
  <2>1. n + 1 \in 1..Len(seq) /\ seq[n + 1] >= f
    BY <1>1, <1>2
  <2>2. CASE k = 1
    BY <1>2, <1>3, <2>1, <2>2
  <2>3. CASE k > 1
    <3>0. n + 1 < n + k
      BY <1>1, <1>2, <2>3
    <3>1. seq[n + k] >= seq[n + 1] - 1
      BY <1>3, <2>1, <3>0 DEF Sorted
    <3>2. QED
      BY <1>2, <1>3, <2>1, <3>1
  <2>4. QED
    BY <1>1, <1>2, <2>2, <2>3
<1>6. Elements(rest) \subseteq Elements(seq)
  BY <1>3 DEF Elements
<1>7. ASSUME NEW j \in 1..Len(seq), seq[j] > f PROVE seq[j] \in Elements(rest)
  <2>1. j > n
    BY <1>1, <1>2, <1>7
  <2>2. j - n \in 1..Len(rest) /\ rest[j - n] = seq[j]
    BY <1>1, <1>2, <2>1
  <2>3. QED
    BY <2>2 DEF Elements
<1>8. QED
  BY <1>1, <1>4, <1>5, <1>6, <1>7 DEF Elements

-----------------------------------------------------------------------------
(* Every frame in the pipeline was pushed *)

\* What on_image_available does with the image of frame f.
HandleImage(f) ==
    /\ newestImage' = IF f > newestImage THEN f ELSE newestImage
    /\ \/ /\ callback' = [at |-> "found", frame |-> f]
          /\ \E i \in 1..Len(infos) :
                infos[i] = f /\ Pruned(RemoveAt(infos, i), f, infos')
       \/ /\ callback' = callback
          /\ Pruned(infos, f, infos')
          /\ \A i \in 1..Len(infos) : infos[i] # f

LEMMA LastImage ==
    ASSUME Stages, OnImageAvailable PROVE \E f \in Sent : HandleImage(f)
<1> DEFINE f == Last(images)
<1>1. f \in Sent
  <2>1. Len(images) \in 1..Len(images) /\ f = images[Len(images)]
    BY EmptySeq, LenProperties DEF Stages, OnImageAvailable, Last
  <2>2. QED
    BY <2>1, ElementOfSeq DEF Stages
<1>2. HandleImage(f)
  BY DEF OnImageAvailable, HandleImage
<1>3. QED
  BY <1>1, <1>2

\* What is left of the infos; the order only matters when they were sorted.
InfosHandled(f) ==
    /\ infos' \in Seq(Sent)
    /\ Sorted(infos) =>
        /\ Sorted(infos')
        /\ \A x \in Elements(infos') : x >= f - 1
        /\ Elements(infos') \subseteq Elements(infos)
        /\ \A x \in Elements(infos) : x > f => x \in Elements(infos')

LEMMA HandledInfos ==
    ASSUME Stages, NEW f \in Sent, HandleImage(f)
    PROVE  InfosHandled(f)
<1>0. Sent \in SUBSET Int /\ f \in Int /\ infos \in Seq(Sent)
  BY DEF Sent, Stages
<1>1. CASE Pruned(infos, f, infos')
  BY <1>0, <1>1, PrunedProperties, PruneInfos DEF Leftover, InfosHandled
<1>2. ASSUME NEW i \in 1..Len(infos), infos[i] = f,
             Pruned(RemoveAt(infos, i), f, infos')
      PROVE  InfosHandled(f)
  <2> DEFINE mid == RemoveAt(infos, i)
  <2>1. mid \in Seq(Sent)
    BY <1>0, RemoveAtProperties
  <2>2. infos' \in Seq(Sent)
    BY <1>0, <1>2, <2>1, PrunedProperties DEF Leftover
  <2>3. ASSUME Sorted(infos)
        PROVE  /\ Sorted(mid) /\ Elements(mid) \subseteq Elements(infos)
               /\ Elements(infos) \ {f} \subseteq Elements(mid)
    BY <1>0, <1>2, <2>3, EraseInfo
  <2> HIDE DEF mid
  <2>4. ASSUME Sorted(infos)
        PROVE  /\ Sorted(infos')
               /\ \A x \in Elements(infos') : x >= f - 1
               /\ Elements(infos') \subseteq Elements(mid)
               /\ \A x \in Elements(mid) : x > f => x \in Elements(infos')
    BY <1>0, <1>2, <2>1, <2>3, <2>4, PruneInfos DEF mid
  <2>5. \A x \in Elements(infos) : x > f => x # f
    BY <1>0
  <2>6. QED
    BY <2>2, <2>3, <2>4, <2>5 DEF InfosHandled
<1>3. QED
  BY <1>1, <1>2 DEF HandleImage

LEMMA StagesStep == Stages /\ Next => Stages'
  <1> SUFFICES ASSUME Stages, Next PROVE Stages'
    OBVIOUS
  <1> USE FramesAssumption
  <1>1. ASSUME NEW f \in Frames, PushData(f) PROVE Stages'
    <2>1. /\ newest' \in -1..MaxFrame /\ newest' \in newest..MaxFrame
          /\ f \in 0..newest' /\ f >= newest' - 1 /\ newest \in -1..MaxFrame
      BY <1>1 DEF PushData, Stages, Frames
    <2>2. /\ infos \in Seq(Sent') /\ queued \in Seq(Sent')
          /\ done \in Seq(Sent') /\ images \in Seq(Sent')
          /\ pending \in Seq(Sent')
      BY <2>1, SentGrows DEF Stages, Sent
    <2>3. Enqueue(f) \in Seq(Sent') /\ Len(Enqueue(f)) <= 2
      <3>1. Len(pending) \in Nat /\ Len(pending) <= 2
        BY <2>2, LenProperties DEF Stages
      <3>2. f \in Sent'
        BY <2>1 DEF Sent
      <3>3. CASE pending # <<>> /\ Last(pending) = f
        BY <2>2, <3>1, <3>3 DEF Enqueue
      <3>4. CASE ~(pending # <<>> /\ Last(pending) = f) /\ Len(pending) >= 2
        <4> DEFINE longer == Append(Tail(pending), f)
        <4>0. Len(<<>>) = 0
          OBVIOUS
        <4>1. Len(pending) = 2
          BY <3>1, <3>4
        <4>5. pending # <<>>
          BY <4>0, <4>1
        <4>2. Tail(pending) \in Seq(Sent') /\ Len(Tail(pending)) = 1
          BY <2>2, <4>1, <4>5, HeadTailProperties
        <4>3. Enqueue(f) = longer
          BY <3>4 DEF Enqueue
        <4>4. longer \in Seq(Sent') /\ Len(longer) = 1 + 1
          BY <3>2, <4>2, AppendProperties
        <4> HIDE DEF longer
        <4>6. QED
          BY <4>3, <4>4
      <3>5. CASE ~(pending # <<>> /\ Last(pending) = f) /\ ~(Len(pending) >= 2)
        <4>1. Enqueue(f) = Append(pending, f)
          BY <3>5 DEF Enqueue
        <4>2. /\ Append(pending, f) \in Seq(Sent')
              /\ Len(Append(pending, f)) = Len(pending) + 1
          BY <2>2, <3>2, AppendProperties
        <4>3. QED
          BY <3>1, <3>5, <4>1, <4>2
      <3>6. QED
        BY <3>3, <3>4, <3>5
    <2>4. Records'
      BY <1>1 DEF PushData, Notify, Stages, Records, Places
    <2>5. /\ pending' = Enqueue(f)
          /\ UNCHANGED <<infos, queued, done, images, recorded, newestImage,
                         newestShown, shown, output, callback>>
          /\ net' = [at |-> "pushed", frame |-> f]
          /\ input' = IF input.at = "waiting" THEN [input EXCEPT !.at = "top"] ELSE input
      BY <1>1 DEF PushData, Notify, codec
    <2>6. /\ input'.at \in {"polling", "dequeuing", "holding"} =>
                input'.frame = input.frame /\ input.at \in {"polling", "dequeuing", "holding"}
          /\ Sent \subseteq Sent'
      BY <2>1, <2>5 DEF Stages, Records, Sent
    <2>7. /\ newest' \in -1..MaxFrame /\ newestImage' \in -1..newest'
          /\ newestShown' \in -1..newestImage' /\ shown' \in -1..newestShown'
          /\ net'.at = "pushed" => net'.frame \in Sent' /\ net'.frame >= newest' - 1
      BY <2>1, <2>5 DEF Stages, Sent
    <2>8. /\ input'.at \in {"polling", "dequeuing", "holding"} => input'.frame \in Sent'
          /\ output'.at = "holding" => output'.frame \in Sent'
          /\ callback'.at = "found" => callback'.frame \in 0..newestImage'
          /\ recorded' \subseteq Sent'
      BY <2>5, <2>6 DEF Stages
    <2>9. QED
      BY <2>2, <2>3, <2>4, <2>5, <2>7, <2>8 DEF Stages
  <1>2. CASE FrameCompleted
    <2>1. net.frame \in Sent
      BY <1>2 DEF FrameCompleted, Stages
    <2>2. Append(infos, net.frame) \in Seq(Sent)
      BY <2>1, AppendProperties DEF Stages
    <2>3. Records' /\ net'.at = "idle"
      BY <1>2 DEF FrameCompleted, Stages, Records
    <2>4. QED
      BY <1>2, <2>1, <2>2, <2>3 DEF FrameCompleted, Stages, Sent, codec
  <1>3. CASE Exit
    BY <1>3 DEF Stages, Records, Places, Frames, Sent, Exit, codec, history
  <1>4. CASE NotifyAll
    BY <1>4 DEF Stages, Records, Places, Frames, Sent, NotifyAll, codec, history, Notify
  <1>5. CASE StopCodec
    <2>1. Records' /\ net'.at = "stopped" /\ input'.at = input.at /\ output'.at = output.at
          /\ input'.frame = input.frame /\ output'.frame = output.frame
      BY <1>5 DEF StopCodec, Stages, Records
    <2>2. <<>> \in Seq(Sent)
      BY EmptySeq
    <2>3. QED
      BY <1>5, <2>1, <2>2 DEF StopCodec, Stages, Sent, history
  <1>6. CASE Join
    BY <1>6 DEF Stages, Records, Places, Frames, Sent, Join, codec, history
  <1>7. CASE InputTest
    BY <1>7 DEF Stages, Records, Places, Frames, Sent, InputTest, codec, history, inputIdle
  <1>8. CASE InputWait
    BY <1>8 DEF Stages, Records, Places, Frames, Sent, InputWait, codec, history, inputIdle
  <1>9. CASE InputSpuriousWake
    BY <1>9 DEF Stages, Records, Places, Frames, Sent, InputSpuriousWake, codec, history,
         inputIdle
  <1>10. CASE InputTake
    <2>1. Records'
      <3>1. CASE exiting \/ flushing \/ pending = <<>>
        BY SMTT(30), <1>10, <3>1 DEF InputTake, inputIdle, Stages, Records, Places
      <3>2. CASE ~(exiting \/ flushing \/ pending = <<>>)
        <4>1. Head(pending) \in Frames
          BY <3>2, HeadTailProperties DEF Stages, Sent, Frames
        <4>2. QED
          BY <1>10, <3>2, <4>1 DEF InputTake, inputIdle, Stages, Records, Places
      <3>3. QED
        BY <3>1, <3>2
    <2>2. CASE exiting \/ flushing \/ pending = <<>>
      <3>1. pending' = pending /\ input'.at \notin {"polling", "dequeuing", "holding"}
        BY <1>10, <2>2 DEF InputTake, Stages, Records
      <3>2. QED
        BY <1>10, <2>1, <3>1 DEF InputTake, inputIdle, history, Stages, Sent
    <2>3. CASE ~(exiting \/ flushing \/ pending = <<>>)
      <3>1. /\ Head(pending) \in Sent /\ Tail(pending) \in Seq(Sent)
            /\ Len(Tail(pending)) <= 2
        BY <2>3, HeadTailProperties, LenProperties DEF Stages
      <3>2. pending' = Tail(pending) /\ input'.frame = Head(pending)
        BY <1>10, <2>3 DEF InputTake, Stages, Records
      <3>3. QED
        BY <1>10, <2>1, <3>1, <3>2 DEF InputTake, inputIdle, history, Stages, Sent
    <2>4. QED
      BY <2>2, <2>3
  <1>11. CASE InputPoll
    BY <1>11 DEF Stages, Records, Places, Frames, Sent, InputPoll, codec, history, inputIdle
  <1>12. CASE InputDequeue
    BY ZenonT(60), <1>12 DEF Stages, Records, Places, Frames, Sent, InputDequeue, codec,
         history, inputIdle
  <1>13. CASE InputFeed
    <2>1. Records' /\ input'.at = "top"
      BY <1>13 DEF InputFeed, inputIdle, Stages, Records, Places
    <2>2. queued' \in Seq(Sent)
      <3>1. queued \in Seq(Sent) /\ input.frame \in Sent
        BY <1>13 DEF InputFeed, Stages
      <3>2. Append(queued, input.frame) \in Seq(Sent)
        BY <3>1, AppendProperties
      <3>3. QED
        BY <1>13, <3>1, <3>2 DEF InputFeed
    <2>3. QED
      BY <1>13, <2>1, <2>2 DEF InputFeed, inputIdle, history, Stages, Sent
  <1>14. CASE CodecDecode
    <2>1. PICK i \in 1..Len(queued) : /\ queued' = RemoveAt(queued, i)
                                      /\ done' = Append(done, queued[i])
      BY <1>14 DEF CodecDecode
    <2>2. queued' \in Seq(Sent)
      BY <2>1, RemoveAtProperties DEF Stages
    <2>3. done' \in Seq(Sent)
      BY <2>1, ElementOfSeq, AppendProperties DEF Stages
    <2>4. QED
      BY <1>14, <2>2, <2>3 DEF CodecDecode, outputIdle, Stages, Records, Sent
  <1>15. CASE OutputDequeue
    BY SMTT(30), <1>15 DEF Stages, Records, Places, Frames, Sent, OutputDequeue, codec,
         history, outputIdle
  <1>16. CASE OutputRelease
    <2>1. Records' /\ output'.at = "top"
      BY <1>16 DEF OutputRelease, outputIdle, Stages, Records
    <2>2. images' \in Seq(Sent)
      <3>1. output.frame \in Sent
        BY <1>16 DEF OutputRelease, Stages
      <3>2. QED
        BY <1>16, <3>1, AppendProperties DEF OutputRelease, Stages
    <2>3. QED
      BY <1>16, <2>1, <2>2 DEF OutputRelease, outputIdle, Stages, Sent
  <1>17. CASE OutputExit
    BY ZenonT(60), <1>17 DEF Stages, Records, Places, Frames, Sent, OutputExit, codec,
         history, outputIdle
  <1>18. CASE OnImageAvailable
    <2>1. PICK f \in Sent : HandleImage(f)
      BY <1>18, LastImage
    <2>2. infos' \in Seq(Sent)
      BY <2>1, HandledInfos DEF InfosHandled
    <2>3. newestImage' \in 0..newest /\ f <= newestImage' /\ newestImage <= newestImage'
      BY <2>1 DEF HandleImage, Stages, Sent
    <2>4. callback' = callback \/ callback' = [at |-> "found", frame |-> f]
      BY <2>1 DEF HandleImage
    <2>5. images' = <<>> /\ <<>> \in Seq(Sent) /\ callback.at = "idle"
      BY <1>18, EmptySeq DEF OnImageAvailable
    <2>6. f \in Frames
      BY DEF Sent, Frames, Stages
    <2>7. Records'
      BY <1>18, <2>4, <2>6 DEF OnImageAvailable, outputIdle, Stages, Records
    <2>8. /\ newestImage' \in -1..newest /\ newestShown \in -1..newestImage'
          /\ callback'.at = "found" => callback'.frame \in 0..newestImage'
      BY <2>3, <2>4, <2>5 DEF Stages, Sent
    <2>9. QED
      BY <1>18, <2>2, <2>5, <2>7, <2>8 DEF OnImageAvailable, outputIdle, Stages, Sent
  <1>19. CASE Show
    <2>1. Records' /\ callback'.at = "idle"
      BY <1>19 DEF Show, outputIdle, Stages, Records
    <2>2. callback.frame \in 0..newestImage
      BY <1>19 DEF Show, Stages
    <2>3. shown' = callback.frame /\ newestShown' =
            IF callback.frame > newestShown THEN callback.frame ELSE newestShown
      BY <1>19 DEF Show
    <2>4. shown' \in -1..newestShown' /\ newestShown' \in -1..newestImage
      BY <2>2, <2>3 DEF Stages
    <2>5. QED
      BY <1>19, <2>1, <2>4 DEF Show, outputIdle, codec, Stages, Sent
  <1>20. CASE FlushBegin
    BY <1>20 DEF Stages, Records, Places, Frames, Sent, FlushBegin, codec, history,
         flushIdle
  <1>21. CASE FlushCodec
    <2>1. Records' /\ input'.at = input.at /\ output'.at = output.at
          /\ input'.frame = input.frame /\ output'.frame = output.frame
      BY <1>21 DEF FlushCodec, flushIdle, Stages, Records
    <2>2. <<>> \in Seq(Sent)
      BY EmptySeq
    <2>3. QED
      BY <1>21, <2>1, <2>2 DEF FlushCodec, flushIdle, Stages, Sent
  <1>22. CASE FlushPending
    BY <1>22 DEF Stages, Records, Places, Frames, Sent, FlushPending, codec, history,
         flushIdle
  <1>23. CASE FlushInfos
    BY <1>23 DEF Stages, Records, Places, Frames, Sent, FlushInfos, codec, history,
         flushIdle
  <1>24. CASE FlushEnd
    BY <1>24 DEF Stages, Records, Places, Frames, Sent, FlushEnd, codec, history, flushIdle
  <1>25. QED
    BY <1>1, <1>2, <1>3, <1>4, <1>5, <1>6, <1>7, <1>8, <1>9, <1>10, <1>11, <1>12, <1>13,
         <1>14, <1>15, <1>16, <1>17, <1>18, <1>19, <1>20, <1>21, <1>22, <1>23, <1>24 DEF
         Next, Network, Destroy, Input, Output, Flush

-----------------------------------------------------------------------------
(* The infos are pruned neither too late nor too early *)

LEMMA OrderStep == Stages /\ Stages' /\ Order /\ Next => Order'
  <1> SUFFICES ASSUME Stages, Stages', Order, Next PROVE Order'
    OBVIOUS
  <1> DEFINE Same == UNCHANGED <<infos, newestImage, recorded, callback, shown,
                                 newestShown>>
  <1>1. Same => Order'
    BY DEF Order, Sorted, InfosRecent, InfoKept, ShownInOrder
  <1>2. CASE FrameCompleted
    <2> DEFINE added == Append(infos, net.frame)
    <2>1. /\ infos \in Seq(Sent) /\ Len(infos) \in Nat /\ net.frame \in Sent
          /\ \A k \in 1..Len(infos) : infos[k] \in Sent
          /\ net.frame >= newest - 1 /\ newest \in Int /\ newestImage \in -1..newest
      BY <1>2, LenProperties, ElementOfSeq DEF FrameCompleted, Stages
    <2>2. /\ Len(added) = Len(infos) + 1 /\ added[Len(infos) + 1] = net.frame
          /\ \A k \in 1..Len(infos) : added[k] = infos[k]
      BY <2>1, AppendProperties
    <2>3. /\ infos' = added /\ recorded' = recorded \cup {net.frame}
          /\ UNCHANGED <<newestImage, callback, shown, newestShown>>
      BY <1>2 DEF FrameCompleted
    <2> HIDE DEF added
    <2>4. Sorted(added)
      <3> SUFFICES ASSUME NEW i \in 1..Len(added), NEW j \in 1..Len(added), i < j
                   PROVE  added[j] >= added[i] - 1
        BY DEF Sorted
      <3>1. i \in 1..Len(infos) /\ added[i] = infos[i] /\ infos[i] \in 0..newest
        BY <2>1, <2>2 DEF Sent
      <3>2. CASE j = Len(infos) + 1
        BY <2>1, <2>2, <3>1, <3>2 DEF Sent
      <3>3. CASE j # Len(infos) + 1
        <4>1. j \in 1..Len(infos) /\ added[j] = infos[j]
          BY <2>1, <2>2, <3>3
        <4>2. QED
          BY <3>1, <4>1 DEF Order, Sorted
      <3>4. QED
        BY <3>2, <3>3
    <2>5. InfosRecent'
      <3> SUFFICES ASSUME NEW i \in 1..Len(added) PROVE added[i] >= newestImage - 1
        BY <2>3 DEF InfosRecent
      <3>1. CASE i = Len(infos) + 1
        BY <2>1, <2>2, <3>1 DEF Sent
      <3>2. CASE i # Len(infos) + 1
        <4>1. i \in 1..Len(infos) /\ added[i] = infos[i]
          BY <2>1, <2>2, <3>2
        <4>2. QED
          BY <4>1 DEF Order, InfosRecent
      <3>3. QED
        BY <3>1, <3>2
    <2>6. InfoKept'
      <3> SUFFICES ASSUME NEW f \in recorded', f > newestImage
                   PROVE  \E i \in 1..Len(added) : added[i] = f
        BY <2>3 DEF InfoKept
      <3>1. CASE f = net.frame
        <4>1. Len(infos) + 1 \in 1..Len(added)
          BY <2>1, <2>2
        <4>2. QED
          BY <2>2, <3>1, <4>1
      <3>2. CASE f # net.frame
        <4>1. PICK i \in 1..Len(infos) : infos[i] = f
          BY <2>3, <3>2 DEF Order, InfoKept
        <4>2. i \in 1..Len(added) /\ added[i] = f
          BY <2>1, <2>2, <4>1
        <4>3. QED
          BY <4>2
      <3>3. QED
        BY <3>1, <3>2
    <2>7. QED
      BY <2>3, <2>4, <2>5, <2>6 DEF Order, ShownInOrder
  <1>3. CASE OnImageAvailable
    <2>1. PICK f \in Sent : HandleImage(f)
      BY <1>3, LastImage
    <2>2. /\ Sorted(infos') /\ infos' \in Seq(Sent)
          /\ \A x \in Elements(infos') : x >= f - 1
          /\ Elements(infos') \subseteq Elements(infos)
          /\ \A x \in Elements(infos) : x > f => x \in Elements(infos')
      BY <2>1, HandledInfos DEF InfosHandled, Order
    <2>3. /\ newestImage' = IF f > newestImage THEN f ELSE newestImage
          /\ f \in Int /\ newestImage \in Int /\ newestShown \in -1..newestImage
      BY <2>1 DEF HandleImage, Sent, Stages
    <2>4. UNCHANGED <<recorded, shown, newestShown>> /\ recorded \subseteq Sent
      BY <1>3 DEF OnImageAvailable, Stages
    <2>5. InfosRecent'
      <3>1. \A x \in Elements(infos) : x >= newestImage - 1
        BY DEF Order, InfosRecent, Elements
      <3>2. \A x \in Elements(infos') : x >= newestImage' - 1
        BY <2>2, <2>3, <3>1
      <3>3. QED
        BY <3>2 DEF InfosRecent, Elements
    <2>6. InfoKept'
      <3> SUFFICES ASSUME NEW g \in recorded, g > newestImage'
                   PROVE  g \in Elements(infos')
        BY <2>4 DEF InfoKept, Elements
      <3>1. g \in Int /\ g > newestImage /\ g > f
        BY <2>3, <2>4 DEF Sent
      <3>2. g \in Elements(infos)
        BY <3>1 DEF Order, InfoKept, Elements
      <3>3. QED
        BY <2>2, <3>1, <3>2
    <2>7. callback'.at = "found" => callback'.frame >= newestShown - 1
      <3>1. CASE callback' = callback
        BY <3>1 DEF Order
      <3>2. CASE callback' = [at |-> "found", frame |-> f]
        <4>1. PICK i \in 1..Len(infos) : infos[i] = f
          BY <2>1, <3>2, <1>3 DEF HandleImage, OnImageAvailable
        <4>2. f >= newestImage - 1
          BY <4>1 DEF Order, InfosRecent
        <4>3. QED
          BY <2>3, <3>2, <4>2
      <3>3. QED
        BY <2>1, <3>1, <3>2 DEF HandleImage
    <2>8. QED
      BY <2>2, <2>4, <2>5, <2>6, <2>7 DEF Order, ShownInOrder
  <1>4. CASE Show
    <2>1. /\ callback.frame \in Int /\ newestShown \in Int
          /\ callback.frame >= newestShown - 1
          /\ shown' = callback.frame
          /\ newestShown' = IF callback.frame > newestShown THEN callback.frame
                            ELSE newestShown
          /\ UNCHANGED <<infos, newestImage, recorded>>
      BY <1>4 DEF Show, outputIdle, Stages, Order, Frames
    <2>2. ShownInOrder' /\ callback'.at = "idle"
      BY SMTT(30), <1>4, <2>1 DEF Show, ShownInOrder, Stages, Records
    <2>3. Sorted(infos') /\ InfosRecent' /\ InfoKept'
      BY <2>1 DEF Order, Sorted, InfosRecent, InfoKept
    <2>4. QED
      BY <2>2, <2>3 DEF Order
  <1>5. CASE FlushInfos
    <2>1. /\ infos' = <<>> /\ Len(infos') = 0 /\ recorded' = {}
          /\ UNCHANGED <<newestImage, callback, shown, newestShown>>
      BY <1>5, EmptySeq DEF FlushInfos, flushIdle
    <2>2. QED
      BY <2>1 DEF Order, Sorted, InfosRecent, InfoKept, ShownInOrder
  <1>6. CASE (\E f \in Frames : PushData(f)) \/ Destroy \/ Input
    BY <1>1, <1>6 DEF PushData, Destroy, Exit, NotifyAll, StopCodec, Join, Input,
       InputTest, InputWait, InputSpuriousWake, InputTake, InputPoll, InputDequeue,
       InputFeed, inputIdle, history
  <1>7. CASE CodecDecode \/ OutputDequeue \/ OutputRelease \/ OutputExit
    BY <1>1, <1>7 DEF CodecDecode, OutputDequeue, OutputRelease, OutputExit,
       outputIdle
  <1>8. CASE FlushBegin \/ FlushCodec \/ FlushPending \/ FlushEnd
    BY <1>1, <1>8 DEF FlushBegin, FlushCodec, FlushPending, FlushEnd, flushIdle
  <1>9. QED
    BY <1>2, <1>3, <1>4, <1>5, <1>6, <1>7, <1>8
       DEF Next, Network, Output, Flush

-----------------------------------------------------------------------------
(* The codec's input buffers *)

LEMMA TakenStep == Stages /\ Taken /\ Next => Taken'
  <1> SUFFICES ASSUME Stages, Taken, Next PROVE Taken'
    OBVIOUS
  <1> USE CodecAssumption
  <1>0. Records /\ queued \in Seq(Sent)
    BY DEF Stages
  <1>1. ASSUME NEW f \in Frames, PushData(f) PROVE Taken'
    BY <1>1, <1>0 DEF Taken, OneBufferLost, Records, PushData, codec, history, Notify
  <1>2. CASE FrameCompleted
    BY <1>2, <1>0 DEF Taken, OneBufferLost, Records, FrameCompleted, codec, history
  <1>3. CASE Exit
    BY <1>3, <1>0 DEF Taken, OneBufferLost, Records, Exit, codec, history
  <1>4. CASE NotifyAll
    BY <1>4, <1>0 DEF Taken, OneBufferLost, Records, NotifyAll, codec, history, Notify
  <1>5. CASE StopCodec
    <2>1. Len(<<>>) = 0
      OBVIOUS
    <2>2. exiting
      BY <1>5, <1>0 DEF StopCodec, Taken
    <2>3. QED
      BY <1>5, <1>0, <2>1, <2>2 DEF StopCodec, Taken, OneBufferLost, Records, history
  <1>6. CASE Join
    BY <1>6, <1>0 DEF Taken, OneBufferLost, Records, Join, codec, history
  <1>7. CASE InputTest
    BY <1>7, <1>0 DEF Taken, OneBufferLost, Records, InputTest, codec, history, inputIdle
  <1>8. CASE InputWait
    BY <1>8, <1>0 DEF Taken, OneBufferLost, Records, InputWait, codec, history, inputIdle
  <1>9. CASE InputSpuriousWake
    BY <1>9, <1>0 DEF Taken, OneBufferLost, Records, InputSpuriousWake, codec, history,
         inputIdle
  <1>10. CASE InputTake
    BY <1>10, <1>0 DEF Taken, OneBufferLost, Records, InputTake, codec, history, inputIdle
  <1>11. CASE InputPoll
    BY <1>11, <1>0 DEF Taken, OneBufferLost, Records, InputPoll, codec, history, inputIdle
  <1>12. CASE InputDequeue
    <2>1. CASE taken + Len(queued) < Buffers
      <3>1. /\ taken' = taken + 1 /\ queued' = queued
            /\ input' = [input EXCEPT !.at = "holding", !.fresh = TRUE]
            /\ UNCHANGED <<exiting, flushing, net, render>> /\ input.at = "dequeuing"
        BY <1>12, <2>1 DEF InputDequeue, inputIdle
      <3>2. input'.at = "holding" /\ input'.fresh = TRUE
        BY <1>0, <3>1 DEF Records
      <3>3. ~input.fresh
        BY <3>1 DEF Taken
      <3>4. ~exiting /\ render = "idle" => taken <= 1
        BY <3>1 DEF Taken, OneBufferLost
      <3>5. OneBufferLost'
        BY <3>1, <3>2, <3>4 DEF OneBufferLost, Taken
      <3>6. QED
        BY <2>1, <3>1, <3>2, <3>5 DEF Taken
    <2>2. CASE ~(taken + Len(queued) < Buffers)
      BY <1>12, <1>0, <2>2 DEF InputDequeue, inputIdle, Taken, OneBufferLost, Records
    <2>3. QED
      BY <2>1, <2>2
  <1>13. CASE InputFeed
    <2>1. CASE exiting \/ flushing \/ ~input.fresh
      BY <1>13, <1>0, <2>1 DEF InputFeed, inputIdle, Taken, OneBufferLost, Records
    <2>2. CASE ~(exiting \/ flushing \/ ~input.fresh)
      <3>1. Len(Append(queued, input.frame)) = Len(queued) + 1
        BY <1>0, <1>13, AppendProperties DEF InputFeed, Stages
      <3>2. QED
        BY <1>13, <1>0, <2>2, <3>1 DEF InputFeed, inputIdle, Taken, OneBufferLost, Records
    <2>3. QED
      BY <2>1, <2>2
  <1>14. CASE CodecDecode
    <2>1. PICK i \in 1..Len(queued) : queued' = RemoveAt(queued, i)
      BY <1>14 DEF CodecDecode
    <2>2. Len(queued') = Len(queued) - 1 /\ Len(queued) \in 1..Len(queued)
      BY <1>0, <2>1, RemoveAtProperties, LenProperties
    <2>3. QED
      BY <1>14, <2>2 DEF CodecDecode, outputIdle, Taken, OneBufferLost
  <1>15. CASE OutputDequeue
    BY <1>15, <1>0 DEF Taken, OneBufferLost, Records, OutputDequeue, codec, history,
         outputIdle
  <1>16. CASE OutputRelease
    BY <1>16, <1>0 DEF Taken, OneBufferLost, Records, OutputRelease, codec, history,
         outputIdle
  <1>17. CASE OutputExit
    BY <1>17, <1>0 DEF Taken, OneBufferLost, Records, OutputExit, codec, history, outputIdle
  <1>18. CASE OnImageAvailable
    BY <1>18, <1>0 DEF Taken, OneBufferLost, Records, OnImageAvailable, codec, history,
         outputIdle
  <1>19. CASE Show
    BY <1>19, <1>0 DEF Taken, OneBufferLost, Records, Show, codec, history, outputIdle
  <1>20. CASE FlushBegin
    BY <1>20, <1>0 DEF Taken, OneBufferLost, Records, FlushBegin, codec, history, flushIdle
  <1>21. CASE FlushCodec
    <2>1. Len(<<>>) = 0
      OBVIOUS
    <2>2. QED
      BY <1>21, <1>0, <2>1 DEF FlushCodec, flushIdle, Taken, OneBufferLost, Records
  <1>22. CASE FlushPending
    BY <1>22, <1>0 DEF Taken, OneBufferLost, Records, FlushPending, codec, history,
         flushIdle
  <1>23. CASE FlushInfos
    BY <1>23, <1>0 DEF Taken, OneBufferLost, Records, FlushInfos, codec, history, flushIdle
  <1>24. CASE FlushEnd
    BY <1>24, <1>0 DEF Taken, OneBufferLost, Records, FlushEnd, codec, history, flushIdle
  <1>25. QED
    BY <1>1, <1>2, <1>3, <1>4, <1>5, <1>6, <1>7, <1>8, <1>9, <1>10, <1>11, <1>12, <1>13,
         <1>14, <1>15, <1>16, <1>17, <1>18, <1>19, <1>20, <1>21, <1>22, <1>23, <1>24 DEF
         Next, Network, Destroy, Input, Output, Flush

-----------------------------------------------------------------------------
\* The three parts hold together in every behaviour.
THEOREM Inductive == Spec => []IInv
<1>1. Init => IInv
  <2> SUFFICES ASSUME Init PROVE IInv
    OBVIOUS
  <2>1. Records
    BY FramesAssumption DEF Init, Records, Places, Frames
  <2>2. \A S : <<>> \in Seq(S)
    BY EmptySeq
  <2>3. Len(<<>>) = 0
    OBVIOUS
  <2>4. Stages
    BY <2>1, <2>2, <2>3, FramesAssumption DEF Init, Stages, Sent
  <2>5. Order
    BY <2>3 DEF Init, Order, Sorted, InfosRecent, InfoKept, ShownInOrder
  <2>6. Taken
    BY <2>3, CodecAssumption DEF Init, Taken, OneBufferLost
  <2>7. QED
    BY <2>4, <2>5, <2>6 DEF IInv
<1>2. IInv /\ [Next]_vars => IInv'
  <2>1. IInv /\ Next => IInv'
    BY StagesStep, OrderStep, TakenStep DEF IInv
  <2>2. IInv /\ UNCHANGED vars => IInv'
    BY DEF IInv, Stages, Records, Sent, Order, Sorted, InfosRecent, InfoKept,
       ShownInOrder, Taken, OneBufferLost, vars, codec, history
  <2>3. QED
    BY <2>1, <2>2
<1>3. QED
  BY <1>1, <1>2, PTL DEF Spec

\* pending_frame_infos keeps no info more than a frame older than an image
\* already handled.
THEOREM InfosStayRecent == Spec => []InfosRecent
<1>1. IInv => InfosRecent
  BY DEF IInv, Order
<1>2. QED
  BY <1>1, Inductive, PTL

\* The info of a frame newer than every image so far is never lost.
THEOREM InfosKept == Spec => []InfoKept
<1>1. IInv => InfoKept
  BY DEF IInv, Order
<1>2. QED
  BY <1>1, Inductive, PTL

\* Frames are shown in order, give or take one, even if the codec reorders.
THEOREM InOrder == Spec => []ShownInOrder
<1>1. IInv => ShownInOrder
  BY DEF IInv, Order
<1>2. QED
  BY <1>1, Inductive, PTL

\* However many flushes there are, the client never loses a second buffer.
THEOREM BuffersRecovered == Spec => []OneBufferLost
<1>1. IInv => OneBufferLost
  BY DEF IInv, Taken
<1>2. QED
  BY <1>1, Inductive, PTL

-----------------------------------------------------------------------------
(* Types *)

Flags == exiting \in BOOLEAN /\ flushing \in BOOLEAN

LEMMA FlagsInductive == Spec => []Flags
<1>1. Init => Flags
  BY ZenonT(30) DEF Init, Flags
<1>2. Flags /\ [Next]_vars => Flags'
  <2> SUFFICES ASSUME Flags, [Next]_vars PROVE Flags'
    OBVIOUS
  <2>1. CASE Exit
    BY <2>1, Zenon DEF Exit, Flags
  <2>2. CASE FlushBegin
    BY <2>2, Zenon DEF FlushBegin, flushIdle, Flags
  <2>3. CASE FlushEnd
    BY <2>3, Zenon DEF FlushEnd, flushIdle, Flags
  <2>4. CASE UNCHANGED <<exiting, flushing>>
    BY <2>4 DEF Flags
  <2>5. CASE UNCHANGED vars
    BY <2>4, <2>5 DEF vars
  <2>6. CASE Network \/ NotifyAll \/ StopCodec \/ Join \/ Input
    BY <2>4, <2>6 DEF Network, PushData, FrameCompleted, NotifyAll, StopCodec,
       Join, Input, InputTest, InputWait, InputSpuriousWake, InputTake, InputPoll,
       InputDequeue, InputFeed, inputIdle
  <2>7. CASE Output \/ FlushCodec \/ FlushPending \/ FlushInfos
    BY <2>4, <2>7 DEF Output, CodecDecode, OutputDequeue, OutputRelease, OutputExit,
       OnImageAvailable, Show, outputIdle, FlushCodec, FlushPending, FlushInfos,
       flushIdle
  <2>8. QED
    BY <2>1, <2>2, <2>3, <2>5, <2>6, <2>7 DEF Next, Destroy, Flush
<1>3. QED
  BY <1>1, <1>2, PTL DEF Spec

\* The state is well typed; the queue never has more than two frames, and the
\* client never more buffers than the codec.
THEOREM TypeCorrect == Spec => []TypeOK
<1>1. IInv /\ Flags => TypeOK
  <2> SUFFICES ASSUME IInv, Flags PROVE TypeOK
    OBVIOUS
  <2>1. Sent \subseteq Frames
    BY FramesAssumption DEF IInv, Stages, Sent, Frames
  <2>2. /\ pending \in Seq(Frames) /\ infos \in Seq(Frames)
        /\ queued \in Seq(Frames) /\ done \in Seq(Frames) /\ images \in Seq(Frames)
    BY <2>1, SeqMonotonic DEF IInv, Stages
  <2>3. taken \in 0..Buffers
    BY CodecAssumption DEF IInv, Taken
  <2>4. {shown, newest, newestImage, newestShown} \subseteq -1..MaxFrame
    BY FramesAssumption DEF IInv, Stages
  <2>5. Records /\ Len(pending) <= 2
    BY DEF IInv, Stages
  <2>6. exiting \in BOOLEAN /\ flushing \in BOOLEAN
    BY DEF Flags
  <2>7. QED
    BY <2>2, <2>3, <2>4, <2>5, <2>6 DEF TypeOK, Records
<1>2. QED
  BY <1>1, Inductive, FlagsInductive, PTL

-----------------------------------------------------------------------------
\* What the decoder shows is again a stream of OrderedFrames: every show is a
\* delivery, and nothing else touches the frames delivered.
THEOREM Implements == Spec => ShowsInOrder
<1>1. Init => Delivery!Init
  BY DEF Init, Delivery!Init
<1>2. IInv /\ [Next]_vars => [Delivery!Next]_(Delivery!vars)
  <2> SUFFICES ASSUME IInv, [Next]_vars PROVE [Delivery!Next]_(Delivery!vars)
    OBVIOUS
  <2>1. CASE Show
    <3>1. callback.frame \in Frames /\ callback.frame >= newestShown - 1
      BY <2>1 DEF Show, IInv, Stages, Records, Order
    <3>2. Delivery!Deliver(callback.frame)
      BY <2>1, <3>1 DEF Show, Delivery!Deliver
    <3>3. QED
      BY <3>1, <3>2 DEF Delivery!Next
  <2>2. CASE UNCHANGED <<shown, newestShown>>
    BY <2>2 DEF Delivery!vars
  <2>3. CASE Network \/ Destroy
    BY <2>2, <2>3 DEF Network, PushData, FrameCompleted, Destroy, Exit, NotifyAll,
       StopCodec, Join, codec, history
  <2>4. CASE Input
    BY <2>2, <2>4 DEF Input, InputTest, InputWait, InputSpuriousWake, InputTake,
       InputPoll, InputDequeue, InputFeed, inputIdle, history, codec
  <2>5. CASE CodecDecode \/ OutputDequeue \/ OutputRelease \/ OutputExit
               \/ OnImageAvailable
    BY <2>2, <2>5 DEF CodecDecode, OutputDequeue, OutputRelease, OutputExit,
       OnImageAvailable, outputIdle
  <2>6. CASE Flush
    BY <2>2, <2>6 DEF Flush, FlushBegin, FlushCodec, FlushPending, FlushInfos,
       FlushEnd, flushIdle
  <2>7. CASE UNCHANGED vars
    BY <2>2, <2>7 DEF vars, history
  <2>8. QED
    BY <2>1, <2>3, <2>4, <2>5, <2>6, <2>7 DEF Next, Output
<1>3. QED
  BY <1>1, <1>2, Inductive, PTL DEF Spec, ShowsInOrder, Delivery!Spec
-----------------------------------------------------------------------------
(* What a thread has yet to do *)

Steps == {StartSteps[i] : i \in 1 .. 6} \cup {StopSteps[i] : i \in 1 .. 7}
           \cup ({"draw", "acquire", "upload"} \X {0, 1})
           \cup ({"start", "stop", "test", "boot", "renew"} \X
                   {"ui", "boot", "wake", "lobby", "sleep", "stream", "delete", "render", "object"})

\* The rest of start() and of stop(), from a step on.
StartFrom(i) == SubSeq(StartSteps, i, 6)
StopFrom(i)  == SubSeq(StopSteps, i, 7)

\* What follows upon a stop(): nothing, or the launch goes on.
Anew  == <<<<"renew", "object">>, <<"boot", "render">>>>
Rests == {<<>>, Anew}

\* What is left of a frame of the lobby.
SecondEye == <<<<"draw", 1>>>>
FirstEye  == <<<<"upload", 0>>>> \o SecondEye

Starting == {StartFrom(i) : i \in 1 .. 6}
Stopping == {StopFrom(i) \o <<>> : i \in 1 .. 7} \cup {StopFrom(i) \o Anew : i \in 1 .. 7}
Drawing  == {<<<<"draw", 0>>, <<"draw", 1>>>>, DrawSteps(0) \o SecondEye, FirstEye,
             SecondEye, DrawSteps(1)}
Turning  == {<<>>, <<<<"test", "ui">>>>, <<<<"boot", "render">>>>, Anew,
             <<<<"stop", "delete">>, <<"renew", "object">>, <<"boot", "render">>>>}
              \cup {<<<<"start", x>>>> : x \in {"ui", "boot", "wake", "lobby"}}
              \cup {<<<<"stop", x>>>> : x \in {"ui", "sleep", "stream"}}
Shapes == Starting \cup Stopping \cup Drawing \cup Turning

LEMMA RestIs ==
  ASSUME NEW S, NEW s \in Seq(S), NEW n \in Nat, Len(s) = n, NEW i \in 1 .. n
  PROVE  /\ SubSeq(s, i, n) \in Seq(S) /\ Len(SubSeq(s, i, n)) = n - i + 1
         /\ SubSeq(s, i, n)[1] = s[i] /\ Tail(SubSeq(s, i, n)) = SubSeq(s, i + 1, n)
<1> DEFINE r == SubSeq(s, i, n)
<1>1. r \in Seq(S) /\ Len(r) = n - i + 1 /\ \A j \in 1 .. n - i + 1 : r[j] = s[i + j - 1]
  BY SubSeqProperties
<1>2. Len(r) > 0 /\ r # <<>>
  <2>1. n \in Nat /\ i \in 1 .. n
    OBVIOUS
  <2>2. n - i + 1 > 0
    BY <2>1
  <2>3. Len(r) > 0
    BY <1>1, <2>2
  <2> HIDE DEF r
  <2> QED BY <2>3, EmptySeq
<1>3. r[1] = s[i]
  <2>1. n \in Nat /\ i \in 1 .. n
    OBVIOUS
  <2>2. 1 \in 1 .. n - i + 1 /\ i + 1 - 1 = i
    BY <2>1
  <2> QED BY <1>1, <2>2
<1> DEFINE q == SubSeq(s, i + 1, n)
<1>4. q \in Seq(S) /\ Len(q) = n - i /\ \A j \in 1 .. n - i : q[j] = s[i + j]
  <2>1. i + 1 \in 1 .. n + 1 /\ n \in (i + 1) - 1 .. n
    OBVIOUS
  <2>2. \A j \in 1 .. n - i : (i + 1) + j - 1 = i + j
    OBVIOUS
  <2> QED BY <2>1, <2>2, SubSeqProperties
<1>5. Tail(r) = q
  <2>1. Tail(r) \in Seq(S) /\ Len(Tail(r)) = n - i /\ \A j \in 1 .. n - i : Tail(r)[j] = r[j + 1]
    BY <1>1, <1>2, HeadTailProperties
  <2>2. \A j \in 1 .. n - i : j + 1 \in 1 .. n - i + 1 /\ i + (j + 1) - 1 = i + j
    OBVIOUS
  <2>3. \A j \in 1 .. n - i : Tail(r)[j] = q[j]
    BY <1>1, <1>4, <2>1, <2>2
  <2> QED BY <1>4, <2>1, <2>3, SeqEqual
<1> QED BY <1>1, <1>3, <1>5

LEMMA Prefixed ==
  ASSUME NEW S, NEW s \in Seq(S), NEW r \in Seq(S), Len(s) > 0
  PROVE  /\ s \o r \in Seq(S) /\ Len(s \o r) = Len(s) + Len(r)
         /\ s \o r # <<>> /\ (s \o r)[1] = s[1] /\ Tail(s \o r) = Tail(s) \o r
<1>1. s \o r \in Seq(S) /\ Len(s \o r) = Len(s) + Len(r)
      /\ \A j \in 1 .. Len(s) + Len(r) : (s \o r)[j] = IF j <= Len(s) THEN s[j] ELSE r[j - Len(s)]
  BY ConcatProperties
<1>2. Len(s \o r) > 0 /\ s \o r # <<>> /\ s # <<>> /\ Len(s) \in Nat /\ Len(r) \in Nat
  BY <1>1, EmptySeq, LenProperties
<1>3. (s \o r)[1] = s[1]
  BY <1>1, <1>2
<1>4. Tail(s) \in Seq(S) /\ Len(Tail(s)) = Len(s) - 1
      /\ \A j \in 1 .. Len(s) - 1 : Tail(s)[j] = s[j + 1]
  BY <1>2, HeadTailProperties
<1>5. Tail(s \o r) \in Seq(S) /\ Len(Tail(s \o r)) = Len(s) + Len(r) - 1
      /\ \A j \in 1 .. Len(s) + Len(r) - 1 : Tail(s \o r)[j] = (s \o r)[j + 1]
  BY <1>1, <1>2, HeadTailProperties
<1>6. Tail(s) \o r \in Seq(S) /\ Len(Tail(s) \o r) = Len(s) - 1 + Len(r)
      /\ \A j \in 1 .. Len(s) - 1 + Len(r) :
           (Tail(s) \o r)[j] = IF j <= Len(s) - 1 THEN Tail(s)[j] ELSE r[j - (Len(s) - 1)]
  BY <1>4, ConcatProperties
<1>7. \A j \in 1 .. Len(s) - 1 + Len(r) : Tail(s \o r)[j] = (Tail(s) \o r)[j]
  <2> TAKE j \in 1 .. Len(s) - 1 + Len(r)
  <2>1. j + 1 \in 1 .. Len(s) + Len(r) /\ j \in 1 .. Len(s) + Len(r) - 1
    BY <1>2
  <2>2. Tail(s \o r)[j] = IF j + 1 <= Len(s) THEN s[j + 1] ELSE r[(j + 1) - Len(s)]
    BY <1>1, <1>5, <2>1
  <2>3. CASE j + 1 <= Len(s)
    BY <1>2, <1>4, <1>6, <2>2, <2>3
  <2>4. CASE ~(j + 1 <= Len(s))
    <3>1. (j + 1) - Len(s) = j - (Len(s) - 1) /\ ~(j <= Len(s) - 1)
      BY <1>2, <2>4
    <3> QED BY <1>6, <2>2, <2>4, <3>1
  <2> QED BY <2>3, <2>4
<1>8. Len(s) - 1 + Len(r) = Len(s) + Len(r) - 1
  BY <1>2
<1>9. Tail(s \o r) = Tail(s) \o r
  BY <1>5, <1>6, <1>7, <1>8, SeqEqual
<1> QED BY <1>1, <1>2, <1>3, <1>9

LEMMA StartStepsAre ==
  /\ StartSteps \in Seq(Steps) /\ Len(StartSteps) = 6
  /\ StartSteps[1] = <<"open", "cam_mgr">> /\ StartSteps[2] = <<"open", "cam_dev">>
  /\ StartSteps[3] = <<"open", "img_reader">> /\ StartSteps[4] = <<"open", "cam_session">>
  /\ StartSteps[5] = <<"open", "cam_request">> /\ StartSteps[6] = <<"on", TRUE>>
<1>1. Len(StartSteps) = 6 /\ StartSteps = [i \in 1 .. 6 |-> StartSteps[i]]
  BY DEF StartSteps
<1>2. \A i \in 1 .. 6 : StartSteps[i] \in Steps
  BY DEF Steps
<1>3. StartSteps \in Seq(Steps)
  BY <1>1, <1>2
<1> QED BY <1>1, <1>3 DEF StartSteps

LEMMA StopStepsAre ==
  /\ StopSteps \in Seq(Steps) /\ Len(StopSteps) = 7
  /\ StopSteps[1] = <<"close", "pending_image">> /\ StopSteps[2] = <<"close", "cam_session">>
  /\ StopSteps[3] = <<"close", "cam_request">> /\ StopSteps[4] = <<"close", "cam_dev">>
  /\ StopSteps[5] = <<"close", "img_reader">> /\ StopSteps[6] = <<"close", "cam_mgr">>
  /\ StopSteps[7] = <<"off", FALSE>>
<1>1. Len(StopSteps) = 7 /\ StopSteps = [i \in 1 .. 7 |-> StopSteps[i]]
  BY DEF StopSteps
<1>2. \A i \in 1 .. 7 : StopSteps[i] \in Steps
  BY DEF Steps
<1>3. StopSteps \in Seq(Steps)
  BY <1>1, <1>2
<1> QED BY <1>1, <1>3 DEF StopSteps

LEMMA NoSteps == Len(<<>>) = 0 /\ <<>> \in Seq(Steps)
BY EmptySeq

\* A step by itself, and two in a row.
LEMMA OneStep ==
  ASSUME NEW S, NEW x \in S
  PROVE  <<x>> \in Seq(S) /\ Len(<<x>>) = 1 /\ <<x>>[1] = x /\ Tail(<<x>>) = <<>>
<1>1. <<x>> \in Seq(S) /\ Len(<<x>>) = 1 /\ <<x>>[1] = x /\ <<x>> # <<>>
  OBVIOUS
<1>2. Tail(<<x>>) \in Seq(S) /\ Len(Tail(<<x>>)) = 0
  BY <1>1, HeadTailProperties
<1>3. Tail(<<x>>) = <<>>
  BY <1>2, EmptySeq
<1> QED BY <1>1, <1>3

LEMMA Pair ==
  ASSUME NEW S, NEW x \in S, NEW y \in S
  PROVE  /\ <<x, y>> \in Seq(S) /\ Len(<<x, y>>) = 2 /\ <<x, y>>[1] = x
         /\ Tail(<<x, y>>) = <<y>> /\ <<x, y>> = <<x>> \o <<y>>
<1>1. <<x, y>> \in Seq(S) /\ Len(<<x, y>>) = 2 /\ <<x, y>>[1] = x /\ <<x, y>>[2] = y
      /\ <<x, y>> # <<>>
  OBVIOUS
<1>2. <<x>> \in Seq(S) /\ Len(<<x>>) = 1 /\ <<y>> \in Seq(S) /\ Len(<<y>>) = 1
      /\ <<x>>[1] = x /\ <<y>>[1] = y
  OBVIOUS
<1>3. <<x>> \o <<y>> \in Seq(S) /\ Len(<<x>> \o <<y>>) = 2
      /\ \A j \in 1 .. 2 : (<<x>> \o <<y>>)[j] = IF j <= 1 THEN <<x>>[j] ELSE <<y>>[j - 1]
  BY <1>2, ConcatProperties
<1>4. \A j \in 1 .. 2 : <<x, y>>[j] = (<<x>> \o <<y>>)[j]
  BY <1>1, <1>2, <1>3
<1>5. <<x, y>> = <<x>> \o <<y>>
  BY <1>1, <1>3, <1>4, SeqEqual
<1>6. Tail(<<x, y>>) \in Seq(S) /\ Len(Tail(<<x, y>>)) = 1 /\ Tail(<<x, y>>)[1] = y
  BY <1>1, HeadTailProperties
<1>7. Tail(<<x, y>>) = <<y>>
  BY <1>2, <1>6, SeqEqual
<1> QED BY <1>1, <1>5, <1>7

LEMMA Triple ==
  ASSUME NEW S, NEW x \in S, NEW y \in S, NEW z \in S
  PROVE  /\ <<x, y, z>> \in Seq(S) /\ Len(<<x, y, z>>) = 3 /\ <<x, y, z>>[1] = x
         /\ Tail(<<x, y, z>>) = <<y, z>>
<1>1. <<x, y, z>> \in Seq(S) /\ Len(<<x, y, z>>) = 3 /\ <<x, y, z>>[1] = x
      /\ <<x, y, z>>[2] = y /\ <<x, y, z>>[3] = z /\ <<x, y, z>> # <<>>
  OBVIOUS
<1>2. <<y, z>> \in Seq(S) /\ Len(<<y, z>>) = 2 /\ <<y, z>>[1] = y /\ <<y, z>>[2] = z
  OBVIOUS
<1>3. Tail(<<x, y, z>>) \in Seq(S) /\ Len(Tail(<<x, y, z>>)) = 2
      /\ \A j \in 1 .. 2 : Tail(<<x, y, z>>)[j] = <<x, y, z>>[j + 1]
  BY <1>1, HeadTailProperties
<1>4. \A j \in 1 .. 2 : Tail(<<x, y, z>>)[j] = <<y, z>>[j]
  BY <1>1, <1>2, <1>3
<1> QED BY <1>1, <1>2, <1>3, <1>4, SeqEqual

\* All that the steps of a start come to, and of a stop.
LEMMA Started ==
  ASSUME NEW i \in 1 .. 6
  PROVE  /\ StartFrom(i) \in Seq(Steps) /\ Len(StartFrom(i)) = 7 - i
         /\ StartFrom(i)[1] = StartSteps[i]
         /\ i < 6 => Tail(StartFrom(i)) = StartFrom(i + 1)
         /\ i = 6 => Tail(StartFrom(i)) = <<>>
<1>1. StartFrom(i) \in Seq(Steps) /\ Len(StartFrom(i)) = 6 - i + 1
      /\ StartFrom(i)[1] = StartSteps[i] /\ Tail(StartFrom(i)) = SubSeq(StartSteps, i + 1, 6)
  <2>1. 6 \in Nat /\ i \in 1 .. 6 /\ Len(StartSteps) = 6 /\ StartSteps \in Seq(Steps)
    BY StartStepsAre
  <2>2. /\ SubSeq(StartSteps, i, 6) \in Seq(Steps) /\ Len(SubSeq(StartSteps, i, 6)) = 6 - i + 1
        /\ SubSeq(StartSteps, i, 6)[1] = StartSteps[i]
        /\ Tail(SubSeq(StartSteps, i, 6)) = SubSeq(StartSteps, i + 1, 6)
    BY <2>1, RestIs
  <2> QED BY <2>2 DEF StartFrom
<1>2. i = 6 => SubSeq(StartSteps, i + 1, 6) = <<>>
  BY SubSeqEmpty
<1>3. 6 - i + 1 = 7 - i
  OBVIOUS
<1> QED BY <1>1, <1>2, <1>3 DEF StartFrom

LEMMA Stopped ==
  ASSUME NEW i \in 1 .. 7
  PROVE  /\ StopFrom(i) \in Seq(Steps) /\ Len(StopFrom(i)) = 8 - i
         /\ StopFrom(i)[1] = StopSteps[i]
         /\ i < 7 => Tail(StopFrom(i)) = StopFrom(i + 1)
         /\ i = 7 => Tail(StopFrom(i)) = <<>>
<1>1. StopFrom(i) \in Seq(Steps) /\ Len(StopFrom(i)) = 7 - i + 1
      /\ StopFrom(i)[1] = StopSteps[i] /\ Tail(StopFrom(i)) = SubSeq(StopSteps, i + 1, 7)
  <2>1. 7 \in Nat /\ i \in 1 .. 7 /\ Len(StopSteps) = 7 /\ StopSteps \in Seq(Steps)
    BY StopStepsAre
  <2>2. /\ SubSeq(StopSteps, i, 7) \in Seq(Steps) /\ Len(SubSeq(StopSteps, i, 7)) = 7 - i + 1
        /\ SubSeq(StopSteps, i, 7)[1] = StopSteps[i]
        /\ Tail(SubSeq(StopSteps, i, 7)) = SubSeq(StopSteps, i + 1, 7)
    BY <2>1, RestIs
  <2> QED BY <2>2 DEF StopFrom
<1>2. i = 7 => SubSeq(StopSteps, i + 1, 7) = <<>>
  BY SubSeqEmpty
<1>3. 7 - i + 1 = 8 - i
  OBVIOUS
<1> QED BY <1>1, <1>2, <1>3 DEF StopFrom

\* What a thread does after its next step, by the verb of that step.
Goes(s, verb) == s # <<>> /\ s[1][1] = verb

Continues(s) ==
  /\ s \in Seq(Steps) /\ Len(s) <= 9
  /\ Goes(s, "open") => \E i \in 1 .. 5 : /\ s[1] = StartSteps[i] /\ Tail(s) \in Shapes
                                         /\ Tail(s) # <<>> /\ Tail(s)[1] = StartSteps[i + 1]
  /\ Goes(s, "on") => s[1] = <<"on", TRUE>> /\ Tail(s) = <<>>
  /\ Goes(s, "close") => \E i \in 1 .. 6 : /\ s[1] = StopSteps[i] /\ Tail(s) \in Shapes
                                          /\ Tail(s) # <<>> /\ Tail(s)[1] = StopSteps[i + 1]
  /\ Goes(s, "off") => s[1] = <<"off", FALSE>> /\ Tail(s) \in Rests
  /\ Goes(s, "renew") => Tail(s) = <<<<"boot", "render">>>>
  /\ Goes(s, "acquire") => s = DrawSteps(0) \o SecondEye /\ Tail(s) = FirstEye
  /\ Goes(s, "upload") => \/ s = FirstEye /\ s[1][2] = 0 /\ Tail(s) = SecondEye
                          \/ s = DrawSteps(1) /\ s[1][2] = 1 /\ Tail(s) = <<>>
  /\ Goes(s, "draw") => \/ s[1][2] = 0 /\ Tail(s) = SecondEye
                        \/ s = SecondEye /\ s[1][2] = 1 /\ Tail(s) = <<>>
  /\ Goes(s, "stop") => Tail(s) \in Rests
  /\ Goes(s, "start") \/ Goes(s, "test") \/ Goes(s, "boot") => Tail(s) = <<>>

LEMMA StartContinues == \A s \in Starting : Continues(s)
<1> TAKE s \in Starting
<1> PICK i \in 1 .. 6 : s = StartFrom(i)
  BY DEF Starting
<1>1. s \in Seq(Steps) /\ Len(s) = 7 - i /\ s[1] = StartSteps[i]
  BY Started
<1>2. Len(s) <= 9
  BY <1>1
<1>3. CASE i = 6
  <2>1. s[1] = <<"on", TRUE>> /\ Tail(s) = <<>>
    BY <1>1, <1>3, Started, StartStepsAre
  <2>2. s[1][1] = "on"
    BY <2>1
  <2> QED BY <1>1, <1>2, <2>1, <2>2 DEF Continues, Goes
<1>4. CASE i \in 1 .. 5
  <2>1. i + 1 \in 1 .. 6 /\ i < 6
    BY <1>4
  <2>2. Tail(s) = StartFrom(i + 1)
    BY <2>1, Started
  <2>3. Tail(s) \in Shapes
    BY <2>1, <2>2 DEF Shapes, Starting
  <2>4. StartFrom(i + 1) \in Seq(Steps) /\ Len(StartFrom(i + 1)) = 7 - (i + 1)
        /\ StartFrom(i + 1)[1] = StartSteps[i + 1]
    BY <2>1, Started
  <2>5. StartFrom(i + 1) # <<>>
    <3>1. 7 - (i + 1) # 0
      BY <2>1
    <3> QED BY <2>4, <3>1, EmptySeq
  <2>6. s[1][1] = "open"
    BY <1>1, <1>4, StartStepsAre
  <2>7. Tail(s) # <<>> /\ Tail(s)[1] = StartSteps[i + 1]
    BY <2>2, <2>4, <2>5
  <2> QED BY <1>1, <1>2, <1>4, <2>3, <2>6, <2>7 DEF Continues, Goes
<1> QED BY <1>3, <1>4

LEMMA RestsAre ==
  ASSUME NEW r \in Rests
  PROVE  r \in Seq(Steps) /\ Len(r) <= 2 /\ r \in Shapes
         /\ (r = <<>> \/ (r = Anew /\ r # <<>> /\ r[1] = <<"renew", "object">>
                            /\ Tail(r) = <<<<"boot", "render">>>>))
<1>1. r = <<>> \/ r = Anew
  BY DEF Rests
<1>2. r \in Shapes
  BY <1>1 DEF Shapes, Turning
<1>3. <<"renew", "object">> \in Steps /\ <<"boot", "render">> \in Steps
  BY DEF Steps
<1>4. /\ Anew \in Seq(Steps) /\ Len(Anew) = 2 /\ Anew[1] = <<"renew", "object">>
      /\ Tail(Anew) = <<<<"boot", "render">>>>
  BY <1>3, Pair DEF Anew
<1>5. Anew # <<>>
  BY <1>4, NoSteps
<1>6. <<>> \in Seq(Steps) /\ Len(<<>>) = 0
  BY NoSteps
<1>7. CASE r = <<>>
  BY <1>2, <1>6, <1>7
<1>8. CASE r = Anew
  BY <1>2, <1>4, <1>5, <1>8
<1> QED BY <1>1, <1>7, <1>8

LEMMA StopContinues == \A s \in Stopping : Continues(s)
<1> TAKE s \in Stopping
<1> PICK i \in 1 .. 7, r \in Rests : s = StopFrom(i) \o r
  BY DEF Stopping, Rests
<1>1. StopFrom(i) \in Seq(Steps) /\ Len(StopFrom(i)) = 8 - i /\ StopFrom(i)[1] = StopSteps[i]
  BY Stopped
<1>2. r \in Seq(Steps) /\ Len(r) \in Nat /\ Len(r) <= 2
  BY RestsAre, LenProperties
<1>3. Len(StopFrom(i)) > 0
  BY <1>1
<1>4. s \in Seq(Steps) /\ Len(s) = Len(StopFrom(i)) + Len(r) /\ s # <<>>
      /\ s[1] = StopSteps[i] /\ Tail(s) = Tail(StopFrom(i)) \o r
  BY <1>1, <1>2, <1>3, Prefixed
<1>5. Len(s) <= 9
  BY <1>1, <1>2, <1>4
<1>6. CASE i = 7
  <2>1. s[1] = <<"off", FALSE>>
    BY <1>4, <1>6, StopStepsAre
  <2>2. s[1][1] = "off" 
    BY <2>1
  <2>3. Tail(s) = r
    BY <1>2, <1>4, <1>6, Stopped, ConcatEmptySeq
  <2> QED BY <1>4, <1>5, <2>1, <2>2, <2>3 DEF Continues, Goes
<1>7. CASE i \in 1 .. 6
  <2>1. i + 1 \in 1 .. 7 /\ i < 7
    BY <1>7
  <2>2. Tail(s) = StopFrom(i + 1) \o r
    BY <1>4, <2>1, Stopped
  <2>3. Tail(s) \in Shapes
    BY <2>1, <2>2 DEF Shapes, Stopping, Rests
  <2>4. StopFrom(i + 1) \in Seq(Steps) /\ Len(StopFrom(i + 1)) = 8 - (i + 1)
        /\ StopFrom(i + 1)[1] = StopSteps[i + 1]
    BY <2>1, Stopped
  <2>5. Len(StopFrom(i + 1)) > 0
    <3> DEFINE n == Len(StopFrom(i + 1))
    <3>1. n = 8 - (i + 1)
      BY <2>4
    <3> HIDE DEF n
    <3>2. n > 0
      BY <2>1, <3>1
    <3> QED BY <3>2 DEF n
  <2>6. Tail(s) # <<>> /\ Tail(s)[1] = StopSteps[i + 1]
    <3>1. /\ StopFrom(i + 1) \o r # <<>>
          /\ (StopFrom(i + 1) \o r)[1] = StopFrom(i + 1)[1]
      BY <1>2, <2>4, <2>5, Prefixed
    <3> QED BY <2>2, <2>4, <3>1
  <2>7. s[1][1] = "close"
    BY <1>4, <1>7, StopStepsAre
  <2> QED BY <1>4, <1>5, <1>7, <2>3, <2>6, <2>7 DEF Continues, Goes
<1> QED BY <1>6, <1>7

LEMMA DrawsAre ==
  /\ <<"draw", 0>> \in Steps /\ <<"draw", 1>> \in Steps /\ <<"acquire", 0>> \in Steps
  /\ <<"upload", 0>> \in Steps /\ <<"upload", 1>> \in Steps
  /\ SecondEye \in Seq(Steps) /\ Len(SecondEye) = 1 /\ SecondEye # <<>>
  /\ SecondEye[1] = <<"draw", 1>> /\ Tail(SecondEye) = <<>>
  /\ FirstEye \in Seq(Steps) /\ Len(FirstEye) = 2 /\ FirstEye # <<>>
  /\ FirstEye[1] = <<"upload", 0>> /\ Tail(FirstEye) = SecondEye
  /\ DrawSteps(0) = <<<<"acquire", 0>>, <<"upload", 0>>>> /\ DrawSteps(1) = <<<<"upload", 1>>>>
  /\ DrawSteps(0) \o SecondEye \in Seq(Steps) /\ Len(DrawSteps(0) \o SecondEye) = 3
  /\ DrawSteps(0) \o SecondEye # <<>> /\ (DrawSteps(0) \o SecondEye)[1] = <<"acquire", 0>>
  /\ Tail(DrawSteps(0) \o SecondEye) = FirstEye
<1> DEFINE d0 == <<"draw", 0>>
           d1 == <<"draw", 1>>
           a0 == <<"acquire", 0>>
           u0 == <<"upload", 0>>
           u1 == <<"upload", 1>>
<1>1. d0 \in Steps /\ d1 \in Steps /\ a0 \in Steps /\ u0 \in Steps /\ u1 \in Steps
  BY DEF Steps
<1>2. SecondEye = <<d1>> /\ FirstEye = <<u0>> \o SecondEye
      /\ DrawSteps(0) = <<a0, u0>> /\ DrawSteps(1) = <<u1>>
  BY DEF SecondEye, FirstEye, DrawSteps
<1> SUFFICES
      /\ SecondEye \in Seq(Steps) /\ Len(SecondEye) = 1 /\ SecondEye # <<>>
      /\ SecondEye[1] = d1 /\ Tail(SecondEye) = <<>>
      /\ FirstEye \in Seq(Steps) /\ Len(FirstEye) = 2 /\ FirstEye # <<>>
      /\ FirstEye[1] = u0 /\ Tail(FirstEye) = SecondEye
      /\ DrawSteps(0) \o SecondEye \in Seq(Steps) /\ Len(DrawSteps(0) \o SecondEye) = 3
      /\ DrawSteps(0) \o SecondEye # <<>> /\ (DrawSteps(0) \o SecondEye)[1] = a0
      /\ Tail(DrawSteps(0) \o SecondEye) = FirstEye
  BY <1>1, <1>2
<1> HIDE DEF d0, d1, a0, u0, u1
<1>3. /\ SecondEye \in Seq(Steps) /\ Len(SecondEye) = 1
      /\ SecondEye[1] = d1 /\ Tail(SecondEye) = <<>>
  BY <1>1, <1>2, OneStep
<1>4. FirstEye = <<u0, d1>>
  BY <1>1, <1>2, Pair
<1>5. /\ FirstEye \in Seq(Steps) /\ Len(FirstEye) = 2
      /\ FirstEye[1] = u0 /\ Tail(FirstEye) = SecondEye
  <2>1. /\ <<u0, d1>> \in Seq(Steps) /\ Len(<<u0, d1>>) = 2
        /\ <<u0, d1>>[1] = u0 /\ Tail(<<u0, d1>>) = <<d1>>
    BY <1>1, Pair
  <2> QED BY <1>2, <1>4, <2>1, Zenon
<1>6. /\ DrawSteps(0) \in Seq(Steps) /\ Len(DrawSteps(0)) = 2
      /\ DrawSteps(0)[1] = a0 /\ Tail(DrawSteps(0)) = <<u0>>
  <2>1. /\ <<a0, u0>> \in Seq(Steps) /\ Len(<<a0, u0>>) = 2
        /\ <<a0, u0>>[1] = a0 /\ Tail(<<a0, u0>>) = <<u0>>
    BY <1>1, Pair
  <2> QED BY <1>2, <2>1, Zenon
<1>7. Len(DrawSteps(0)) > 0
  BY <1>6
<1>8. /\ DrawSteps(0) \o SecondEye \in Seq(Steps)
      /\ Len(DrawSteps(0) \o SecondEye) = Len(DrawSteps(0)) + Len(SecondEye)
      /\ DrawSteps(0) \o SecondEye # <<>> /\ (DrawSteps(0) \o SecondEye)[1] = a0
      /\ Tail(DrawSteps(0) \o SecondEye) = <<u0>> \o SecondEye
  <2>1. ASSUME NEW s \in Seq(Steps), Len(s) > 0, NEW r \in Seq(Steps)
        PROVE  /\ s \o r \in Seq(Steps) /\ Len(s \o r) = Len(s) + Len(r)
               /\ s \o r # <<>> /\ (s \o r)[1] = s[1] /\ Tail(s \o r) = Tail(s) \o r
    BY <2>1, Prefixed
  <2>2. SecondEye \in Seq(Steps) /\ DrawSteps(0) \in Seq(Steps)
        /\ DrawSteps(0)[1] = a0 /\ Tail(DrawSteps(0)) = <<u0>>
    BY <1>3, <1>6
  <2>3. /\ DrawSteps(0) \o SecondEye \in Seq(Steps)
        /\ Len(DrawSteps(0) \o SecondEye) = Len(DrawSteps(0)) + Len(SecondEye)
        /\ DrawSteps(0) \o SecondEye # <<>>
        /\ (DrawSteps(0) \o SecondEye)[1] = DrawSteps(0)[1]
        /\ Tail(DrawSteps(0) \o SecondEye) = Tail(DrawSteps(0)) \o SecondEye
    BY <1>7, <2>1, <2>2, Zenon
  <2>4. Tail(DrawSteps(0)) \o SecondEye = <<u0>> \o SecondEye
    BY <2>2, Zenon
  <2> QED BY <2>2, <2>3, <2>4, Zenon
<1>9. Len(DrawSteps(0) \o SecondEye) = 3
  BY <1>3, <1>6, <1>8
<1>10. SecondEye # <<>> /\ FirstEye # <<>>
  BY <1>3, <1>5, NoSteps
<1> QED BY <1>2, <1>3, <1>5, <1>8, <1>9, <1>10

LEMMA DrawContinues == \A s \in Drawing : Continues(s)
<1> TAKE s \in Drawing
<1> DEFINE d0 == <<"draw", 0>>
           d1 == <<"draw", 1>>
           u1 == <<"upload", 1>>
<1>1. \/ s = <<d0, d1>> \/ s = DrawSteps(0) \o SecondEye \/ s = FirstEye
      \/ s = SecondEye \/ s = <<u1>>
  BY DEF Drawing, DrawSteps
<1>2. d0 \in Steps /\ d1 \in Steps /\ u1 \in Steps
  BY DrawsAre
<1>3. d0[1] = "draw" /\ d0[2] = 0 /\ d1[1] = "draw" /\ d1[2] = 1 /\ u1[1] = "upload" /\ u1[2] = 1
  OBVIOUS
<1>4. SecondEye = <<d1>>
  BY DEF SecondEye
<1>5. DrawSteps(1) = <<u1>>
  BY DEF DrawSteps
<1> HIDE DEF d0, d1, u1
<1>6. CASE s = <<d0, d1>>
  <2>1. s \in Seq(Steps) /\ Len(s) = 2 /\ s[1] = d0 /\ Tail(s) = <<d1>>
    BY <1>2, <1>6, Pair
  <2>2. Len(s) <= 9 /\ s # <<>>
    BY <2>1, NoSteps
  <2> QED BY <1>3, <1>4, <2>1, <2>2 DEF Continues, Goes
<1>7. CASE s = DrawSteps(0) \o SecondEye
  <2>1. s \in Seq(Steps) /\ Len(s) = 3 /\ s # <<>> /\ s[1] = <<"acquire", 0>> /\ Tail(s) = FirstEye
    BY <1>7, DrawsAre
  <2>2. Len(s) <= 9
    BY <2>1
  <2>3. s[1][1] = "acquire"
    BY <2>1
  <2> QED BY <1>7, <2>1, <2>2, <2>3 DEF Continues, Goes
<1>8. CASE s = FirstEye
  <2>1. s \in Seq(Steps) /\ Len(s) = 2 /\ s # <<>> /\ s[1] = <<"upload", 0>> /\ Tail(s) = SecondEye
    BY <1>8, DrawsAre
  <2>2. Len(s) <= 9
    BY <2>1
  <2>3. s[1][1] = "upload" /\ s[1][2] = 0
    BY <2>1
  <2> QED BY <1>8, <2>1, <2>2, <2>3 DEF Continues, Goes
<1>9. CASE s = SecondEye
  <2>1. s \in Seq(Steps) /\ Len(s) = 1 /\ s # <<>> /\ s[1] = <<"draw", 1>> /\ Tail(s) = <<>>
    BY <1>9, DrawsAre
  <2>2. Len(s) <= 9
    BY <2>1
  <2>3. s[1][1] = "draw" /\ s[1][2] = 1
    BY <2>1
  <2> QED BY <1>9, <2>1, <2>2, <2>3 DEF Continues, Goes
<1>10. CASE s = <<u1>>
  <2>1. s \in Seq(Steps) /\ Len(s) = 1 /\ s[1] = u1 /\ Tail(s) = <<>>
    BY <1>2, <1>10, OneStep
  <2>2. Len(s) <= 9 /\ s # <<>>
    BY <2>1, NoSteps
  <2> QED BY <1>3, <1>5, <1>10, <2>1, <2>2 DEF Continues, Goes
<1> QED BY <1>1, <1>6, <1>7, <1>8, <1>9, <1>10

LEMMA TurnContinues == \A s \in Turning : Continues(s)
<1> TAKE s \in Turning
<1>1. CASE s = <<>>
  BY <1>1, NoSteps DEF Continues, Goes
<1>2. CASE s = Anew
  <2>1. s \in Seq(Steps) /\ Len(s) <= 2 /\ s[1] = <<"renew", "object">>
        /\ Tail(s) = <<<<"boot", "render">>>>
    <3>1. Anew \in Rests
      BY DEF Rests
    <3>2. Anew # <<>>
      BY DEF Anew
    <3> QED BY <1>2, <3>1, <3>2, RestsAre
  <2>2. s[1][1] = "renew"
    BY <2>1
  <2>3. Len(s) <= 9
    BY <2>1, LenProperties
  <2> QED BY <2>1, <2>2, <2>3 DEF Continues, Goes
<1>3. CASE s = <<<<"stop", "delete">>, <<"renew", "object">>, <<"boot", "render">>>>
  <2> DEFINE x == <<"stop", "delete">>
             y == <<"renew", "object">>
             z == <<"boot", "render">>
  <2>1. x \in Steps /\ y \in Steps /\ z \in Steps /\ x[1] = "stop"
    BY DEF Steps
  <2>2. s = <<x, y, z>> /\ <<y, z>> = Anew
    BY <1>3 DEF Anew
  <2> HIDE DEF x, y, z
  <2>3. /\ <<x, y, z>> \in Seq(Steps) /\ Len(<<x, y, z>>) = 3 /\ <<x, y, z>>[1] = x
        /\ Tail(<<x, y, z>>) = <<y, z>>
    BY <2>1, Triple
  <2>4. s \in Seq(Steps) /\ Len(s) = 3 /\ s[1] = x /\ Tail(s) = Anew
    BY <2>2, <2>3, Zenon
  <2>5. Len(s) <= 9 /\ s[1][1] = "stop" /\ Tail(s) \in Rests
    BY <2>1, <2>4 DEF Rests
  <2> QED BY <2>4, <2>5 DEF Continues, Goes
<1>4. CASE \E x \in Steps : s = <<x>> /\ x[1] \in {"start", "stop", "test", "boot"}
  <2> PICK x \in Steps : s = <<x>> /\ x[1] \in {"start", "stop", "test", "boot"}
    BY <1>4
  <2>1. s \in Seq(Steps) /\ Len(s) = 1 /\ s[1] = x /\ Tail(s) = <<>>
    BY OneStep
  <2>2. Len(s) <= 9 /\ Tail(s) \in Rests /\ s[1][1] \in {"start", "stop", "test", "boot"}
    BY <2>1 DEF Rests
  <2> QED BY <2>1, <2>2 DEF Continues, Goes
<1>5. \/ s = <<>> \/ s = Anew
      \/ s = <<<<"stop", "delete">>, <<"renew", "object">>, <<"boot", "render">>>>
      \/ \E x \in Steps : s = <<x>> /\ x[1] \in {"start", "stop", "test", "boot"}
  <2>1. CASE s \in {<<<<"start", x>>>> : x \in {"ui", "boot", "wake", "lobby"}}
    <3> PICK x \in {"ui", "boot", "wake", "lobby"} : s = <<<<"start", x>>>>
      BY <2>1
    <3>1. <<"start", x>> \in Steps
      BY DEF Steps
    <3> QED BY <3>1
  <2>2. CASE s \in {<<<<"stop", x>>>> : x \in {"ui", "sleep", "stream"}}
    <3> PICK x \in {"ui", "sleep", "stream"} : s = <<<<"stop", x>>>>
      BY <2>2
    <3>1. <<"stop", x>> \in Steps
      BY DEF Steps
    <3> QED BY <3>1
  <2>3. CASE s = <<<<"test", "ui">>>>
    <3>1. <<"test", "ui">> \in Steps
      BY DEF Steps
    <3> QED BY <2>3, <3>1
  <2>4. CASE s = <<<<"boot", "render">>>>
    <3>1. <<"boot", "render">> \in Steps
      BY DEF Steps
    <3> QED BY <2>4, <3>1
  <2> QED BY <2>1, <2>2, <2>3, <2>4 DEF Turning
<1> QED BY <1>1, <1>2, <1>3, <1>4, <1>5

\* Every sequence of steps that comes about goes on as its first step says.
LEMMA EveryContinues == \A s \in Shapes : Continues(s)
BY StartContinues, StopContinues, DrawContinues, TurnContinues DEF Shapes

-----------------------------------------------------------------------------
(* The camera's objects *)

\* What a start has opened before step m, and what a stop has closed.
Opened(m) == {p \in Parts : \E i, j \in 1 .. 6 :
                j < i /\ StartSteps[i] = m /\ StartSteps[j] = <<"open", p>>}
Closed(m) == {k \in Fields : \E i, j \in 1 .. 7 :
                j < i /\ StopSteps[i] = m /\ StopSteps[j] = <<"close", k>>}

\* Objects of a kind that no field in use points to: what failed starts left.
InUse(m, on, k) == on \/ k \in Opened(m)
LeftBehind(m, on, f, a, k) == {o \in a : o[1] = k /\ (InUse(m, on, k) => o[2] # f[k])}

\* Fields and objects while a thread is about to do m in the camera: f and a are
\* field and alive, n the failed starts.
Counted(m, on, f, a, n) ==
  /\ f \in [Fields -> Nat] /\ n \in Nat
  /\ IsFiniteSet(a) /\ a \subseteq Fields \X (Nat \ {Null})
  /\ \A k \in Fields : f[k] = Null \/ <<k, f[k]>> \in a
  /\ \A o \in a : o[1] = "pending_image" => o[2] = f["pending_image"]
  /\ ~on => f["pending_image"] = Null
  /\ \A k \in Parts : Cardinality(LeftBehind(m, on, f, a, k)) <= n

Sound(m, on, f, a) ==
  /\ m[1] \in {"open", "on"} => ~on /\ \A p \in Opened(m) : <<p, f[p]>> \in a
  /\ m[1] \in {"close", "off"} => on /\ \A k \in Closed(m) : f[k] = Null
  /\ on => \A p \in Parts \ Closed(m) : <<p, f[p]>> \in a
  /\ m[1] \in {"acquire", "upload"} => on
  /\ m[1] = "renew" => ~on

Objects(m, on, f, a, n) == Counted(m, on, f, a, n) /\ Sound(m, on, f, a)

LEMMA StartIndex ==
  \A i, j \in 1 .. 6 : StartSteps[i] = StartSteps[j] => i = j
<1> SUFFICES ASSUME NEW i \in 1 .. 6, NEW j \in 1 .. 6, StartSteps[i] = StartSteps[j]
             PROVE  i = j
  OBVIOUS
<1>1. StartSteps[i][1] = StartSteps[j][1] /\ StartSteps[i][2] = StartSteps[j][2]
  OBVIOUS
<1>2. CASE i = 6 \/ j = 6
  BY <1>1, <1>2, StartStepsAre
<1>3. CASE i \in 1 .. 5 /\ j \in 1 .. 5
  BY <1>1, <1>3, StartStepsAre
<1> QED BY <1>2, <1>3

LEMMA StopIndex ==
  \A i, j \in 1 .. 7 : StopSteps[i] = StopSteps[j] => i = j
<1> SUFFICES ASSUME NEW i \in 1 .. 7, NEW j \in 1 .. 7, StopSteps[i] = StopSteps[j]
             PROVE  i = j
  OBVIOUS
<1>1. StopSteps[i][1] = StopSteps[j][1] /\ StopSteps[i][2] = StopSteps[j][2]
  OBVIOUS
<1>2. CASE i = 7 \/ j = 7
  BY <1>1, <1>2, StopStepsAre
<1>3. CASE i \in 1 .. 6 /\ j \in 1 .. 6
  BY <1>1, <1>3, StopStepsAre
<1> QED BY <1>2, <1>3

LEMMA OpenedGrows ==
  ASSUME NEW i \in 1 .. 5
  PROVE  LET k == StartSteps[i][2] IN
         /\ StartSteps[i] = <<"open", k>> /\ k \in Parts
         /\ k \notin Opened(StartSteps[i])
         /\ Opened(StartSteps[i + 1]) = Opened(StartSteps[i]) \cup {k}
<1> DEFINE k == StartSteps[i][2]
<1>1. StartSteps[i] = <<"open", k>> /\ k \in Parts /\ i + 1 \in 1 .. 6 /\ i \in 1 .. 6
  BY StartStepsAre DEF Parts
<1>2. \A p \in Parts : p \in Opened(StartSteps[i]) <=>
                         \E j \in 1 .. 6 : j < i /\ StartSteps[j] = <<"open", p>>
  BY <1>1, StartIndex DEF Opened
<1>3. \A p \in Parts : p \in Opened(StartSteps[i + 1]) <=>
                         \E j \in 1 .. 6 : j < i + 1 /\ StartSteps[j] = <<"open", p>>
  BY <1>1, StartIndex DEF Opened
<1>4. k \notin Opened(StartSteps[i])
  <2>1. ASSUME k \in Opened(StartSteps[i]) PROVE FALSE
    <3> PICK j \in 1 .. 6 : j < i /\ StartSteps[j] = <<"open", k>>
      BY <1>1, <1>2, <2>1
    <3>1. StartSteps[j] = StartSteps[i]
      BY <1>1
    <3> QED BY <1>1, <3>1, StartIndex
  <2> QED BY <2>1
<1>5. \A p \in Parts : p \in Opened(StartSteps[i + 1]) <=> p \in Opened(StartSteps[i]) \/ p = k
  <2> TAKE p \in Parts
  <2>1. \A j \in 1 .. 6 : j < i + 1 <=> j < i \/ j = i
    BY <1>1
  <2>2. <<"open", p>> = <<"open", k>> <=> p = k
    OBVIOUS
  <2> QED BY <1>1, <1>2, <1>3, <2>1, <2>2
<1>6. Opened(StartSteps[i + 1]) \subseteq Parts /\ Opened(StartSteps[i]) \subseteq Parts
  BY DEF Opened
<1> QED BY <1>1, <1>4, <1>5, <1>6

LEMMA ClosedGrows ==
  ASSUME NEW i \in 1 .. 6
  PROVE  LET k == StopSteps[i][2] IN
         /\ StopSteps[i] = <<"close", k>> /\ k \in Fields
         /\ Closed(StopSteps[i + 1]) = Closed(StopSteps[i]) \cup {k}
<1> DEFINE k == StopSteps[i][2]
<1>1. StopSteps[i] = <<"close", k>> /\ k \in Fields /\ i + 1 \in 1 .. 7 /\ i \in 1 .. 7
  BY StopStepsAre DEF Parts, Fields
<1>2. \A p \in Fields : p \in Closed(StopSteps[i]) <=>
                         \E j \in 1 .. 7 : j < i /\ StopSteps[j] = <<"close", p>>
  BY <1>1, StopIndex DEF Closed
<1>3. \A p \in Fields : p \in Closed(StopSteps[i + 1]) <=>
                         \E j \in 1 .. 7 : j < i + 1 /\ StopSteps[j] = <<"close", p>>
  BY <1>1, StopIndex DEF Closed
<1>5. \A p \in Fields : p \in Closed(StopSteps[i + 1]) <=> p \in Closed(StopSteps[i]) \/ p = k
  <2> TAKE p \in Fields
  <2>1. \A j \in 1 .. 7 : j < i + 1 <=> j < i \/ j = i
    BY <1>1
  <2>2. <<"close", p>> = <<"close", k>> <=> p = k
    OBVIOUS
  <2> QED BY <1>1, <1>2, <1>3, <2>1, <2>2
<1>6. Closed(StopSteps[i + 1]) \subseteq Fields /\ Closed(StopSteps[i]) \subseteq Fields
  BY DEF Closed
<1> QED BY <1>1, <1>5, <1>6

\* Outside a start nothing counts as opened, outside a stop nothing as closed.
LEMMA Bounds ==
  /\ Opened(StartSteps[1]) = {} /\ Opened(<<"on", TRUE>>) = Parts
  /\ Closed(StopSteps[1]) = {} /\ Closed(<<"off", FALSE>>) = Fields
  /\ \A m : m[1] \notin {"open", "on"} => Opened(m) = {}
  /\ \A m : m[1] \notin {"close", "off"} => Closed(m) = {}
<1>1. Opened(StartSteps[1]) = {}
  BY StartIndex DEF Opened
<1>2. Opened(<<"on", TRUE>>) = Parts
  <2>1. \A p \in Parts : \E j \in 1 .. 6 : j < 6 /\ StartSteps[j] = <<"open", p>>
    BY StartStepsAre DEF Parts
  <2>2. 6 \in 1 .. 6 /\ StartSteps[6] = <<"on", TRUE>>
    BY StartStepsAre
  <2> QED BY <2>1, <2>2 DEF Opened
<1>3. Closed(StopSteps[1]) = {}
  BY StopIndex DEF Closed
<1>4. Closed(<<"off", FALSE>>) = Fields
  <2>1. \A k \in Fields : \E j \in 1 .. 7 : j < 7 /\ StopSteps[j] = <<"close", k>>
    BY StopStepsAre DEF Parts, Fields
  <2>2. 7 \in 1 .. 7 /\ StopSteps[7] = <<"off", FALSE>>
    BY StopStepsAre
  <2> QED BY <2>1, <2>2 DEF Closed
<1>5. ASSUME NEW m, m[1] \notin {"open", "on"} PROVE Opened(m) = {}
  <2>1. \A i \in 1 .. 6 : StartSteps[i][1] \in {"open", "on"}
    BY StartStepsAre
  <2> QED BY <1>5, <2>1 DEF Opened
<1>6. ASSUME NEW m, m[1] \notin {"close", "off"} PROVE Closed(m) = {}
  <2>1. \A i \in 1 .. 7 : StopSteps[i][1] \in {"close", "off"}
    BY StopStepsAre
  <2> QED BY <1>6, <2>1 DEF Closed
<1> QED BY <1>1, <1>2, <1>3, <1>4, <1>5, <1>6

\* A step outside of starts and stops: nothing changes hands.
LEMMA Elsewhere ==
  ASSUME NEW m, NEW l, NEW on, NEW f, NEW a, NEW n, Objects(m, on, f, a, n),
         Opened(l) = Opened(m), Closed(l) = Closed(m), Sound(l, on, f, a)
  PROVE  Objects(l, on, f, a, n)
<1>1. \A k : LeftBehind(l, on, f, a, k) = LeftBehind(m, on, f, a, k)
  BY DEF LeftBehind, InUse
<1> QED BY <1>1 DEF Objects, Counted

\* An object is got and its field set.
Filled(f, k, x) == [f EXCEPT ![k] = x]
With(a, k, x)   == a \cup {<<k, x>>}

LEMMA OpenKeeps ==
  ASSUME NEW i \in 1 .. 5, NEW on \in BOOLEAN, NEW f, NEW a, NEW n, NEW k,
         k = StartSteps[i][2], Objects(StartSteps[i], on, f, a, n),
         NEW new \in Nat \ {Null}, <<k, new>> \notin a,
         NEW g, g = Filled(f, k, new), NEW b, b = With(a, k, new)
  PROVE  /\ Objects(StartSteps[i + 1], on, g, b, n)
         /\ \A s \in Source(k) : <<s, f[s]>> \in a
<1> DEFINE m == StartSteps[i]
           l == StartSteps[i + 1]
<1> g = [f EXCEPT ![k] = new] /\ b = a \cup {<<k, new>>}
  BY DEF Filled, With
<1>1. m = <<"open", k>> /\ k \in Parts /\ k \notin Opened(m) /\ Opened(l) = Opened(m) \cup {k}
  BY OpenedGrows
<1>2. m[1] = "open" /\ l[1] \in {"open", "on"} /\ i + 1 \in 1 .. 6
  BY StartStepsAre
<1>3. Closed(m) = {} /\ Closed(l) = {}
  BY <1>2, Bounds
<1>4. ~on /\ \A p \in Opened(m) : <<p, f[p]>> \in a
  BY <1>2 DEF Objects, Sound
<1>5. \A s \in Source(k) : <<s, f[s]>> \in a
  <2>1. Source(k) \subseteq Opened(m)
    <3>1. StartSteps[1] = <<"open", "cam_mgr">> /\ StartSteps[2] = <<"open", "cam_dev">>
          /\ StartSteps[3] = <<"open", "img_reader">> /\ StartSteps[4] = <<"open", "cam_session">>
          /\ StartSteps[5] = <<"open", "cam_request">>
      BY StartStepsAre
    <3>2. \A j \in 1 .. 6 : j < i => StartSteps[j][2] \in Opened(m)
      <4> TAKE j \in 1 .. 6
      <4> HAVE j < i
      <4>1. StartSteps[j] = <<"open", StartSteps[j][2]>> /\ StartSteps[j][2] \in Parts
        BY OpenedGrows
      <4> QED BY <4>1 DEF Opened
    <3>3. k = "cam_dev" => i = 2
      <4>1. 2 \in 1 .. 6 /\ (k = "cam_dev" => StartSteps[i] = StartSteps[2])
        BY <1>1, <3>1
      <4> QED BY <4>1, StartIndex
    <3>4. k = "cam_session" => i = 4
      <4>1. 4 \in 1 .. 6 /\ (k = "cam_session" => StartSteps[i] = StartSteps[4])
        BY <1>1, <3>1
      <4> QED BY <4>1, StartIndex
    <3>5. k = "cam_request" => i = 5
      <4>1. 5 \in 1 .. 6 /\ (k = "cam_request" => StartSteps[i] = StartSteps[5])
        BY <1>1, <3>1
      <4> QED BY <4>1, StartIndex
    <3>6. i = 2 => "cam_mgr" \in Opened(m)
      BY <3>1, <3>2
    <3>7. i \in {4, 5} => "cam_dev" \in Opened(m) /\ "img_reader" \in Opened(m)
      BY <3>1, <3>2
    <3> QED BY <3>3, <3>4, <3>5, <3>6, <3>7 DEF Source
  <2> QED BY <1>4, <2>1
<1>6. Counted(m, on, f, a, n)
  BY DEF Objects
<1> HIDE DEF m, l
<1>7. Counted(l, on, g, b, n)
  <2>1. k \in Fields /\ k # "pending_image" /\ "pending_image" \in Fields
    BY <1>1 DEF Parts, Fields
  <2>2. g \in [Fields -> Nat] /\ g[k] = new /\ \A p \in Fields : p # k => g[p] = f[p]
    BY <1>6, <2>1 DEF Counted
  <2>3. IsFiniteSet(b)
    BY <1>6, FS_AddElement DEF Counted
  <2>4. b \subseteq Fields \X (Nat \ {Null})
    BY <1>6, <2>1 DEF Counted
  <2>5. \A p \in Fields : g[p] = Null \/ <<p, g[p]>> \in b
    BY <1>6, <2>1, <2>2 DEF Counted
  <2>6. \A o \in b : o[1] = "pending_image" => o[2] = g["pending_image"]
    BY <1>6, <2>1, <2>2 DEF Counted
  <2>7. ~on => g["pending_image"] = Null
    BY <1>6, <2>1, <2>2 DEF Counted
  <2>8. \A p \in Parts : LeftBehind(l, on, g, b, p) = LeftBehind(m, on, f, a, p)
    <3> TAKE p \in Parts
    <3>1. p \in Fields
      BY DEF Fields
    <3>2. CASE p = k
      <4>1. \A o \in a : o[1] = k => o[2] # new
        <5>1. \A o \in a : o = <<o[1], o[2]>>
          BY <1>6 DEF Counted
        <5> QED BY <5>1
      <4>2. LeftBehind(m, on, f, a, k) = {o \in a : o[1] = k}
        BY <1>1, <1>4 DEF LeftBehind, InUse
      <4>3. LeftBehind(l, on, g, b, k) = {o \in b : o[1] = k /\ o[2] # new}
        BY <1>1, <2>2 DEF LeftBehind, InUse
      <4>4. <<k, new>>[1] = k /\ <<k, new>>[2] = new
        OBVIOUS
      <4> QED BY <3>2, <4>1, <4>2, <4>3, <4>4
    <3>3. CASE p # k
      <4>1. g[p] = f[p] /\ (p \in Opened(l) <=> p \in Opened(m)) /\ <<k, new>>[1] # p
        BY <1>1, <2>2, <3>1, <3>3
      <4> QED BY <4>1 DEF LeftBehind, InUse
    <3> QED BY <3>2, <3>3
  <2>9. \A p \in Parts : Cardinality(LeftBehind(l, on, g, b, p)) <= n
    BY <1>6, <2>8 DEF Counted
  <2> QED BY <1>6, <2>2, <2>3, <2>4, <2>5, <2>6, <2>7, <2>9 DEF Counted
<1>8. Sound(l, on, g, b)
  <2>1. \A p \in Opened(l) : <<p, g[p]>> \in b
    <3> TAKE p \in Opened(l)
    <3>1. p \in Fields /\ k \in Fields
      BY <1>1 DEF Opened, Fields
    <3>2. f \in [Fields -> Nat]
      BY <1>6 DEF Counted
    <3>3. CASE p = k
      BY <3>1, <3>2, <3>3
    <3>4. CASE p # k
      BY <1>1, <1>4, <3>1, <3>2, <3>4
    <3> QED BY <3>3, <3>4
  <2> QED BY <1>2, <1>4, <2>1 DEF Sound
<1> QED BY <1>5, <1>7, <1>8 DEF Objects, m, l

\* What was opened before a start failed is left behind: one more of each.
LEMMA FailKeeps ==
  ASSUME NEW i \in 1 .. 5, NEW on \in BOOLEAN, NEW f, NEW a, NEW n, NEW k,
         k = StartSteps[i][2], Objects(StartSteps[i], on, f, a, n),
         NEW g, g = f \/ g = [f EXCEPT ![k] = Null]
  PROVE  Objects(<<"rest", 0>>, on, g, a, n + 1)
<1> DEFINE m == StartSteps[i]
           l == <<"rest", 0>>
<1>1. k \in Parts
  BY OpenedGrows
<1>2. m[1] = "open" /\ l[1] = "rest"
  BY StartStepsAre
<1>3. Opened(l) = {} /\ Closed(l) = {}
  BY <1>2, Bounds
<1>4. ~on
  BY <1>2 DEF Objects, Sound
<1>5. Counted(m, on, f, a, n)
  BY DEF Objects
<1> HIDE DEF m, l
<1>6. Counted(l, on, g, a, n + 1)
  <2>1. k \in Fields /\ k # "pending_image" /\ "pending_image" \in Fields
    BY <1>1 DEF Parts, Fields
  <2>2. f \in [Fields -> Nat] /\ n \in Nat /\ IsFiniteSet(a)
    BY <1>5 DEF Counted
  <2>3. g \in [Fields -> Nat] /\ \A p \in Fields : g[p] = f[p] \/ g[p] = Null
    BY <2>1, <2>2 DEF Null
  <2>4. g["pending_image"] = f["pending_image"]
    BY <2>1, <2>2
  <2>5. n + 1 \in Nat
    BY <2>2
  <2>6. \A p \in Parts : Cardinality(LeftBehind(l, on, g, a, p)) <= n + 1
    <3> TAKE p \in Parts
    <3> DEFINE L == LeftBehind(m, on, f, a, p)
               M == LeftBehind(l, on, g, a, p)
    <3>1. M \subseteq L \cup {<<p, f[p]>>}
      <4>1. \A o \in a : o = <<o[1], o[2]>>
        BY <1>5 DEF Counted
      <4> QED BY <4>1 DEF LeftBehind
    <3>2. IsFiniteSet(L) /\ Cardinality(L) \in Nat /\ Cardinality(L) <= n
      <4>1. L \subseteq a
        BY DEF LeftBehind
      <4> QED BY <1>5, <2>2, <4>1, FS_Subset, FS_CardinalityType DEF Counted
    <3> HIDE DEF L, M
    <3>3. /\ IsFiniteSet(L \cup {<<p, f[p]>>})
          /\ Cardinality(L \cup {<<p, f[p]>>}) \in Nat
          /\ Cardinality(L \cup {<<p, f[p]>>}) <= Cardinality(L) + 1
      <4>1. IsFiniteSet(L \cup {<<p, f[p]>>})
            /\ \/ Cardinality(L \cup {<<p, f[p]>>}) = Cardinality(L)
               \/ Cardinality(L \cup {<<p, f[p]>>}) = Cardinality(L) + 1
        BY <3>2, FS_AddElement
      <4> QED BY <3>2, <4>1
    <3>4. Cardinality(M) \in Nat /\ Cardinality(M) <= Cardinality(L \cup {<<p, f[p]>>})
      BY <3>1, <3>3, FS_Subset, FS_CardinalityType
    <3>5. Cardinality(M) <= n + 1
      BY <2>2, <3>2, <3>3, <3>4
    <3> QED BY <3>5 DEF M
  <2>7. \A p \in Fields : g[p] = Null \/ <<p, g[p]>> \in a
    BY <1>5, <2>3 DEF Counted
  <2>8. \A o \in a : o[1] = "pending_image" => o[2] = g["pending_image"]
    BY <1>5, <2>4 DEF Counted
  <2>9. a \subseteq Fields \X (Nat \ {Null}) /\ (~on => g["pending_image"] = Null)
    BY <1>5, <2>4 DEF Counted
  <2> QED BY <2>2, <2>3, <2>5, <2>6, <2>7, <2>8, <2>9 DEF Counted
<1>7. Sound(l, on, g, a)
  BY <1>2, <1>4 DEF Sound
<1> QED BY <1>6, <1>7 DEF Objects, l

\* A start is complete.
LEMMA OnKeeps ==
  ASSUME NEW on \in BOOLEAN, NEW f, NEW a, NEW n, Objects(<<"on", TRUE>>, on, f, a, n)
  PROVE  Objects(<<"rest", 0>>, TRUE, f, a, n)
<1> DEFINE m == <<"on", TRUE>>
           l == <<"rest", 0>>
<1>1. m[1] = "on" /\ l[1] = "rest" /\ Opened(m) = Parts
  BY Bounds
<1>2. Closed(l) = {}
  BY <1>1, Bounds
<1> HIDE DEF m, l
<1>3. ~on /\ \A p \in Parts : <<p, f[p]>> \in a
  BY <1>1 DEF Objects, Sound, m
<1>4. Counted(m, on, f, a, n)
  BY DEF Objects, m
<1>5. \A p \in Parts : LeftBehind(l, TRUE, f, a, p) = LeftBehind(m, on, f, a, p)
  BY <1>1 DEF LeftBehind, InUse
<1>6. Counted(l, TRUE, f, a, n)
  BY <1>4, <1>5 DEF Counted
<1>7. Sound(l, TRUE, f, a)
  BY <1>1, <1>3 DEF Sound
<1> QED BY <1>6, <1>7 DEF Objects, l

\* A stop is.
LEMMA OffKeeps ==
  ASSUME NEW on \in BOOLEAN, NEW f, NEW a, NEW n, Objects(<<"off", FALSE>>, on, f, a, n),
         NEW l \in {<<"rest", 0>>, <<"renew", "object">>}
  PROVE  Objects(l, FALSE, f, a, n)
<1> DEFINE m == <<"off", FALSE>>
<1>1. m[1] = "off" /\ Closed(m) = Fields /\ l[1] \in {"rest", "renew"}
  BY Bounds
<1>2. Opened(l) = {}
  BY <1>1, Bounds
<1> HIDE DEF m
<1>3. on /\ \A k \in Fields : f[k] = Null
  BY <1>1 DEF Objects, Sound, m
<1>4. Counted(m, on, f, a, n)
  BY DEF Objects, m
<1>5. \A p \in Parts : LeftBehind(l, FALSE, f, a, p) = LeftBehind(m, on, f, a, p)
  <2> TAKE p \in Parts
  <2>1. f[p] = Null
    BY <1>3 DEF Fields
  <2>2. \A o \in a : o[2] # Null
    BY <1>4 DEF Counted
  <2> QED BY <1>2, <1>3, <2>1, <2>2 DEF LeftBehind, InUse
<1>6. f["pending_image"] = Null
  BY <1>3 DEF Fields
<1>7. Counted(l, FALSE, f, a, n)
  BY <1>4, <1>5, <1>6 DEF Counted
<1>8. Sound(l, FALSE, f, a)
  BY <1>1 DEF Sound
<1> QED BY <1>7, <1>8 DEF Objects

\* A field is nulled, and an object given back.
Cleared(f, k)    == [f EXCEPT ![k] = Null]
Without(a, k, x) == a \ {<<k, x>>}

LEMMA CloseKeeps ==
  ASSUME NEW i \in 1 .. 6, NEW on \in BOOLEAN, NEW f, NEW a, NEW n, NEW k,
         k = StopSteps[i][2], Objects(StopSteps[i], on, f, a, n),
         NEW g, g = Cleared(f, k), NEW b, b = Without(a, k, f[k])
  PROVE  /\ Objects(StopSteps[i + 1], on, g, b, n)
         /\ f[k] = Null \/ <<k, f[k]>> \in a
<1> DEFINE m == StopSteps[i]
           l == StopSteps[i + 1]
<1>0. g = [f EXCEPT ![k] = Null] /\ b = a \ {<<k, f[k]>>}
  BY DEF Cleared, Without
<1>1. m = <<"close", k>> /\ k \in Fields /\ Closed(l) = Closed(m) \cup {k}
  BY ClosedGrows
<1>2. m[1] = "close" /\ l[1] \in {"close", "off"} /\ i + 1 \in 1 .. 7
  BY StopStepsAre
<1>3. Counted(m, on, f, a, n) /\ Sound(m, on, f, a)
  BY DEF Objects
<1> HIDE DEF m, l
<1>4. on /\ \A p \in Closed(m) : f[p] = Null
  BY <1>2, <1>3 DEF Sound
<1>5. f \in [Fields -> Nat] /\ n \in Nat /\ IsFiniteSet(a) /\ a \subseteq Fields \X (Nat \ {Null})
  BY <1>3 DEF Counted
<1>6. g \in [Fields -> Nat] /\ g[k] = Null /\ \A p \in Fields : p # k => g[p] = f[p]
  BY <1>0, <1>1, <1>5 DEF Null
<1>7. \A o \in a : o = <<o[1], o[2]>> /\ o[2] # Null
  BY <1>5
<1>8. Counted(l, on, g, b, n)
  <2>1. IsFiniteSet(b) /\ b \subseteq Fields \X (Nat \ {Null})
    BY <1>0, <1>5, FS_Subset
  <2>2. \A p \in Fields : g[p] = Null \/ <<p, g[p]>> \in b
    BY <1>0, <1>3, <1>6 DEF Counted
  <2>3. \A o \in b : o[1] = "pending_image" => o[2] = g["pending_image"]
    BY <1>0, <1>3, <1>6, <1>7 DEF Counted, Fields
  <2>4. \A p \in Parts : LeftBehind(l, on, g, b, p) = LeftBehind(m, on, f, a, p)
    <3> TAKE p \in Parts
    <3>1. p \in Fields
      BY DEF Fields
    <3> QED BY <1>0, <1>4, <1>6, <1>7, <3>1 DEF LeftBehind, InUse
  <2>5. \A p \in Parts : Cardinality(LeftBehind(l, on, g, b, p)) <= n
    BY <1>3, <2>4 DEF Counted
  <2> QED BY <1>4, <1>5, <1>6, <2>1, <2>2, <2>3, <2>5 DEF Counted
<1>9. Sound(l, on, g, b)
  <2>1. \A p \in Closed(l) : g[p] = Null
    <3>1. Closed(m) \subseteq Fields
      BY DEF Closed
    <3> QED BY <1>1, <1>4, <1>6, <3>1
  <2>2. \A p \in Parts \ Closed(l) : <<p, g[p]>> \in b
    <3> TAKE p \in Parts \ Closed(l)
    <3>1. p \in Fields /\ p # k /\ p \notin Closed(m)
      BY <1>1 DEF Fields
    <3>2. <<p, f[p]>> \in a
      BY <1>3, <1>4, <3>1 DEF Sound
    <3> QED BY <1>0, <1>6, <3>1, <3>2
  <2> QED BY <1>2, <1>4, <2>1, <2>2 DEF Sound
<1>10. f[k] = Null \/ <<k, f[k]>> \in a
  BY <1>1, <1>3 DEF Counted
<1> QED BY <1>8, <1>9, <1>10 DEF Objects, l

\* Deleted while off, the camera leaves behind what it left behind before.
LEMMA RenewKeeps ==
  ASSUME NEW m, m[1] = "renew", NEW on \in BOOLEAN, NEW f, NEW a, NEW n,
         Objects(m, on, f, a, n)
  PROVE  Objects(<<"rest", 0>>, FALSE, [k \in Fields |-> Null], a, n)
<1> DEFINE l == <<"rest", 0>>
           g == [k \in Fields |-> Null]
<1>1. l[1] = "rest"
  OBVIOUS
<1> HIDE DEF l
<1>2. Opened(m) = {} /\ Opened(l) = {} /\ Closed(l) = {}
  BY <1>1, Bounds
<1>3. Counted(m, on, f, a, n) /\ ~on
  BY DEF Objects, Sound
<1>4. \A p \in Parts : LeftBehind(l, FALSE, g, a, p) = LeftBehind(m, on, f, a, p)
  BY <1>2, <1>3 DEF LeftBehind, InUse
<1>5. "pending_image" \in Fields /\ f["pending_image"] = Null
  BY <1>3 DEF Counted, Fields
<1>6. \A k \in Fields : g[k] = Null
  OBVIOUS
<1>7. g \in [Fields -> Nat]
  BY DEF Null
<1> HIDE DEF g
<1>8. Counted(l, FALSE, g, a, n)
  BY <1>3, <1>4, <1>5, <1>6, <1>7 DEF Counted
<1>9. Sound(l, FALSE, g, a)
  BY <1>1 DEF Sound
<1> QED BY <1>8, <1>9 DEF Objects, g, l

\* A step of draw(): another image, the same or none.
\* The image kept is another one, and the one before given back.
Showing(f, new)     == [f EXCEPT !["pending_image"] = new]
Replaced(a, old, b) == (a \ {<<"pending_image", old>>}) \cup b
Chosen(new, b, f, a) ==
  \/ new # Null /\ b = {<<"pending_image", new>>}
  \/ new = f["pending_image"] /\ b = {<<"pending_image", new>>} \cap a
  \/ new = Null /\ b = {}

LEMMA AcquireKeeps ==
  ASSUME NEW m, m[1] = "acquire", NEW l, l[1] = "upload",
         NEW on \in BOOLEAN, NEW f, NEW a, NEW n, Objects(m, on, f, a, n),
         NEW new \in Nat, NEW b, Chosen(new, b, f, a), NEW g, g = Showing(f, new),
         NEW c, c = Replaced(a, f["pending_image"], b)
  PROVE  /\ Objects(l, on, g, c, n)
         /\ <<"img_reader", f["img_reader"]>> \in a
         /\ f["pending_image"] = Null \/ <<"pending_image", f["pending_image"]>> \in a
<1> DEFINE p == "pending_image"
<1> g = [f EXCEPT !["pending_image"] = new]
      /\ c = (a \ {<<"pending_image", f["pending_image"]>>}) \cup b
  BY DEF Showing, Replaced
<1> \/ new # Null /\ b = {<<"pending_image", new>>}
    \/ new = f["pending_image"] /\ b = {<<"pending_image", new>>} \cap a
    \/ new = Null /\ b = {}
  BY DEF Chosen
<1>1. Counted(m, on, f, a, n) /\ Sound(m, on, f, a)
  BY DEF Objects
<1>2. /\ Opened(m) = {} /\ Opened(l) = {} /\ Closed(l) = {} /\ Closed(m) = {}
  BY Bounds
<1>3. on /\ \A k \in Parts : <<k, f[k]>> \in a
  BY <1>1, <1>2 DEF Sound
<1>4. p \in Fields /\ p \notin Parts /\ "img_reader" \in Parts /\ Parts \subseteq Fields
  BY DEF Fields, Parts
<1>5. f \in [Fields -> Nat] /\ n \in Nat /\ IsFiniteSet(a) /\ a \subseteq Fields \X (Nat \ {Null})
  BY <1>1 DEF Counted
<1>6. \A o \in a : o = <<o[1], o[2]>> /\ o[2] # Null
  BY <1>5
<1>7. \A o \in a : o[1] = p => o[2] = f[p]
  BY <1>1 DEF Counted
<1>8. g \in [Fields -> Nat] /\ g[p] = new /\ \A k \in Fields : k # p => g[k] = f[k]
  BY <1>4, <1>5
<1>9. f[p] = Null \/ <<p, f[p]>> \in a
  BY <1>1, <1>4 DEF Counted
<1> HIDE DEF p
<1>10. \A o \in b : o = <<p, new>>
  BY DEF p
<1>11. new = Null \/ <<p, new>> \in c
  BY <1>9 DEF p
<1>12. c \subseteq a \cup {<<p, new>>} /\ \A o \in a : o[1] # p => o \in c
  BY <1>10 DEF p
<1>13. \A o \in c : o[1] = p => o[2] = new
  <2>1. \A o \in a : o[1] = p => o = <<p, f[p]>>
    BY <1>6, <1>7
  <2>2. \A o \in c : o[1] = p => o \in b
    BY <2>1 DEF p
  <2> QED BY <1>10, <2>2
<1>14. \A o \in c : o \in a \/ (o = <<p, new>> /\ new # Null)
  <2>1. \A o \in c : o \in a \/ o \in b
    OBVIOUS
  <2>2. new = Null => b \subseteq a
    OBVIOUS
  <2> QED BY <1>10, <2>1, <2>2
<1>15. IsFiniteSet(c)
  <2>1. IsFiniteSet(a \cup {<<p, new>>})
    BY <1>5, FS_AddElement
  <2> QED BY <1>12, <2>1, FS_Subset
<1>16. c \subseteq Fields \X (Nat \ {Null})
  BY <1>4, <1>5, <1>14
<1>17. \A k \in Parts : LeftBehind(l, on, g, c, k) = LeftBehind(m, on, f, a, k)
  <2> TAKE k \in Parts
  <2>1. k # p /\ k \in Fields /\ g[k] = f[k] /\ <<p, new>>[1] # k
    BY <1>4, <1>8
  <2>2. \A o : o[1] = k => (o \in c <=> o \in a)
    BY <1>12, <1>14, <2>1
  <2> QED BY <1>3, <2>1, <2>2 DEF LeftBehind, InUse
<1>18. Counted(l, on, g, c, n)
  <2>1. \A k \in Fields : g[k] = Null \/ <<k, g[k]>> \in c
    <3> TAKE k \in Fields
    <3>1. CASE k = p
      BY <1>8, <1>11, <3>1
    <3>2. CASE k # p
      <4>1. f[k] = Null \/ <<k, f[k]>> \in a
        BY <1>1 DEF Counted
      <4>2. <<k, f[k]>>[1] # p
        BY <3>2
      <4> QED BY <1>8, <1>12, <3>2, <4>1, <4>2
    <3> QED BY <3>1, <3>2
  <2>2. \A o \in c : o[1] = "pending_image" => o[2] = g["pending_image"]
    BY <1>8, <1>13 DEF p
  <2>3. \A k \in Parts : Cardinality(LeftBehind(l, on, g, c, k)) <= n
    BY <1>1, <1>17 DEF Counted
  <2> QED BY <1>3, <1>5, <1>8, <1>15, <1>16, <2>1, <2>2, <2>3 DEF Counted
<1>19. Sound(l, on, g, c)
  <2>1. \A k \in Parts : <<k, g[k]>> \in c
    <3> TAKE k \in Parts
    <3>1. k # p /\ k \in Fields /\ <<k, f[k]>> \in a /\ <<k, f[k]>>[1] # p
      BY <1>3, <1>4
    <3> QED BY <1>8, <1>12, <3>1
  <2> QED BY <1>3, <2>1 DEF Sound
<1> QED BY <1>3, <1>4, <1>9, <1>18, <1>19 DEF Objects, p

\* There always is a number for another object.
LEMMA NewIs ==
  ASSUME NEW k, IsFiniteSet(alive)
  PROVE  New(k) \in Nat \ {Null} /\ <<k, New(k)>> \notin alive /\ New(k) \notin {eye_tex[0], eye_tex[1]}
<1> DEFINE N == 1 .. Cardinality(alive) + 3
           Used == {n \in N : <<k, n>> \in alive}
           Shown == {eye_tex[0], eye_tex[1]}
           h == [n \in Used |-> <<k, n>>]
<1>1. Cardinality(alive) \in Nat
  BY FS_CardinalityType
<1>2. IsFiniteSet(Used) /\ Cardinality(Used) \in Nat /\ Cardinality(Used) <= Cardinality(alive)
  <2>1. h \in Injection(Used, alive)
    BY DEF Injection, IsInjective
  <2>2. IsFiniteSet(Used) /\ Cardinality(Used) <= Cardinality(alive)
    BY <2>1, FS_Injection
  <2> QED BY <2>2, FS_CardinalityType
<1>3. IsFiniteSet(Shown) /\ Cardinality(Shown) \in Nat /\ Cardinality(Shown) <= 2
  <2>1. IsFiniteSet({eye_tex[0]}) /\ Cardinality({eye_tex[0]}) = 1
    BY FS_Singleton
  <2>2. Shown = {eye_tex[0]} \cup {eye_tex[1]}
    OBVIOUS
  <2>3. IsFiniteSet(Shown) /\ (Cardinality(Shown) = 1 \/ Cardinality(Shown) = 2)
    BY <2>1, <2>2, FS_AddElement
  <2> QED BY <2>3
<1> HIDE DEF Used, Shown
<1>4. IsFiniteSet(Used \cup Shown) /\ Cardinality(Used \cup Shown) \in Nat
      /\ Cardinality(Used \cup Shown) <= Cardinality(alive) + 2
  <2>1. IsFiniteSet(Used \cap Shown) /\ Cardinality(Used \cap Shown) \in Nat
    BY <1>2, FS_Subset, FS_CardinalityType
  <2>2. IsFiniteSet(Used \cup Shown)
        /\ Cardinality(Used \cup Shown) = Cardinality(Used) + Cardinality(Shown) - Cardinality(Used \cap Shown)
    BY <1>2, <1>3, FS_Union
  <2>3. Cardinality(Used \cup Shown) \in Nat
    BY <2>2, FS_CardinalityType
  <2> HIDE DEF N
  <2>4. ASSUME NEW x \in Nat, NEW y \in Nat, NEW z \in Nat, NEW c \in Nat, x <= c, y <= 2
        PROVE  x + y - z <= c + 2
    BY <2>4
  <2>5. Cardinality(Used) + Cardinality(Shown) - Cardinality(Used \cap Shown)
           <= Cardinality(alive) + 2
    BY <1>1, <1>2, <1>3, <2>1, <2>4
  <2> QED BY <2>2, <2>3, <2>5
<1>5. IsFiniteSet(N) /\ Cardinality(N) = Cardinality(alive) + 3
  <2>1. 1 \in Int /\ Cardinality(alive) + 3 \in Int /\ 1 <= Cardinality(alive) + 3
    BY <1>1
  <2>2. IsFiniteSet(N) /\ Cardinality(N) = Cardinality(alive) + 3 - 1 + 1
    BY <1>1, <2>1, FS_Interval
  <2> HIDE DEF N
  <2>3. \A c \in Nat : c + 3 - 1 + 1 = c + 3
    OBVIOUS
  <2>4. Cardinality(alive) + 3 - 1 + 1 = Cardinality(alive) + 3
    BY <1>1, <2>3, Zenon
  <2> QED BY <2>2, <2>4, Zenon
<1> HIDE DEF N
<1>6. \E n \in N : n \notin Used \cup Shown
  <2>1. ASSUME N \subseteq Used \cup Shown PROVE FALSE
    <3>1. Cardinality(N) <= Cardinality(Used \cup Shown)
      BY <1>4, <2>1, FS_Subset
    <3> QED BY <1>1, <1>4, <1>5, <3>1
  <2> QED BY <2>1
<1>7. \E n \in 1 .. Cardinality(alive) + 3 :
        <<k, n>> \notin alive /\ n \notin {eye_tex[0], eye_tex[1]}
  BY <1>6 DEF N, Used, Shown
<1>8. New(k) \in 1 .. Cardinality(alive) + 3 /\ <<k, New(k)>> \notin alive
      /\ New(k) \notin {eye_tex[0], eye_tex[1]}
  BY <1>7 DEF New
<1> QED BY <1>1, <1>8 DEF Null

-----------------------------------------------------------------------------
(* Where a thread is in the camera *)

\* The step of the thread that is in the camera, of two sequences of steps.
PlaceOf(w) == IF Inside(w["ui"]) THEN w["ui"][1]
              ELSE IF Inside(w["render"]) THEN w["render"][1] ELSE <<"rest", 0>>
Met(w) == \A t \in CamThreads : Inside(w[t])
Todos == [CamThreads -> Shapes]
Becoming(w, t, s) == [w EXCEPT ![t] = s]

LEMMA Within ==
  ASSUME NEW w \in Todos, NEW t \in CamThreads, Inside(w[t]), ~Met(w)
  PROVE  PlaceOf(w) = w[t][1] /\ \A u \in CamThreads : u # t => ~Inside(w[u])
BY DEF PlaceOf, Met, CamThreads

LEMMA Becomes ==
  ASSUME NEW w \in Todos, NEW t \in CamThreads, NEW s \in Shapes,
         \A u \in CamThreads : u # t => ~Inside(w[u]),
         NEW v, v = Becoming(w, t, s)
  PROVE  /\ v \in Todos /\ ~Met(v) /\ v[t] = s /\ \A u \in CamThreads : u # t => v[u] = w[u]
         /\ Inside(s) => PlaceOf(v) = s[1]
         /\ ~Inside(s) => PlaceOf(v) = <<"rest", 0>>
<1>1. v \in Todos /\ v[t] = s /\ \A u \in CamThreads : u # t => v[u] = w[u]
  BY DEF Todos, Becoming
<1>2. \A u \in CamThreads : u # t => ~Inside(v[u])
  BY <1>1
<1>3. ~Met(v)
  BY <1>2 DEF Met, CamThreads
<1>4. Inside(s) => PlaceOf(v) = s[1]
  BY <1>1, <1>2 DEF PlaceOf, CamThreads
<1>5. ~Inside(s) => PlaceOf(v) = <<"rest", 0>>
  BY <1>1, <1>2 DEF PlaceOf, CamThreads
<1> QED BY <1>1, <1>3, <1>4, <1>5

LEMMA StaysOut ==
  ASSUME NEW w \in Todos, NEW t \in CamThreads, NEW s \in Shapes, ~Inside(w[t]), ~Inside(s),
         NEW v, v = Becoming(w, t, s)
  PROVE  /\ v \in Todos /\ ~Met(v) /\ v[t] = s /\ \A u \in CamThreads : u # t => v[u] = w[u]
         /\ PlaceOf(v) = PlaceOf(w)
<1>1. v \in Todos /\ v[t] = s /\ \A u \in CamThreads : u # t => v[u] = w[u]
  BY DEF Todos, Becoming
<1>2. ~Met(v)
  BY <1>1 DEF Met
<1>3. PlaceOf(v) = PlaceOf(w)
  BY <1>1 DEF PlaceOf, CamThreads
<1> QED BY <1>1, <1>2, <1>3

-----------------------------------------------------------------------------
(* The camera's invariant *)

CamTypes ==
  /\ todo \in Todos
  /\ camera_on \in BOOLEAN /\ got_new \in BOOLEAN
  /\ field \in [Fields -> Nat]
  /\ IsFiniteSet(alive) /\ alive \subseteq Fields \X (Nat \ {Null})
  /\ eye_tex \in [{0, 1} -> Nat]
  /\ spent \in [toggles : Nat, failures : Nat, launches : Nat]

\* The image kept is in both textures, or will be before it is drawn.
Images ==
  field["pending_image"] # Null =>
    /\ eye_tex[0] = field["pending_image"] \/ (got_new /\ todo["render"] = FirstEye)
    /\ \/ eye_tex[1] = field["pending_image"]
       \/ got_new /\ todo["render"] \in {FirstEye, SecondEye, DrawSteps(1)}

CamSafe ==
  /\ ~Met(todo) /\ ~fault /\ ~stale
  /\ Objects(PlaceOf(todo), camera_on, field, alive, spent.failures)
  /\ Images

CamInv == CamTypes /\ (overlap \/ CamSafe)

\* A thread in the camera goes on by itself.
LEMMA GoesOn ==
  ASSUME CamTypes, CamSafe, ~overlap, NEW t \in CamThreads, Inside(todo[t]),
         Proceeds(t, <<>>), Tail(todo[t]) \in Shapes
  PROVE  /\ PlaceOf(todo) = todo[t][1] /\ todo' \in Todos /\ ~Met(todo') /\ ~overlap'
         /\ todo'[t] = Tail(todo[t]) /\ \A u \in CamThreads : u # t => todo'[u] = todo[u]
         /\ Inside(Tail(todo[t])) => PlaceOf(todo') = Tail(todo[t])[1]
         /\ ~Inside(Tail(todo[t])) => PlaceOf(todo') = <<"rest", 0>>
         /\ spent' = spent
<1>1. todo \in Todos /\ ~Met(todo)
  BY DEF CamTypes, CamSafe
<1>2. PlaceOf(todo) = todo[t][1] /\ \A u \in CamThreads : u # t => ~Inside(todo[u])
  BY <1>1, Within
<1> DEFINE s == Tail(todo[t])
<1>3. <<>> \o s = s
  BY EveryContinues, ConcatEmptySeq DEF Continues
<1>4. todo' = Becoming(todo, t, s) /\ spent' = spent /\ (overlap' <=> overlap \/ Met(todo'))
  BY <1>3 DEF Proceeds, Met, Becoming
<1> HIDE DEF s
<1>5. s \in Shapes
  BY DEF s
<1>6. /\ todo' \in Todos /\ ~Met(todo') /\ todo'[t] = s
      /\ \A u \in CamThreads : u # t => todo'[u] = todo[u]
      /\ Inside(s) => PlaceOf(todo') = s[1]
      /\ ~Inside(s) => PlaceOf(todo') = <<"rest", 0>>
  BY <1>1, <1>2, <1>4, <1>5, Becomes
<1> QED BY <1>2, <1>4, <1>6 DEF s

-----------------------------------------------------------------------------
(* The camera's steps *)

LEMMA CamOpens ==
  ASSUME CamTypes, CamSafe, ~overlap, NEW t \in CamThreads, Open(t)
  PROVE  CamInv'
<1> DEFINE s == todo[t]
           k == Subject(t)
           new == New(k)
<1>1. s \in Shapes /\ Goes(s, "open") /\ Continues(s)
  BY EveryContinues DEF Open, At, Goes, CamTypes, Todos
<1>2. PICK i \in 1 .. 5 : s[1] = StartSteps[i] /\ Tail(s) \in Shapes
                          /\ Tail(s) # <<>> /\ Tail(s)[1] = StartSteps[i + 1]
  BY <1>1 DEF Continues
<1>3. Inside(s) /\ Inside(Tail(s))
  <2>1. StartSteps[i + 1][1] \in {"open", "on"}
    BY StartStepsAre
  <2> QED BY <1>1, <1>2, <2>1 DEF Inside, Goes
<1>4. Proceeds(t, <<>>)
  BY DEF Open
<1>5. /\ PlaceOf(todo) = StartSteps[i] /\ todo' \in Todos /\ ~Met(todo') /\ ~overlap'
      /\ PlaceOf(todo') = StartSteps[i + 1] /\ spent' = spent
  BY <1>2, <1>3, <1>4, GoesOn
<1>6. k = StartSteps[i][2]
  BY <1>2 DEF Subject
<1>7. Objects(StartSteps[i], camera_on, field, alive, spent.failures) /\ camera_on \in BOOLEAN
  BY <1>5 DEF CamSafe, CamTypes
<1>8. new \in Nat \ {Null} /\ <<k, new>> \notin alive
  BY NewIs DEF CamTypes
<1> HIDE DEF k, new
<1>9. /\ field' = Filled(field, k, new) /\ alive' = With(alive, k, new)
      /\ (fault' <=> \E q \in Source(k) : ~Held(q))
      /\ UNCHANGED <<camera_on, got_new, eye_tex, stale>>
  BY DEF Open, k, new, Filled, With
<1>10. /\ Objects(StartSteps[i + 1], camera_on, field', alive', spent.failures)
       /\ \A q \in Source(k) : <<q, field[q]>> \in alive
  BY <1>6, <1>7, <1>8, <1>9, OpenKeeps
<1>11. Objects(PlaceOf(todo'), camera_on', field', alive', spent'.failures)
  BY <1>5, <1>9, <1>10
<1>12. ~fault' /\ ~stale'
  BY <1>9, <1>10 DEF Held, CamSafe
<1>13. field'["pending_image"] = Null
  <2>1. StartSteps[i + 1][1] \in {"open", "on"}
    BY StartStepsAre
  <2> QED BY <1>5, <1>11, <2>1 DEF Objects, Counted, Sound
<1>14. Images'
  BY <1>13 DEF Images
<1>15. CamTypes'
  BY <1>5, <1>9, <1>11 DEF CamTypes, Objects, Counted
<1> QED BY <1>5, <1>11, <1>12, <1>14, <1>15 DEF CamInv, CamSafe

LEMMA CamOpenFails ==
  ASSUME CamTypes, CamSafe, ~overlap, NEW t \in CamThreads, OpenFails(t)
  PROVE  CamInv'
<1> DEFINE s == todo[t]
           k == Subject(t)
<1>1. s \in Shapes /\ Goes(s, "open") /\ Continues(s) /\ todo \in Todos /\ ~Met(todo)
  BY EveryContinues DEF OpenFails, At, Goes, CamTypes, CamSafe, Todos
<1>2. PICK i \in 1 .. 5 : s[1] = StartSteps[i]
  BY <1>1 DEF Continues
<1>3. Inside(s)
  BY <1>1 DEF Inside, Goes
<1>4. PlaceOf(todo) = StartSteps[i] /\ \A u \in CamThreads : u # t => ~Inside(todo[u])
  BY <1>1, <1>2, <1>3, Within
<1>5. <<>> \in Shapes /\ ~Inside(<<>>)
  BY DEF Shapes, Turning, Inside
<1>6. todo' = Becoming(todo, t, <<>>)
  BY DEF OpenFails, Becoming
<1>7. todo' \in Todos /\ ~Met(todo') /\ PlaceOf(todo') = <<"rest", 0>>
  BY <1>1, <1>4, <1>5, <1>6, Becomes
<1>8. k = StartSteps[i][2]
  BY <1>2 DEF Subject
<1>9. Objects(StartSteps[i], camera_on, field, alive, spent.failures) /\ camera_on \in BOOLEAN
  BY <1>4 DEF CamSafe, CamTypes
<1> HIDE DEF k
<1>10. /\ field' = field \/ field' = [field EXCEPT ![k] = Null]
       /\ spent' = [spent EXCEPT !.failures = @ + 1]
       /\ UNCHANGED <<camera_on, got_new, eye_tex, alive, overlap, fault, stale>>
  BY DEF OpenFails, k
<1>11. Objects(<<"rest", 0>>, camera_on, field', alive, spent.failures + 1)
  BY <1>8, <1>9, <1>10, FailKeeps
<1>12. spent' \in [toggles : Nat, failures : Nat, launches : Nat]
       /\ spent'.failures = spent.failures + 1
  BY <1>10 DEF CamTypes
<1>13. Objects(PlaceOf(todo'), camera_on', field', alive', spent'.failures)
  BY <1>7, <1>10, <1>11, <1>12
<1>14. Images'
  <2>1. ~camera_on
    <3>1. StartSteps[i][1] = "open"
      BY <1>1, <1>2 DEF Goes
    <3> QED BY <1>9, <3>1 DEF Objects, Sound
  <2>2. field'["pending_image"] = Null
    BY <2>1, <1>11 DEF Objects, Counted
  <2> QED BY <2>2 DEF Images
<1>15. CamTypes'
  BY <1>7, <1>10, <1>12, <1>13 DEF CamTypes, Objects, Counted
<1> QED BY <1>7, <1>10, <1>13, <1>14, <1>15 DEF CamInv, CamSafe

LEMMA CamSwitches ==
  ASSUME CamTypes, CamSafe, ~overlap, NEW t \in CamThreads, Switch(t)
  PROVE  CamInv'
<1> DEFINE s == todo[t]
<1>1. s \in Shapes /\ (Goes(s, "on") \/ Goes(s, "off")) /\ Continues(s)
  BY EveryContinues DEF Switch, At, Goes, CamTypes, Todos
<1>2. Inside(s) /\ Proceeds(t, <<>>)
  BY <1>1 DEF Inside, Goes, Switch
<1>3. UNCHANGED <<field, got_new, eye_tex, alive, fault, stale>> /\ camera_on' = s[1][2]
  BY DEF Switch, Subject
<1>4. /\ Tail(s) \in Rests
      /\ (s[1] = <<"on", TRUE>> /\ Tail(s) = <<>>) \/ s[1] = <<"off", FALSE>>
  BY <1>1 DEF Continues, Rests
<1>5. Tail(s) \in Shapes
  BY <1>4, RestsAre
<1>6. /\ PlaceOf(todo) = s[1] /\ todo' \in Todos /\ ~Met(todo') /\ ~overlap' /\ spent' = spent
      /\ todo'[t] = Tail(s) /\ \A u \in CamThreads : u # t => todo'[u] = todo[u]
      /\ Inside(Tail(s)) => PlaceOf(todo') = Tail(s)[1]
      /\ ~Inside(Tail(s)) => PlaceOf(todo') = <<"rest", 0>>
  BY <1>2, <1>5, GoesOn
<1>7. Objects(s[1], camera_on, field, alive, spent.failures) /\ camera_on \in BOOLEAN
  BY <1>6 DEF CamSafe, CamTypes
<1>8. CASE s[1] = <<"on", TRUE>> /\ Tail(s) = <<>>
  <2>1. Objects(<<"rest", 0>>, TRUE, field, alive, spent.failures)
    BY <1>7, <1>8, OnKeeps
  <2>2. camera_on' = TRUE /\ PlaceOf(todo') = <<"rest", 0>>
    BY <1>3, <1>6, <1>8 DEF Inside
  <2>3. Objects(PlaceOf(todo'), camera_on', field', alive', spent'.failures)
    BY <1>3, <1>6, <2>1, <2>2
  <2>4. field["pending_image"] = Null
    <3>1. s[1][1] = "on"
      BY <1>8
    <3> QED BY <1>7, <3>1 DEF Objects, Counted, Sound
  <2>5. Images'
    BY <1>3, <2>4 DEF Images
  <2>6. CamTypes'
    BY <1>3, <1>6, <2>2 DEF CamTypes
  <2> QED BY <1>3, <1>6, <2>3, <2>5, <2>6 DEF CamInv, CamSafe
<1>9. CASE s[1] = <<"off", FALSE>>
  <2>1. PlaceOf(todo') \in {<<"rest", 0>>, <<"renew", "object">>}
    <3>1. CASE Tail(s) = <<>>
      BY <1>6, <3>1 DEF Inside
    <3>2. CASE Tail(s) # <<>>
      <4>1. Tail(s)[1] = <<"renew", "object">>
        BY <1>4, <3>2, RestsAre
      <4>2. Inside(Tail(s))
        BY <3>2, <4>1 DEF Inside
      <4> QED BY <1>6, <4>1, <4>2
    <3> QED BY <3>1, <3>2
  <2>2. camera_on' = FALSE
    BY <1>3, <1>9
  <2>3. Objects(PlaceOf(todo'), FALSE, field, alive, spent.failures)
    <3>1. Objects(<<"off", FALSE>>, camera_on, field, alive, spent.failures)
      BY <1>7, <1>9
    <3> QED BY <1>7, <2>1, <3>1, OffKeeps
  <2>4. Objects(PlaceOf(todo'), camera_on', field', alive', spent'.failures)
    BY <1>3, <1>6, <2>2, <2>3
  <2>5. Images'
    BY <2>2, <2>4 DEF Images, Objects, Counted
  <2>6. CamTypes'
    BY <1>3, <1>6, <2>2 DEF CamTypes
  <2> QED BY <1>3, <1>6, <2>4, <2>5, <2>6 DEF CamInv, CamSafe
<1> QED BY <1>4, <1>8, <1>9

LEMMA CamCloses ==
  ASSUME CamTypes, CamSafe, ~overlap, NEW t \in CamThreads, Close(t)
  PROVE  CamInv'
<1> DEFINE s == todo[t]
           k == Subject(t)
<1>1. s \in Shapes /\ Goes(s, "close") /\ Continues(s)
  BY EveryContinues DEF Close, At, Goes, CamTypes, Todos
<1>2. PICK i \in 1 .. 6 : s[1] = StopSteps[i] /\ Tail(s) \in Shapes
                          /\ Tail(s) # <<>> /\ Tail(s)[1] = StopSteps[i + 1]
  BY <1>1 DEF Continues
<1>3. Inside(s) /\ Inside(Tail(s))
  <2>1. StopSteps[i + 1][1] \in {"close", "off"}
    BY StopStepsAre
  <2> QED BY <1>1, <1>2, <2>1 DEF Inside, Goes
<1>4. Proceeds(t, <<>>)
  BY DEF Close
<1>5. /\ PlaceOf(todo) = StopSteps[i] /\ todo' \in Todos /\ ~Met(todo') /\ ~overlap'
      /\ PlaceOf(todo') = StopSteps[i + 1] /\ spent' = spent
  BY <1>2, <1>3, <1>4, GoesOn
<1>6. k = StopSteps[i][2]
  BY <1>2 DEF Subject
<1>7. Objects(StopSteps[i], camera_on, field, alive, spent.failures) /\ camera_on \in BOOLEAN
  BY <1>5 DEF CamSafe, CamTypes
<1> HIDE DEF k
<1>8. /\ field' = [field EXCEPT ![k] = Null] /\ alive' = alive \ {<<k, field[k]>>}
       /\ (fault' <=> field[k] # Null /\ ~Held(k))
       /\ UNCHANGED <<camera_on, got_new, eye_tex, stale>>
  BY DEF Close, k
<1>9. /\ Objects(StopSteps[i + 1], camera_on, field', alive', spent.failures)
      /\ field[k] = Null \/ <<k, field[k]>> \in alive
  <2>1. field' = Cleared(field, k) /\ alive' = Without(alive, k, field[k])
    BY <1>8 DEF Cleared, Without
  <2> QED BY <1>6, <1>7, <2>1, CloseKeeps
<1>11. Objects(PlaceOf(todo'), camera_on', field', alive', spent'.failures)
  BY <1>5, <1>9, <1>8
<1>12. ~fault' /\ ~stale'
  BY <1>9, <1>8 DEF Held, CamSafe
<1>13. field'["pending_image"] = Null
  <2>1. /\ StopSteps[1] = <<"close", "pending_image">> /\ StopSteps[i + 1][1] \in {"close", "off"}
        /\ 1 < i + 1 /\ i + 1 \in 1 .. 7 /\ 1 \in 1 .. 7
    BY StopStepsAre
  <2>2. "pending_image" \in Closed(StopSteps[i + 1])
    BY <2>1 DEF Closed, Fields
  <2> QED BY <1>5, <1>11, <2>1, <2>2 DEF Objects, Sound
<1>14. Images'
  BY <1>13 DEF Images
<1>15. CamTypes'
  BY <1>5, <1>8, <1>11 DEF CamTypes, Objects, Counted
<1> QED BY <1>5, <1>11, <1>12, <1>14, <1>15 DEF CamInv, CamSafe

LEMMA CamRenews ==
  ASSUME CamTypes, CamSafe, ~overlap, Renew
  PROVE  CamInv'
<1> DEFINE s == todo["render"]
           boot == <<<<"boot", "render">>>>
<1>1. s \in Shapes /\ Goes(s, "renew") /\ Continues(s) /\ "render" \in CamThreads
  BY EveryContinues DEF Renew, At, Goes, CamTypes, Todos, CamThreads
<1>2. Tail(s) = boot /\ boot \in Shapes
  BY <1>1 DEF Continues, Shapes, Turning
<1>3. boot # <<>> /\ boot[1] = <<"boot", "render">> /\ boot[1][1] = "boot"
  OBVIOUS
<1>4. Inside(s) /\ ~Inside(boot) /\ Proceeds("render", <<>>)
  BY <1>1, <1>3 DEF Inside, Goes, Renew
<1>5. /\ PlaceOf(todo) = s[1] /\ todo' \in Todos /\ ~Met(todo') /\ ~overlap'
      /\ PlaceOf(todo') = <<"rest", 0>> /\ spent' = spent
  BY <1>1, <1>2, <1>4, GoesOn
<1>6. Objects(s[1], camera_on, field, alive, spent.failures) /\ camera_on \in BOOLEAN
  BY <1>5 DEF CamSafe, CamTypes
<1>7. /\ camera_on' = FALSE /\ field' = [k \in Fields |-> Null] /\ got_new' = FALSE
      /\ eye_tex' = [e \in {0, 1} |-> Null] /\ UNCHANGED <<alive, fault, stale>>
  BY DEF Renew
<1>8. Objects(<<"rest", 0>>, FALSE, [k \in Fields |-> Null], alive, spent.failures)
  <2>1. s[1][1] = "renew"
    BY <1>1 DEF Goes
  <2> QED BY <1>6, <2>1, RenewKeeps
<1>9. Objects(PlaceOf(todo'), camera_on', field', alive', spent'.failures)
  BY <1>5, <1>7, <1>8
<1>10. Images'
  BY <1>7 DEF Images, Fields
<1>11. CamTypes'
  BY <1>5, <1>7, <1>9 DEF CamTypes, Objects, Counted, Null
<1> QED BY <1>5, <1>7, <1>9, <1>10, <1>11 DEF CamInv, CamSafe

LEMMA CamAcquires ==
  ASSUME CamTypes, CamSafe, ~overlap, Acquire
  PROVE  CamInv'
<1> DEFINE s == todo["render"]
           old == field["pending_image"]
<1>1. s \in Shapes /\ Goes(s, "acquire") /\ Continues(s) /\ "render" \in CamThreads
  BY EveryContinues DEF Acquire, At, Goes, CamTypes, Todos, CamThreads
<1>2. s = DrawSteps(0) \o SecondEye /\ Tail(s) = FirstEye
  BY <1>1 DEF Continues
<1>3. FirstEye \in Shapes /\ FirstEye # <<>> /\ FirstEye[1] = <<"upload", 0>>
  BY DrawsAre DEF Shapes, Drawing
<1>4. Inside(s) /\ Inside(FirstEye) /\ Proceeds("render", <<>>)
  BY <1>1, <1>3 DEF Inside, Goes, Acquire
<1>5. /\ PlaceOf(todo) = s[1] /\ todo' \in Todos /\ ~Met(todo') /\ ~overlap'
      /\ PlaceOf(todo') = <<"upload", 0>> /\ todo'["render"] = FirstEye /\ spent' = spent
  BY <1>1, <1>2, <1>3, <1>4, GoesOn
<1>6. Objects(s[1], camera_on, field, alive, spent.failures) /\ camera_on \in BOOLEAN
  BY <1>5 DEF CamSafe, CamTypes
<1>7. New("pending_image") \in Nat \ {Null}
  BY NewIs DEF CamTypes
<1>8. old \in Nat /\ Null \in Nat
  BY DEF CamTypes, Fields, Null
<1>9. PICK new, b :
        /\ \/ new = New("pending_image") /\ b = {<<"pending_image", new>>} /\ got_new' = TRUE
           \/ new = old /\ b = {<<"pending_image", new>>} \cap alive /\ got_new' = FALSE
           \/ new = Null /\ b = {} /\ got_new' = FALSE
        /\ field' = [field EXCEPT !["pending_image"] = new]
        /\ alive' = (alive \ {<<"pending_image", old>>}) \cup b
        /\ (fault' <=> ~Held("img_reader") \/ (old # Null /\ new # old /\ ~Held("pending_image")))
  BY DEF Acquire
<1>10. UNCHANGED <<camera_on, eye_tex, stale>>
  BY DEF Acquire
<1>11. /\ Objects(<<"upload", 0>>, camera_on, field', alive', spent.failures)
       /\ <<"img_reader", field["img_reader"]>> \in alive
       /\ old = Null \/ <<"pending_image", old>> \in alive
  <2>1. s[1][1] = "acquire"
    BY <1>1 DEF Goes
  <2>2. new \in Nat /\ Chosen(new, b, field, alive)
    BY <1>7, <1>8, <1>9 DEF Chosen
  <2>3. field' = Showing(field, new) /\ alive' = Replaced(alive, field["pending_image"], b)
    BY <1>9 DEF Showing, Replaced
  <2>4. ASSUME NEW l, l[1] = "upload"
        PROVE  /\ Objects(l, camera_on, field', alive', spent.failures)
               /\ <<"img_reader", field["img_reader"]>> \in alive
               /\ old = Null \/ <<"pending_image", old>> \in alive
    BY <1>6, <2>1, <2>2, <2>3, <2>4, AcquireKeeps
  <2> QED BY <2>4
<1>12. Objects(PlaceOf(todo'), camera_on', field', alive', spent'.failures)
  BY <1>5, <1>9, <1>10, <1>11
<1>13. ~fault' /\ ~stale'
  BY <1>9, <1>10, <1>11 DEF Held, CamSafe
<1>14. Images'
  <2>1. field'["pending_image"] = new
    BY <1>9 DEF CamTypes, Fields
  <2>2. CASE new = New("pending_image") /\ got_new' = TRUE
    BY <1>5, <2>1, <2>2 DEF Images
  <2>3. CASE new = old
    <3>1. old # Null => eye_tex[0] = old /\ eye_tex[1] = old
      <4>1. s[1] = <<"acquire", 0>> /\ SecondEye[1] = <<"draw", 1>> /\ DrawSteps(1)[1] = <<"upload", 1>>
        BY <1>2, DrawsAre
      <4>2. <<"acquire", 0>>[1] = "acquire" /\ <<"draw", 1>>[1] = "draw" /\ <<"upload", 1>>[1] = "upload"
            /\ <<"upload", 0>>[1] = "upload"
        OBVIOUS
      <4>3. s \notin {FirstEye, SecondEye, DrawSteps(1)}
        BY <1>3, <4>1, <4>2
      <4> QED BY <4>3 DEF Images, CamSafe
    <3> QED BY <1>10, <2>1, <2>3, <3>1 DEF Images
  <2>4. CASE new = Null
    BY <2>1, <2>4 DEF Images
  <2> QED BY <1>9, <2>2, <2>3, <2>4
<1>15. CamTypes'
  <2>1. got_new' \in BOOLEAN
    BY <1>9
  <2> QED BY <1>5, <1>10, <1>12, <2>1 DEF CamTypes, Objects, Counted
<1> QED BY <1>5, <1>12, <1>13, <1>14, <1>15 DEF CamInv, CamSafe

LEMMA CamUploads ==
  ASSUME CamTypes, CamSafe, ~overlap, Upload
  PROVE  CamInv'
<1> DEFINE s == todo["render"]
           image == field["pending_image"]
<1>1. s \in Shapes /\ Goes(s, "upload") /\ Continues(s) /\ "render" \in CamThreads
  BY EveryContinues DEF Upload, At, Goes, CamTypes, Todos, CamThreads
<1>2. \/ s = FirstEye /\ s[1][2] = 0 /\ Tail(s) = SecondEye
      \/ s = DrawSteps(1) /\ s[1][2] = 1 /\ Tail(s) = <<>>
  BY <1>1 DEF Continues
<1>3. Tail(s) \in Shapes /\ ~Inside(Tail(s))
  <2>1. SecondEye[1][1] = "draw"
    <3>1. SecondEye[1] = <<"draw", 1>>
      BY DrawsAre
    <3> QED BY <3>1
  <2>2. SecondEye \in Shapes /\ <<>> \in Shapes
    BY DEF Shapes, Drawing, Turning
  <2> QED BY <1>2, <2>1, <2>2 DEF Inside
<1>4. Inside(s) /\ Proceeds("render", <<>>)
  BY <1>1 DEF Inside, Goes, Upload
<1>5. /\ PlaceOf(todo) = s[1] /\ todo' \in Todos /\ ~Met(todo') /\ ~overlap'
      /\ PlaceOf(todo') = <<"rest", 0>> /\ todo'["render"] = Tail(s) /\ spent' = spent
  BY <1>1, <1>3, <1>4, GoesOn
<1>6. /\ UNCHANGED <<camera_on, field, got_new, alive>> /\ Subject("render") = s[1][2]
      /\ IF image = Null THEN UNCHANGED <<eye_tex, fault, stale>>
         ELSE /\ eye_tex' = IF got_new \/ eye_tex[s[1][2]] = Null
                            THEN [eye_tex EXCEPT ![s[1][2]] = image] ELSE eye_tex
              /\ fault' = ~Held("pending_image")
              /\ stale' = (eye_tex'[s[1][2]] # image)
  BY DEF Upload, Subject
<1>7. Objects(s[1], camera_on, field, alive, spent.failures) /\ Images /\ ~fault /\ ~stale
  BY <1>5 DEF CamSafe
<1>8. /\ got_new \in BOOLEAN /\ eye_tex \in [{0, 1} -> Nat] /\ image \in Nat
      /\ FirstEye # DrawSteps(1)
  <2>1. FirstEye[1] = <<"upload", 0>> /\ DrawSteps(1) = <<<<"upload", 1>>>>
    BY DrawsAre
  <2>2. FirstEye[1] # DrawSteps(1)[1]
    BY <2>1
  <2>3. "pending_image" \in Fields
    BY DEF Fields
  <2> QED BY <2>2, <2>3 DEF CamTypes
<1>9. Objects(<<"rest", 0>>, camera_on, field, alive, spent.failures)
  <2> DEFINE m == s[1]
             l == <<"rest", 0>>
  <2>1. m[1] = "upload" /\ l[1] = "rest"
    BY <1>1 DEF Goes
  <2> HIDE DEF m, l
  <2>2. Opened(m) = {} /\ Opened(l) = {} /\ Closed(m) = {} /\ Closed(l) = {}
    BY <2>1, Bounds
  <2>3. Objects(m, camera_on, field, alive, spent.failures)
    BY <1>7 DEF m
  <2>4. Sound(l, camera_on, field, alive)
    BY <2>1, <2>2, <2>3 DEF Objects, Sound
  <2>5. Objects(l, camera_on, field, alive, spent.failures)
    BY <2>2, <2>3, <2>4, Elsewhere
  <2> QED BY <2>5 DEF l
<1>10. Objects(PlaceOf(todo'), camera_on', field', alive', spent'.failures)
  BY <1>5, <1>6, <1>9
<1>11. CASE image = Null
  <2>1. Images'
    BY <1>6, <1>11 DEF Images
  <2>2. CamTypes'
    BY <1>5, <1>6, <1>11 DEF CamTypes
  <2> QED BY <1>5, <1>6, <1>7, <1>10, <1>11, <2>1, <2>2 DEF CamInv, CamSafe
<1>12. CASE image # Null
  <2>1. Held("pending_image")
    BY <1>7, <1>12 DEF Objects, Counted, Held, Fields
  <2>2. CASE s = FirstEye /\ s[1][2] = 0 /\ Tail(s) = SecondEye
    <3>1. eye_tex' = (IF got_new \/ eye_tex[0] = Null THEN [eye_tex EXCEPT ![0] = image] ELSE eye_tex)
          /\ stale' = (eye_tex'[0] # image) /\ fault' = ~Held("pending_image")
      BY <1>6, <1>12, <2>2
    <3>2. eye_tex[0] = image \/ got_new
      BY <1>7, <1>12 DEF Images
    <3>3. eye_tex' \in [{0, 1} -> Nat] /\ eye_tex'[0] = image /\ eye_tex'[1] = eye_tex[1]
      BY <1>8, <1>12, <3>1, <3>2
    <3>4. Images'
      <4>1. eye_tex[1] = image \/ got_new
        BY <1>7, <1>12 DEF Images
      <4> QED BY <1>5, <1>6, <2>2, <3>3, <4>1 DEF Images
    <3>5. CamTypes'
      BY <1>5, <1>6, <3>3 DEF CamTypes
    <3> QED BY <1>5, <1>10, <2>1, <3>1, <3>3, <3>4, <3>5 DEF CamInv, CamSafe
  <2>3. CASE s = DrawSteps(1) /\ s[1][2] = 1 /\ Tail(s) = <<>>
    <3>1. eye_tex' = (IF got_new \/ eye_tex[1] = Null THEN [eye_tex EXCEPT ![1] = image] ELSE eye_tex)
          /\ stale' = (eye_tex'[1] # image) /\ fault' = ~Held("pending_image")
      BY <1>6, <1>12, <2>3
    <3>2. (eye_tex[1] = image \/ got_new) /\ eye_tex[0] = image
      BY <1>7, <1>8, <1>12, <2>3 DEF Images
    <3>3. eye_tex' \in [{0, 1} -> Nat] /\ eye_tex'[1] = image /\ eye_tex'[0] = image
      BY <1>8, <1>12, <3>1, <3>2
    <3>4. Images'
      BY <1>6, <3>3 DEF Images
    <3>5. CamTypes'
      BY <1>5, <1>6, <3>3 DEF CamTypes
    <3> QED BY <1>5, <1>10, <2>1, <3>1, <3>3, <3>4, <3>5 DEF CamInv, CamSafe
  <2> QED BY <1>2, <2>2, <2>3
<1> QED BY <1>11, <1>12

\* A step that does not touch the objects leaves the images as they are, unless
\* it is the drawing that skips a step.
LEMMA ImagesStay ==
  ASSUME Images, UNCHANGED <<field, eye_tex, got_new>>,
         \/ todo'["render"] = todo["render"]
         \/ todo["render"] \notin {FirstEye, SecondEye, DrawSteps(1)}
  PROVE  Images'
BY DEF Images

\* What begins with another verb is not left of a frame.
LEMMA OtherDraws ==
  ASSUME NEW s, s = <<>> \/ s[1][1] \notin {"upload", "draw"}
  PROVE  s \notin {FirstEye, SecondEye, DrawSteps(1)}
<1>1. /\ FirstEye # <<>> /\ FirstEye[1] = <<"upload", 0>>
      /\ SecondEye # <<>> /\ SecondEye[1] = <<"draw", 1>>
      /\ DrawSteps(1) = <<<<"upload", 1>>>>
  BY DrawsAre
<1>2. DrawSteps(1) # <<>> /\ DrawSteps(1)[1][1] = "upload"
  BY <1>1
<1>3. FirstEye[1][1] = "upload" /\ SecondEye[1][1] = "draw"
  BY <1>1
<1> QED BY <1>1, <1>2, <1>3

\* A thread that was not in the camera turns to it.
LEMMA CamTurns ==
  ASSUME CamTypes, CamSafe, ~overlap, NEW t \in CamThreads, NEW s \in Shapes, ~Inside(s),
         Turns(t, s), spent' \in [toggles : Nat, failures : Nat, launches : Nat],
         spent'.failures = spent.failures
  PROVE  CamInv'
<1>1. todo \in Todos /\ todo[t] = <<>> /\ ~Inside(todo[t])
  BY DEF CamTypes, Turns, Inside
<1>2. /\ todo' = Becoming(todo, t, s)
      /\ UNCHANGED <<camera_on, field, got_new, eye_tex, alive, overlap, fault, stale>>
  BY DEF Turns, Becoming, objectVars
<1>3. /\ todo' \in Todos /\ ~Met(todo') /\ \A u \in CamThreads : u # t => todo'[u] = todo[u]
      /\ PlaceOf(todo') = PlaceOf(todo)
  BY <1>1, <1>2, StaysOut
<1>4. Images'
  <2>1. \/ todo'["render"] = todo["render"]
        \/ todo["render"] \notin {FirstEye, SecondEye, DrawSteps(1)}
    <3>1. CASE t = "render"
      <4>1. DrawSteps(1) # <<>> /\ FirstEye # <<>> /\ SecondEye # <<>>
        BY DrawsAre
      <4> QED BY <1>1, <3>1, <4>1
    <3>2. CASE t # "render"
      BY <1>3, <3>2 DEF CamThreads
    <3> QED BY <3>1, <3>2
  <2> QED BY <1>2, <2>1, ImagesStay DEF CamSafe
<1>5. CamTypes'
  BY <1>2, <1>3 DEF CamTypes
<1> QED BY <1>2, <1>3, <1>4, <1>5 DEF CamInv, CamSafe

\* A thread makes a call, which takes it into the camera or not.
LEMMA CamCalls ==
  ASSUME CamTypes, CamSafe, ~overlap, NEW t \in CamThreads, NEW s \in Shapes,
         todo' = Becoming(todo, t, s), overlap' <=> overlap \/ Met(todo'), spent' = spent,
         UNCHANGED <<objectVars, fault, stale>>, ~Inside(todo[t]),
         Inside(s) /\ PlaceOf(todo) = <<"rest", 0>>
           => Objects(s[1], camera_on, field, alive, spent.failures),
         Images'
  PROVE  CamInv'
<1>1. UNCHANGED <<camera_on, field, got_new, eye_tex, alive, fault, stale>>
  BY DEF objectVars
<1>2. todo \in Todos /\ todo' \in Todos
  BY DEF CamTypes, Becoming, Todos
<1>3. CamTypes'
  BY <1>1, <1>2 DEF CamTypes
<1>4. CASE ~Inside(s)
  <2>1. ~Met(todo') /\ PlaceOf(todo') = PlaceOf(todo)
    BY <1>2, <1>4, StaysOut
  <2> QED BY <1>1, <1>3, <2>1 DEF CamInv, CamSafe
<1>5. CASE Inside(s) /\ ~Met(todo')
  <2>1. \A u \in CamThreads : u # t => ~Inside(todo[u])
    BY <1>2, <1>5 DEF Met, Becoming, Todos, CamThreads
  <2>2. PlaceOf(todo) = <<"rest", 0>>
    BY <2>1 DEF PlaceOf, CamThreads
  <2>3. PlaceOf(todo') = s[1]
    BY <1>2, <1>5, <2>1, Becomes
  <2> QED BY <1>1, <1>3, <1>5, <2>2, <2>3 DEF CamInv, CamSafe
<1>6. CASE Met(todo')
  BY <1>1, <1>3, <1>6 DEF CamInv
<1> QED BY <1>4, <1>5, <1>6

LEMMA CamStarts ==
  ASSUME CamTypes, CamSafe, ~overlap, NEW t \in CamThreads, Start(t)
  PROVE  CamInv'
<1> DEFINE s == todo[t]
           r == (IF StartNeeded THEN StartSteps ELSE <<>>) \o Tail(s)
<1>1. s \in Shapes /\ Goes(s, "start") /\ Continues(s)
      /\ Call(t, "start", StartNeeded, StartSteps)
  BY EveryContinues DEF Start, Call, At, Goes, CamTypes, Todos
<1>2. Tail(s) = <<>> /\ ~Inside(s) /\ s # <<>> /\ s[1][1] = "start"
  BY <1>1 DEF Continues, Goes, Inside
<1>3. StartSteps = StartFrom(1) /\ StartFrom(1)[1] = StartSteps[1]
  <2>1. /\ StartFrom(1) \in Seq(Steps) /\ Len(StartFrom(1)) = 6
        /\ \A j \in 1 .. 6 : StartFrom(1)[j] = StartSteps[j]
    <3>1. \A j \in 1 .. 6 : StartSteps[j] \in Steps
      BY StartStepsAre, ElementOfSeq
    <3>2. /\ StartFrom(1) \in Seq(Steps) /\ Len(StartFrom(1)) = 6
          /\ \A j \in 1 .. 6 - 1 + 1 : StartFrom(1)[j] = StartSteps[1 + j - 1]
      BY <3>1, SubSeqProperties DEF StartFrom
    <3>3. \A j \in 1 .. 6 : j \in 1 .. 6 - 1 + 1 /\ 1 + j - 1 = j
      OBVIOUS
    <3> QED BY <3>2, <3>3
  <2>2. StartSteps \in Seq(Steps) /\ Len(StartSteps) = 6
    BY StartStepsAre
  <2>3. StartSteps = StartFrom(1)
    BY <2>1, <2>2, SeqEqual
  <2> QED BY <2>1, <2>3
<1>4. StartSteps \o <<>> = StartSteps /\ <<>> \o <<>> = <<>>
  BY StartStepsAre, NoSteps, ConcatEmptySeq
<1>5. r = IF StartNeeded THEN StartSteps ELSE <<>>
  BY <1>2, <1>4
<1>6. r \in Shapes
  <2>1. StartFrom(1) \in Starting
    BY DEF Starting
  <2>2. StartFrom(1) \in Shapes /\ <<>> \in Shapes
    BY <2>1 DEF Shapes, Turning
  <2> QED BY <1>3, <1>5, <2>2
<1>7. ASSUME Inside(r), PlaceOf(todo) = <<"rest", 0>>
      PROVE  Objects(r[1], camera_on, field, alive, spent.failures)
  <2> DEFINE m == <<"rest", 0>>
  <2>1. StartNeeded /\ r[1] = StartSteps[1] /\ StartSteps[1][1] = "open"
    <3>1. r # <<>>
      BY <1>7 DEF Inside
    <3>2. StartSteps[1] = <<"open", "cam_mgr">>
      BY StartStepsAre
    <3>3. StartSteps[1][1] = "open"
      BY <3>2
    <3> HIDE DEF r
    <3> QED BY <1>5, <3>1, <3>3
  <2>2. ~camera_on /\ Objects(m, camera_on, field, alive, spent.failures)
    BY <1>7, <2>1 DEF StartNeeded, CamSafe
  <2>3. m[1] = "rest"
    OBVIOUS
  <2> HIDE DEF m, r
  <2>4. Opened(m) = {} /\ Closed(m) = {} /\ Opened(StartSteps[1]) = {} /\ Closed(StartSteps[1]) = {}
    BY <2>1, <2>3, Bounds
  <2>5. Sound(StartSteps[1], camera_on, field, alive)
    BY <2>1, <2>2, <2>4 DEF Sound
  <2>6. Objects(StartSteps[1], camera_on, field, alive, spent.failures)
    BY <2>2, <2>4, <2>5, Elsewhere
  <2> QED BY <2>1, <2>6
<1>8. Images'
  <2>1. UNCHANGED <<field, eye_tex, got_new>>
    BY <1>1 DEF Call, objectVars
  <2>2. \/ todo'["render"] = todo["render"]
        \/ todo["render"] \notin {FirstEye, SecondEye, DrawSteps(1)}
    BY <1>1, <1>2, OtherDraws DEF Call, Proceeds, CamTypes, Todos, CamThreads
  <2> QED BY <2>1, <2>2, ImagesStay DEF CamSafe
<1> HIDE DEF r
<1>9. /\ todo' = Becoming(todo, t, r) /\ (overlap' <=> overlap \/ Met(todo')) /\ spent' = spent
      /\ UNCHANGED <<objectVars, fault, stale>>
  BY <1>1 DEF Call, Proceeds, Becoming, Met, r
<1> QED BY <1>2, <1>6, <1>7, <1>8, <1>9, CamCalls

LEMMA CamStops ==
  ASSUME CamTypes, CamSafe, ~overlap, NEW t \in CamThreads, Stop(t)
  PROVE  CamInv'
<1> DEFINE s == todo[t]
           r == (IF camera_on THEN StopSteps ELSE <<>>) \o Tail(s)
<1>1. s \in Shapes /\ Goes(s, "stop") /\ Continues(s)
      /\ Call(t, "stop", camera_on, StopSteps)
  BY EveryContinues DEF Stop, Call, At, Goes, CamTypes, Todos
<1>2. Tail(s) \in Rests /\ ~Inside(s) /\ s # <<>> /\ s[1][1] = "stop"
  BY <1>1 DEF Continues, Goes, Inside
<1>3. StopSteps = StopFrom(1)
  <2>1. /\ StopFrom(1) \in Seq(Steps) /\ Len(StopFrom(1)) = 7
        /\ \A j \in 1 .. 7 : StopFrom(1)[j] = StopSteps[j]
    <3>1. \A j \in 1 .. 7 : StopSteps[j] \in Steps
      BY StopStepsAre, ElementOfSeq
    <3>2. /\ StopFrom(1) \in Seq(Steps) /\ Len(StopFrom(1)) = 7
          /\ \A j \in 1 .. 7 - 1 + 1 : StopFrom(1)[j] = StopSteps[1 + j - 1]
      BY <3>1, SubSeqProperties DEF StopFrom
    <3>3. \A j \in 1 .. 7 : j \in 1 .. 7 - 1 + 1 /\ 1 + j - 1 = j
      OBVIOUS
    <3> QED BY <3>2, <3>3
  <2>2. StopSteps \in Seq(Steps) /\ Len(StopSteps) = 7
    BY StopStepsAre
  <2> QED BY <2>1, <2>2, SeqEqual
<1>4. CASE ~camera_on
  <2>1. r = Tail(s)
    BY <1>2, <1>4, RestsAre, ConcatEmptySeq
  <2>2. r \in Shapes
    BY <1>2, <2>1, RestsAre
  <2>3. ASSUME Inside(r), PlaceOf(todo) = <<"rest", 0>>
        PROVE  Objects(r[1], camera_on, field, alive, spent.failures)
    <3> DEFINE m == <<"rest", 0>>
               l == <<"renew", "object">>
    <3>1. r[1] = l
      BY <1>2, <2>1, <2>3, RestsAre DEF Inside
    <3>2. Objects(m, camera_on, field, alive, spent.failures)
      BY <2>3 DEF CamSafe
    <3>3. m[1] = "rest" /\ l[1] = "renew"
      OBVIOUS
    <3> HIDE DEF m, l, r
    <3>4. Opened(m) = {} /\ Closed(m) = {} /\ Opened(l) = {} /\ Closed(l) = {}
      BY <3>3, Bounds
    <3>5. Sound(l, camera_on, field, alive)
      BY <1>4, <3>3 DEF Sound
    <3>6. Objects(l, camera_on, field, alive, spent.failures)
      BY <3>2, <3>4, <3>5, Elsewhere
    <3> QED BY <3>1, <3>6
  <2>4. Images'
    <3>1. UNCHANGED <<field, eye_tex, got_new>>
      BY <1>1 DEF Call, objectVars
    <3>2. \/ todo'["render"] = todo["render"]
          \/ todo["render"] \notin {FirstEye, SecondEye, DrawSteps(1)}
      BY <1>1, <1>2, OtherDraws DEF Call, Proceeds, CamTypes, Todos, CamThreads
    <3> QED BY <3>1, <3>2, ImagesStay DEF CamSafe
  <2> HIDE DEF r
  <2>5. /\ todo' = Becoming(todo, t, r) /\ (overlap' <=> overlap \/ Met(todo')) /\ spent' = spent
        /\ UNCHANGED <<objectVars, fault, stale>>
    BY <1>1 DEF Call, Proceeds, Becoming, Met, r
  <2> QED BY <1>2, <2>2, <2>3, <2>4, <2>5, CamCalls
<1>5. CASE camera_on
  <2>1. r = StopFrom(1) \o Tail(s)
    BY <1>3, <1>5
  <2>2. r \in Shapes
    <3>1. 1 \in 1 .. 7 /\ (Tail(s) = <<>> \/ Tail(s) = Anew)
      BY <1>2 DEF Rests
    <3>2. r \in Stopping
      BY <2>1, <3>1 DEF Stopping
    <3> QED BY <3>2 DEF Shapes
  <2>3. ASSUME Inside(r), PlaceOf(todo) = <<"rest", 0>>
        PROVE  Objects(r[1], camera_on, field, alive, spent.failures)
    <3> DEFINE m == <<"rest", 0>>
               l == StopSteps[1]
    <3>1. r[1] = l
      <4>1. StopSteps \in Seq(Steps) /\ Len(StopSteps) > 0 /\ Tail(s) \in Seq(Steps)
        <5>1. Len(StopSteps) = 7
          BY StopStepsAre
        <5>2. Len(StopSteps) > 0
          BY <5>1
        <5> QED BY <1>2, <5>2, StopStepsAre, RestsAre
      <4>2. StopSteps \o Tail(s) # <<>> /\ (StopSteps \o Tail(s))[1] = StopSteps[1]
        BY <4>1, Prefixed
      <4> QED BY <1>3, <2>1, <4>2
    <3>2. Objects(m, camera_on, field, alive, spent.failures)
      BY <2>3 DEF CamSafe
    <3>3. m[1] = "rest" /\ l[1] = "close"
      BY StopStepsAre
    <3>4. Opened(m) = {} /\ Closed(m) = {} /\ Opened(l) = {} /\ Closed(l) = {}
      BY <3>3, Bounds
    <3> HIDE DEF m, l, r
    <3>5. Sound(l, camera_on, field, alive)
      BY <1>5, <3>2, <3>3, <3>4 DEF Sound, Objects
    <3>6. Objects(l, camera_on, field, alive, spent.failures)
      BY <3>2, <3>4, <3>5, Elsewhere
    <3> QED BY <3>1, <3>6
  <2>4. Images'
    <3>1. UNCHANGED <<field, eye_tex, got_new>>
      BY <1>1 DEF Call, objectVars
    <3>2. \/ todo'["render"] = todo["render"]
          \/ todo["render"] \notin {FirstEye, SecondEye, DrawSteps(1)}
      BY <1>1, <1>2, OtherDraws DEF Call, Proceeds, CamTypes, Todos, CamThreads
    <3> QED BY <3>1, <3>2, ImagesStay DEF CamSafe
  <2> HIDE DEF r
  <2>5. /\ todo' = Becoming(todo, t, r) /\ (overlap' <=> overlap \/ Met(todo')) /\ spent' = spent
        /\ UNCHANGED <<objectVars, fault, stale>>
    BY <1>1 DEF Call, Proceeds, Becoming, Met, r
  <2> QED BY <1>2, <2>2, <2>3, <2>4, <2>5, CamCalls
<1>6. camera_on \in BOOLEAN
  BY DEF CamTypes
<1> QED BY <1>4, <1>5, <1>6

\* Of the images, what a frame that skips the other eye relies on.
LEMMA NoReader ==
  ASSUME CamTypes, CamSafe, ~(camera_on /\ field["img_reader"] # Null)
  PROVE  field["pending_image"] = Null
<1> DEFINE m == PlaceOf(todo)
<1>1. Objects(m, camera_on, field, alive, spent.failures)
  BY DEF CamSafe
<1> HIDE DEF m
<1>2. CASE ~camera_on
  BY <1>1, <1>2 DEF Objects, Counted
<1>3. CASE camera_on /\ field["img_reader"] = Null
  <2>1. <<"img_reader", Null>> \notin alive
    BY DEF CamTypes
  <2>2. "img_reader" \in Closed(m)
    BY <1>1, <1>3, <2>1 DEF Objects, Sound, Parts
  <2>3. "pending_image" \in Closed(m)
    <3> PICK i \in 1 .. 7, j \in 1 .. 7 : j < i /\ StopSteps[i] = m
      BY <2>2 DEF Closed
    <3>1. 1 < i /\ 1 \in 1 .. 7 /\ StopSteps[1] = <<"close", "pending_image">>
      BY StopStepsAre
    <3> QED BY <3>1 DEF Closed, Fields
  <2>4. m[1] \in {"close", "off"}
    BY <2>3, Bounds
  <2> QED BY <1>1, <2>3, <2>4 DEF Objects, Sound
<1> QED BY <1>2, <1>3 DEF CamTypes

LEMMA CamDraws ==
  ASSUME CamTypes, CamSafe, ~overlap, Draw
  PROVE  CamInv'
<1> DEFINE s == todo["render"]
           on == camera_on /\ field["img_reader"] # Null
<1>1. s \in Shapes /\ Goes(s, "draw") /\ Continues(s) /\ "render" \in CamThreads
  BY EveryContinues DEF Draw, At, Goes, CamTypes, Todos, CamThreads
<1>2. \/ s[1][2] = 0 /\ Tail(s) = SecondEye
      \/ s = SecondEye /\ s[1][2] = 1 /\ Tail(s) = <<>>
  BY <1>1 DEF Continues
<1>3. Call("render", "draw", on, DrawSteps(s[1][2])) /\ ~Inside(s)
  BY <1>1 DEF Draw, Subject, Goes, Inside
<1> DEFINE r == (IF on THEN DrawSteps(s[1][2]) ELSE <<>>) \o Tail(s)
<1>4. /\ todo' = Becoming(todo, "render", r) /\ (overlap' <=> overlap \/ Met(todo'))
      /\ spent' = spent /\ UNCHANGED <<objectVars, fault, stale>>
  BY <1>3 DEF Call, Proceeds, Becoming, Met
<1>5. DrawSteps(1) \in Seq(Steps) /\ DrawSteps(1) # <<>> /\ DrawSteps(1)[1] = <<"upload", 1>>
  <2> DEFINE x == <<"upload", 1>>
  <2>1. x \in Steps /\ DrawSteps(1) = <<x>>
    BY DrawsAre
  <2> HIDE DEF x
  <2>2. <<x>> \in Seq(Steps) /\ <<x>>[1] = x /\ <<x>> # <<>>
    BY <2>1
  <2> QED BY <2>1, <2>2 DEF x
<1>6. /\ s[1][2] = 0 => r = IF on THEN DrawSteps(0) \o SecondEye ELSE SecondEye
      /\ s[1][2] = 1 => r = IF on THEN DrawSteps(1) ELSE <<>>
  <2>1. <<>> \o SecondEye = SecondEye /\ <<>> \o <<>> = <<>> /\ DrawSteps(1) \o <<>> = DrawSteps(1)
    BY <1>5, DrawsAre, NoSteps, ConcatEmptySeq
  <2>2. on => r = DrawSteps(s[1][2]) \o Tail(s)
    OBVIOUS
  <2>3. ~on => r = <<>> \o Tail(s)
    OBVIOUS
  <2>4. s[1][2] = 0 => Tail(s) = SecondEye
    BY <1>2
  <2>5. s[1][2] = 1 => Tail(s) = <<>>
    BY <1>2
  <2> HIDE DEF on, r
  <2>6. s[1][2] = 0 => r = IF on THEN DrawSteps(0) \o SecondEye ELSE SecondEye
    BY <2>1, <2>2, <2>3, <2>4
  <2>7. s[1][2] = 1 => r = IF on THEN DrawSteps(1) ELSE <<>>
    BY <2>1, <2>2, <2>3, <2>5
  <2> QED BY <2>6, <2>7
<1> HIDE DEF r
<1>7. s[1][2] \in {0, 1}
  BY <1>2
<1>8. DrawSteps(0) \o SecondEye \in Shapes /\ SecondEye \in Shapes /\ DrawSteps(1) \in Shapes
      /\ <<>> \in Shapes
  BY DEF Shapes, Drawing, Turning
<1>9. r \in Shapes
  BY <1>6, <1>7, <1>8
<1>10. Inside(r) => on /\ r[1][1] \in {"acquire", "upload"}
  <2>1. <<"draw", 1>>[1] = "draw" /\ <<"acquire", 0>>[1] = "acquire" /\ <<"upload", 1>>[1] = "upload"
    OBVIOUS
  <2>2. SecondEye[1][1] = "draw" /\ (DrawSteps(0) \o SecondEye)[1][1] = "acquire"
        /\ DrawSteps(1)[1][1] = "upload"
    BY <1>5, <2>1, DrawsAre
  <2>3. ~Inside(SecondEye) /\ ~Inside(<<>>)
    BY <2>2 DEF Inside
  <2> QED BY <1>6, <1>7, <2>2, <2>3
<1>11. ASSUME Inside(r), PlaceOf(todo) = <<"rest", 0>>
       PROVE  Objects(r[1], camera_on, field, alive, spent.failures)
  <2> DEFINE m == <<"rest", 0>>
             l == r[1]
  <2>1. l[1] \in {"acquire", "upload"} /\ camera_on
    BY <1>10, <1>11
  <2>2. Objects(m, camera_on, field, alive, spent.failures)
    BY <1>11 DEF CamSafe
  <2>3. m[1] = "rest"
    OBVIOUS
  <2> HIDE DEF m, l
  <2>4. Opened(m) = {} /\ Closed(m) = {} /\ Opened(l) = {} /\ Closed(l) = {}
    BY <2>1, <2>3, Bounds
  <2>5. Sound(l, camera_on, field, alive)
    BY <2>1, <2>2, <2>4 DEF Sound, Objects
  <2>6. Objects(l, camera_on, field, alive, spent.failures)
    BY <2>2, <2>4, <2>5, Elsewhere
  <2> QED BY <2>6 DEF l
<1>12. Images'
  <2>1. UNCHANGED <<field, eye_tex, got_new>> /\ todo'["render"] = r
    BY <1>1, <1>4 DEF objectVars, Becoming, CamTypes, Todos
  <2>2. CASE s[1][2] = 0
    <3>1. FirstEye[1][2] = 0 /\ s # SecondEye
      <4>1. FirstEye[1] = <<"upload", 0>> /\ SecondEye[1] = <<"draw", 1>>
        BY DrawsAre
      <4>2. SecondEye[1][2] = 1
        BY <4>1
      <4> QED BY <2>2, <4>1, <4>2
    <3>2. s \notin {FirstEye, DrawSteps(1)}
      <4>1. FirstEye[1][1] = "upload" /\ DrawSteps(1)[1][1] = "upload"
        <5>1. FirstEye[1] = <<"upload", 0>>
          BY DrawsAre
        <5> QED BY <1>5, <5>1
      <4>2. s[1][1] = "draw"
        BY <1>1 DEF Goes
      <4> QED BY <4>1, <4>2
    <3> QED BY <2>1, <3>1, <3>2, ImagesStay DEF CamSafe
  <2>3. CASE s[1][2] = 1 /\ on
    <3>1. r = DrawSteps(1) /\ s = SecondEye /\ SecondEye # FirstEye
      <4>1. FirstEye[1] = <<"upload", 0>> /\ SecondEye[1] = <<"draw", 1>>
        BY DrawsAre
      <4>2. FirstEye # SecondEye
        BY <4>1
      <4> QED BY <1>2, <1>6, <2>3, <4>2
    <3> QED BY <2>1, <3>1 DEF Images, CamSafe
  <2>4. CASE ~on
    BY <2>1, <2>4, NoReader DEF Images
  <2> QED BY <1>7, <2>2, <2>3, <2>4
<1> QED BY <1>1, <1>3, <1>4, <1>9, <1>11, <1>12, CamCalls

LEMMA CamTests ==
  ASSUME CamTypes, CamSafe, ~overlap, NEW t \in CamThreads, NEW verb \in {"test", "boot"},
         NEW d, NEW x, Call(t, verb, d, x), NEW y \in {"ui", "boot"},
         x \in {<<<<"start", y>>>>, <<<<"stop", "ui">>>>}
  PROVE  CamInv'
<1> DEFINE s == todo[t]
           r == (IF d THEN x ELSE <<>>) \o Tail(s)
<1>1. s \in Shapes /\ Goes(s, verb) /\ Continues(s)
  BY EveryContinues DEF Call, At, Goes, CamTypes, Todos
<1>2. Tail(s) = <<>> /\ ~Inside(s) /\ s # <<>> /\ s[1][1] \in {"test", "boot"}
  BY <1>1 DEF Continues, Goes, Inside
<1>3. x \in Shapes /\ x \in Seq(Steps) /\ x # <<>> /\ x[1][1] \in {"start", "stop"}
  <2>1. <<"start", y>> \in Steps /\ <<"stop", "ui">> \in Steps
    BY DEF Steps
  <2> DEFINE p == <<"start", y>>
             q == <<"stop", "ui">>
  <2>2. p[1] = "start" /\ q[1] = "stop"
    OBVIOUS
  <2>3. <<p>> \in Shapes /\ <<q>> \in Shapes
    BY DEF Shapes, Turning
  <2> HIDE DEF p, q
  <2>4. <<p>>[1] = p /\ <<q>>[1] = q /\ <<p>> # <<>> /\ <<q>> # <<>>
    OBVIOUS
  <2>5. <<p>> \in Seq(Steps) /\ <<q>> \in Seq(Steps)
    BY <2>1 DEF p, q
  <2>6. x = <<p>> \/ x = <<q>>
    BY DEF p, q
  <2> QED BY <2>2, <2>3, <2>4, <2>5, <2>6
<1>4. r = IF d THEN x ELSE <<>>
  BY <1>2, <1>3, NoSteps, ConcatEmptySeq
<1>5. r \in Shapes /\ ~Inside(r)
  <2>1. <<>> \in Shapes
    BY DEF Shapes, Turning
  <2> QED BY <1>3, <1>4, <2>1 DEF Inside
<1>6. /\ todo' = Becoming(todo, t, r) /\ (overlap' <=> overlap \/ Met(todo')) /\ spent' = spent
      /\ UNCHANGED <<objectVars, fault, stale>>
  BY DEF Call, Proceeds, Becoming, Met
<1> HIDE DEF r
<1>7. Images'
  <2>1. UNCHANGED <<field, eye_tex, got_new>>
    BY <1>6 DEF objectVars
  <2>2. \/ todo'["render"] = todo["render"]
        \/ todo["render"] \notin {FirstEye, SecondEye, DrawSteps(1)}
    BY <1>2, <1>6, OtherDraws DEF Becoming, CamTypes, Todos, CamThreads
  <2> QED BY <2>1, <2>2, ImagesStay DEF CamSafe
<1> QED BY <1>2, <1>5, <1>6, <1>7, CamCalls

LEMMA CamKept ==
  ASSUME CamInv, [CameraNext]_cameraVars
  PROVE  CamInv'
<1>1. CASE UNCHANGED cameraVars
  BY <1>1 DEF CamInv, CamTypes, CamSafe, Images, cameraVars, objectVars, loopVars
<1> SUFFICES ASSUME CamTypes, CamSafe, ~overlap, CameraNext PROVE CamInv'
  BY <1>1 DEF CamInv, CameraNext
<1>2. ASSUME NEW t \in CamThreads,
             Start(t) \/ Stop(t) \/ Open(t) \/ OpenFails(t) \/ Switch(t) \/ Close(t)
      PROVE  CamInv'
  BY <1>2, CamStarts, CamStops, CamOpens, CamOpenFails, CamSwitches, CamCloses
<1>3. CASE Renew \/ Acquire \/ Upload \/ Draw
  BY <1>3, CamRenews, CamAcquires, CamUploads, CamDraws
<1>4. "ui" \in CamThreads /\ "render" \in CamThreads
  BY DEF CamThreads
<1>5. CASE Test
  <2>1. \E x \in {<<<<"start", "ui">>>>, <<<<"stop", "ui">>>>} : 
           Call("ui", "test", camera_on # passthrough, x)
    BY <1>5 DEF Test
  <2> QED BY <1>4, <2>1, CamTests
<1>6. CASE Boot
  <2>1. \E x \in {<<<<"start", "boot">>>>, <<<<"stop", "ui">>>>} : 
           Call("render", "boot", passthrough, x)
    BY <1>6 DEF Boot
  <2> QED BY <1>4, <2>1, CamTests
<1>7. spent \in [toggles : Nat, failures : Nat, launches : Nat]
  BY DEF CamTypes
<1>8. CASE nativeSetPassthrough
  <2> DEFINE s == <<<<"test", "ui">>>>
  <2>1. s \in Shapes /\ ~Inside(s)
    BY DEF Shapes, Turning, Inside
  <2>2. spent' \in [toggles : Nat, failures : Nat, launches : Nat]
        /\ spent'.failures = spent.failures
    BY <1>7, <1>8 DEF nativeSetPassthrough
  <2>3. Turns("ui", s)
    BY <1>8 DEF nativeSetPassthrough
  <2> HIDE DEF s
  <2> QED BY <1>4, <2>1, <2>2, <2>3, CamTurns
<1>9. CASE Launch
  <2> DEFINE s == <<<<"stop", "delete">>, <<"renew", "object">>, <<"boot", "render">>>>
  <2>1. s \in Shapes /\ ~Inside(s)
    BY DEF Shapes, Turning, Inside
  <2>2. spent' \in [toggles : Nat, failures : Nat, launches : Nat]
        /\ spent'.failures = spent.failures
    BY <1>7, <1>9 DEF Launch
  <2>3. Turns("render", s)
    BY <1>9 DEF Launch
  <2> HIDE DEF s
  <2> QED BY <1>4, <2>1, <2>2, <2>3, CamTurns
<1>10. CASE SleepOrWake
  <2>1. PICK s \in {<<<<"start", "wake">>>>, <<<<"stop", "sleep">>>>} : Turns("render", s)
    BY <1>10 DEF SleepOrWake
  <2>2. s \in Shapes /\ ~Inside(s)
    BY DEF Shapes, Turning, Inside
  <2>3. spent' = spent
    BY <1>10 DEF SleepOrWake
  <2> QED BY <1>4, <1>7, <2>1, <2>2, <2>3, CamTurns
<1>11. CASE StreamTurns
  <2>1. PICK s \in {<<<<"start", "lobby">>>>, <<<<"stop", "stream">>>>, <<>>} : Turns("render", s)
    BY <1>11 DEF StreamTurns
  <2>2. s \in Shapes /\ ~Inside(s)
    BY DEF Shapes, Turning, Inside
  <2>3. spent' = spent
    BY <1>11 DEF StreamTurns
  <2> QED BY <1>4, <1>7, <2>1, <2>2, <2>3, CamTurns
<1>12. CASE DrawLobby
  <2> DEFINE s == <<<<"draw", 0>>, <<"draw", 1>>>>
  <2>1. s \in Shapes /\ ~Inside(s)
    BY DEF Shapes, Drawing, Inside
  <2>2. spent' = spent /\ Turns("render", s)
    BY <1>12 DEF DrawLobby
  <2> HIDE DEF s
  <2> QED BY <1>4, <1>7, <2>1, <2>2, CamTurns
<1> QED BY <1>2, <1>3, <1>5, <1>6, <1>8, <1>9, <1>10, <1>11, <1>12 DEF CameraNext

LEMMA CamBegins == CameraInit => CamInv
<1> SUFFICES ASSUME CameraInit PROVE CamInv
  OBVIOUS
<1>1. todo = [t \in CamThreads |-> <<>>] /\ <<>> \in Shapes /\ ~Inside(<<>>)
  BY DEF CameraInit, Shapes, Turning, Inside
<1>2. todo \in Todos /\ ~Met(todo) /\ PlaceOf(todo) = <<"rest", 0>>
  BY <1>1 DEF Todos, Met, PlaceOf, CamThreads
<1>3. IsFiniteSet(alive) /\ alive = {} /\ Null \in Nat
  BY FS_EmptySet DEF CameraInit, Null
<1>4. /\ field = [k \in Fields |-> Null] /\ camera_on = FALSE /\ got_new = FALSE
      /\ eye_tex = [e \in {0, 1} |-> Null]
      /\ spent = [toggles |-> 0, failures |-> 0, launches |-> 0]
      /\ ~overlap /\ ~fault /\ ~stale
  BY DEF CameraInit
<1>5. CamTypes
  BY <1>2, <1>3, <1>4 DEF CamTypes
<1>6. Counted(<<"rest", 0>>, camera_on, field, alive, spent.failures)
  <2> DEFINE m == <<"rest", 0>>
  <2>1. \A k \in Parts : LeftBehind(m, camera_on, field, alive, k) = {}
    BY <1>3 DEF LeftBehind
  <2>2. Cardinality({}) = 0
    BY FS_EmptySet
  <2>3. spent.failures = 0
    BY <1>4
  <2>4. \A k \in Parts : Cardinality(LeftBehind(m, camera_on, field, alive, k)) <= 0
    BY <2>1, <2>2
  <2> HIDE DEF m
  <2> QED BY <1>3, <1>4, <2>3, <2>4 DEF Counted, Fields, m
<1>7. Sound(<<"rest", 0>>, camera_on, field, alive)
  BY <1>4 DEF Sound
<1>8. Images
  BY <1>4 DEF Images, Fields
<1> QED BY <1>2, <1>4, <1>5, <1>6, <1>7, <1>8 DEF CamInv, CamSafe, Objects

-----------------------------------------------------------------------------
(* The camera's theorem *)

\* The invariant holds for any number of switches, launches and failed starts.
LEMMA CamInvAlways == CameraSpec => []CamInv
BY CamBegins, CamKept, PTL DEF CameraSpec

\* What the invariant says when nobody is in the camera.
LEMMA CamAtRest ==
  ASSUME CamTypes, CamSafe, \A t \in CamThreads : ~Inside(todo[t])
  PROVE  IF camera_on THEN \A k \in Parts : Held(k) ELSE alive = {} \/ spent.failures > 0
<1> DEFINE m == PlaceOf(todo)
<1>1. m = <<"rest", 0>>
  BY DEF PlaceOf, CamThreads
<1>2. m[1] = "rest"
  BY <1>1
<1>3. Objects(m, camera_on, field, alive, spent.failures)
  BY DEF CamSafe
<1> HIDE DEF m
<1>4. Opened(m) = {} /\ Closed(m) = {}
  BY <1>2, Bounds
<1>5. CASE camera_on
  BY <1>3, <1>4, <1>5 DEF Objects, Sound, Held
<1>6. CASE ~camera_on /\ spent.failures = 0
  <2>1. \A k \in Parts : {o \in alive : o[1] = k} = {}
    <3> TAKE k \in Parts
    <3> DEFINE L == {o \in alive : o[1] = k}
    <3>1. LeftBehind(m, camera_on, field, alive, k) = L
      BY <1>4, <1>6 DEF LeftBehind, InUse
    <3>2. IsFiniteSet(L) /\ Cardinality(L) \in Nat
      BY FS_Subset, FS_CardinalityType DEF CamTypes
    <3>3. Cardinality(L) <= 0
      BY <1>3, <1>6, <3>1 DEF Objects, Counted
    <3> HIDE DEF L
    <3>4. L = {}
      BY <3>2, <3>3, FS_EmptySet
    <3> QED BY <3>4 DEF L
  <2>2. field["pending_image"] = Null /\ \A o \in alive : o[1] = "pending_image" => o[2] = Null
    BY <1>3, <1>6 DEF Objects, Counted
  <2>3. \A o \in alive : o[1] \in Fields /\ o[2] # Null
    BY DEF CamTypes
  <2> QED BY <1>6, <2>1, <2>2, <2>3 DEF Fields
<1>7. spent.failures \in Nat
  BY DEF CamTypes
<1> QED BY <1>5, <1>6, <1>7

\* Whatever two threads start, stop and draw and whichever starts fail, unless
\* they meet in it the camera uses and gives back only what is there, has all of
\* its parts while it is on, draws one image to both eyes, and loses no more of
\* each kind than starts have failed.
THEOREM CameraIsOwned == CameraSpec => []CameraOwned
<1>1. CamInv => CameraOwned
  <2> SUFFICES ASSUME CamInv PROVE CameraOwned
    OBVIOUS
  <2>1. CameraTypeOK
    <3>1. CamTypes
      BY DEF CamInv
    <3>2. camera_on \in BOOLEAN /\ got_new \in BOOLEAN /\ DOMAIN field = Fields
          /\ \A k \in Fields : field[k] \in Nat
      BY <3>1 DEF CamTypes
    <3>3. \A o \in alive : o[1] \in Fields /\ o[2] # Null
      BY <3>1 DEF CamTypes
    <3>4. \A t \in CamThreads : Len(todo[t]) <= Len(StopSteps) + 2
      <4> TAKE t \in CamThreads
      <4>1. Continues(todo[t])
        BY <3>1, EveryContinues DEF CamTypes, Todos
      <4> QED BY <4>1, StopStepsAre DEF Continues
    <3> QED BY <3>2, <3>3, <3>4 DEF CameraTypeOK
  <2>2. CASE overlap
    BY <2>1, <2>2 DEF CameraOwned
  <2>3. CASE CamSafe
    <3> CamTypes
      BY DEF CamInv
    <3> DEFINE m == PlaceOf(todo)
    <3>1. Objects(m, camera_on, field, alive, spent.failures) /\ ~fault /\ ~stale
      BY <2>3 DEF CamSafe
    <3> HIDE DEF m
    <3>2. \A k \in Fields : Cardinality(Lost(k)) <= spent.failures
      <4> TAKE k \in Fields
      <4>1. CASE k = "pending_image"
        <5>1. Lost(k) = {}
          BY <3>1, <4>1 DEF Objects, Counted, Lost
        <5>2. Cardinality({}) = 0 /\ spent.failures \in Nat
          BY FS_EmptySet DEF CamTypes
        <5> QED BY <5>1, <5>2
      <4>2. CASE k \in Parts
        <5> DEFINE L == LeftBehind(m, camera_on, field, alive, k)
        <5>1. Lost(k) \subseteq L
          BY DEF Lost, LeftBehind
        <5>2. L \subseteq alive
          BY DEF LeftBehind
        <5>3. Cardinality(L) <= spent.failures
          BY <3>1, <4>2 DEF Objects, Counted
        <5> HIDE DEF L
        <5>4. IsFiniteSet(L) /\ Cardinality(L) \in Nat
          BY <5>2, FS_Subset, FS_CardinalityType DEF CamTypes
        <5>5. Cardinality(Lost(k)) \in Nat /\ Cardinality(Lost(k)) <= Cardinality(L)
          BY <5>1, <5>4, FS_Subset, FS_CardinalityType
        <5>6. spent.failures \in Nat
          BY DEF CamTypes
        <5> QED BY <5>3, <5>4, <5>5, <5>6
      <4> QED BY <4>1, <4>2 DEF Fields
    <3>3. (\A t \in CamThreads : ~Inside(todo[t])) =>
            IF camera_on THEN \A k \in Parts : Held(k) ELSE alive = {} \/ spent.failures > 0
      BY <2>3, CamAtRest
    <3> QED BY <2>1, <3>1, <3>2, <3>3 DEF CameraOwned
  <2> QED BY <2>2, <2>3 DEF CamInv
<1> QED BY <1>1, CamInvAlways, PTL
=============================================================================
