----------------------------- MODULE SocketsProofs -----------------------------
(***************************************************************************)
(* That the keystream never gets out of step and no datagram is overwritten *)
(* while it is held, for any number of senders, packets and datagrams.      *)
(*                                                                         *)
(* The invariant is about what is under way on the control connection       *)
(* (Stream): what has been read and not delivered, what is on the wire and  *)
(* what the thread that has the lock has yet to write, one after the other. *)
(* It is made of whole packets (Whole packets, one after the other), and    *)
(* its units have the positions of the keystream that follow the one        *)
(* delivered last.  A partial write or read moves a border inside of it.    *)
(***************************************************************************)
EXTENDS Sockets, SequenceTheorems, TLAPS

Unit == [packet : Nat, of : Nat \ {0}, key : Int]

(* What the thread that has the lock has enciphered and not written. *)
Rest == IF tcpMutex # Nobody /\ sender[tcpMutex].enciphered
        THEN sender[tcpMutex].units ELSE <<>>

Stream == (data \o tcpWire) \o Rest

(* The units from f to before e are one whole packet, with others beside it. *)
Run(s, f, e) ==
  /\ s[f].of = e - f
  /\ \A j \in f .. e - 1 : s[j].packet = s[f].packet
  /\ f > 1 => s[f - 1].packet # s[f].packet
  /\ e <= Len(s) => s[e].packet # s[f].packet

(* Every unit is one of a run. *)
WholePackets(s) ==
  \A i \in 1 .. Len(s) : \E f \in 1 .. i, e \in i + 1 .. Len(s) + 1 : Run(s, f, e)

(* No packet is in both. *)
Disjoint(s, u) ==
  \A i \in 1 .. Len(s), j \in 1 .. Len(u) : s[i].packet # u[j].packet

(* Of the first n packets. *)
Among(s, n) == \A i \in 1 .. Len(s) : s[i].packet <= n

(* At the positions of the keystream from k on. *)
Keyed(s, k) == \A i \in 1 .. Len(s) : s[i].key = k + i - 1

ControlTypes ==
  /\ packetsSent \in Nat /\ keystream \in Nat /\ position \in Nat
  /\ tcpMutex \in Senders \union {Nobody}
  /\ sender \in [Senders -> [units : Seq(Unit), enciphered : BOOLEAN]]
  /\ tcpWire \in Seq(Unit) /\ data \in Seq(Unit)

(* Only who has the lock has enciphered; each waits with packets of its own. *)
Apart ==
  /\ \A t \in Senders :
       /\ sender[t].enciphered => tcpMutex = t
       /\ Among(sender[t].units, packetsSent)
       /\ ~sender[t].enciphered => /\ WholePackets(sender[t].units)
                                   /\ Disjoint(Stream, sender[t].units)
  /\ \A t, u \in Senders : t # u => Disjoint(sender[t].units, sender[u].units)

(* What is under way. *)
UnderWay ==
  /\ WholePackets(Stream) /\ Among(Stream, packetsSent)
  /\ Keyed(Stream, position - Len(data))
  /\ keystream = position - Len(data) + Len(Stream)

ControlInv == ControlTypes /\ Apart /\ UnderWay
-----------------------------------------------------------------------------
(* Sequences cut and joined. *)

(* A sequence is its first n elements and the others. *)
LEMMA Cut ==
  ASSUME NEW S, NEW s \in Seq(S), NEW n \in 0 .. Len(s)
  PROVE  /\ SubSeq(s, 1, n) \in Seq(S) /\ Len(SubSeq(s, 1, n)) = n
         /\ \A i \in 1 .. n : SubSeq(s, 1, n)[i] = s[i]
         /\ SubSeq(s, n + 1, Len(s)) \in Seq(S)
         /\ Len(SubSeq(s, n + 1, Len(s))) = Len(s) - n
         /\ \A i \in 1 .. Len(s) - n : SubSeq(s, n + 1, Len(s))[i] = s[n + i]
         /\ SubSeq(s, 1, n) \o SubSeq(s, n + 1, Len(s)) = s
<1>0. Len(s) \in Nat /\ n \in Nat /\ \A i \in 1 .. Len(s) : s[i] \in S
  BY LenProperties, ElementOfSeq
<1>1. /\ SubSeq(s, 1, n) \in Seq(S) /\ Len(SubSeq(s, 1, n)) = n
      /\ \A i \in 1 .. n : SubSeq(s, 1, n)[i] = s[i]
  BY <1>0, SubSeqProperties
<1>2. /\ SubSeq(s, n + 1, Len(s)) \in Seq(S)
      /\ Len(SubSeq(s, n + 1, Len(s))) = Len(s) - n
      /\ \A i \in 1 .. Len(s) - n : SubSeq(s, n + 1, Len(s))[i] = s[n + i]
  <2>1. \A i \in n + 1 .. Len(s) : s[i] \in S
    BY <1>0
  <2>2. n + 1 \in Int /\ Len(s) \in Int
    BY <1>0
  <2> QED
    BY <1>0, <2>1, <2>2, SubSeqProperties
<1>3. SubSeq(s, 1, n) \o SubSeq(s, n + 1, Len(s)) = s
  <2>1. 1 \in 1 .. Len(s) + 1 /\ n \in 1 - 1 .. Len(s) /\ Len(s) \in n .. Len(s)
    BY <1>0
  <2> QED
    BY <2>1, ConcatAdjacentSubSeq, SubSeqFull
<1> QED
  BY <1>1, <1>2, <1>3

(* The first n elements of a sequence that is followed by another one are   *)
(* dropped from both or from the first.                                     *)
LEMMA DropOfConcat ==
  ASSUME NEW S, NEW s \in Seq(S), NEW u \in Seq(S), NEW n \in 0 .. Len(s)
  PROVE  SubSeq(s, n + 1, Len(s)) \o u = SubSeq(s \o u, n + 1, Len(s \o u))
<1> DEFINE a == SubSeq(s, n + 1, Len(s)) \o u
           b == SubSeq(s \o u, n + 1, Len(s \o u))
<1>1. Len(s) \in Nat /\ Len(u) \in Nat /\ n \in Nat
  BY LenProperties
<1>2. /\ s \o u \in Seq(S) /\ Len(s \o u) = Len(s) + Len(u)
      /\ \A i \in 1 .. Len(s) + Len(u) : (s \o u)[i] = IF i <= Len(s) THEN s[i] ELSE u[i - Len(s)]
  BY ConcatProperties
<1>3. n \in 0 .. Len(s \o u)
  BY <1>1, <1>2
<1>4. /\ b \in Seq(S) /\ Len(b) = Len(s) + Len(u) - n
      /\ \A i \in 1 .. Len(s) + Len(u) - n : b[i] = (s \o u)[n + i]
  BY <1>2, <1>3, Cut
<1>5. /\ SubSeq(s, n + 1, Len(s)) \in Seq(S) /\ Len(SubSeq(s, n + 1, Len(s))) = Len(s) - n
      /\ \A i \in 1 .. Len(s) - n : SubSeq(s, n + 1, Len(s))[i] = s[n + i]
  BY Cut
<1> DEFINE c == SubSeq(s, n + 1, Len(s))
<1> HIDE DEF c
<1>6. /\ a \in Seq(S) /\ Len(a) = Len(s) - n + Len(u)
      /\ \A i \in 1 .. Len(s) - n + Len(u) :
           a[i] = IF i <= Len(s) - n THEN SubSeq(s, n + 1, Len(s))[i] ELSE u[i - (Len(s) - n)]
  <2>1. c \in Seq(S) /\ Len(c) = Len(s) - n
    BY <1>5 DEF c
  <2>2. /\ c \o u \in Seq(S) /\ Len(c \o u) = Len(s) - n + Len(u)
        /\ \A i \in 1 .. Len(s) - n + Len(u) :
             (c \o u)[i] = IF i <= Len(s) - n THEN c[i] ELSE u[i - (Len(s) - n)]
    <3>1. /\ c \o u \in Seq(S) /\ Len(c \o u) = Len(c) + Len(u)
          /\ \A i \in 1 .. Len(c) + Len(u) :
               (c \o u)[i] = IF i <= Len(c) THEN c[i] ELSE u[i - Len(c)]
      BY <2>1, ConcatProperties
    <3> QED
      BY <2>1, <3>1
  <2> QED
    BY <2>2 DEF c
<1>7. ASSUME NEW i \in 1 .. Len(a) PROVE a[i] = b[i]
  <2>1. i \in Int /\ i >= 1 /\ i <= Len(s) + Len(u) - n
    BY <1>1, <1>6
  <2>2. b[i] = IF n + i <= Len(s) THEN s[n + i] ELSE u[n + i - Len(s)]
    BY <1>1, <1>2, <1>4, <2>1
  <2>3. a[i] = IF i <= Len(s) - n THEN s[n + i] ELSE u[i - (Len(s) - n)]
    BY <1>1, <1>5, <1>6, <2>1
  <2>4. n + i - Len(s) = i - (Len(s) - n)
    BY <1>1, <2>1
  <2> QED
    BY <1>1, <2>1, <2>2, <2>3, <2>4
<1>8. Len(a) = Len(b)
  BY <1>1, <1>4, <1>6
<1> HIDE DEF a, b
<1>9. a = b
  BY <1>4, <1>6, <1>7, <1>8, SeqEqual
<1> QED
  BY <1>9 DEF a, b

(* The border between two sequences is moved.  (Cat is \o by a name that the *)
(* provers do not look behind.)                                             *)
Cat(s, u) == s \o u
Units == Seq(Unit)

LEMMA CatAssociative ==
  \A d, w, a \in Units : Cat(Cat(d, w), a) = Cat(d, Cat(w, a)) /\ Cat(d, w) \in Units
<1> SUFFICES ASSUME NEW d \in Units, NEW w \in Units, NEW a \in Units
             PROVE  Cat(Cat(d, w), a) = Cat(d, Cat(w, a)) /\ Cat(d, w) \in Units
  OBVIOUS
<1>1. (d \o w) \o a = d \o (w \o a)
  BY ConcatAssociative DEF Units
<1>2. d \o w \in Seq(Unit)
  BY ConcatProperties DEF Units
<1> QED
  BY <1>1, <1>2 DEF Cat, Units

LEMMA MoveBorder ==
  \A d, w, a, b \in Units : Cat(Cat(d, Cat(w, a)), b) = Cat(Cat(d, w), Cat(a, b))
BY CatAssociative

LEMMA FlattenOne == ASSUME NEW a PROVE FlattenSeq(<<a>>) = a
<1> DEFINE F(f) == f = [i \in 1 .. Len(<<a>>) |-> IF i = 1 THEN <<a>>[i]
                                                  ELSE f[i - 1] \o <<a>>[i]]
           g == [i \in 1 .. 1 |-> a]
<1>1. F(g)
  OBVIOUS
<1>2. F(CHOOSE f : F(f))
  BY <1>1
<1> QED
  BY <1>2 DEF FlattenSeq

LEMMA FlattenTwo == ASSUME NEW a, NEW b PROVE FlattenSeq(<<a, b>>) = a \o b
<1> DEFINE F(f) == f = [i \in 1 .. Len(<<a, b>>) |-> IF i = 1 THEN <<a, b>>[i]
                                                     ELSE f[i - 1] \o <<a, b>>[i]]
           g == [i \in 1 .. 2 |-> IF i = 1 THEN a ELSE a \o b]
<1>1. F(g)
  OBVIOUS
<1>2. F(CHOOSE f : F(f))
  BY <1>1
<1> DEFINE h == CHOOSE f : F(f)
           c(i) == h[i - 1] \o <<a, b>>[i]
<1>3. FlattenSeq(<<a, b>>) = h[2]
  BY DEF FlattenSeq
<1>4. h = [i \in 1 .. Len(<<a, b>>) |-> IF i = 1 THEN <<a, b>>[i] ELSE c(i)]
  BY <1>2, Zenon
<1> HIDE DEF h
<1>5. c(2) = h[1] \o b
  OBVIOUS
<1> HIDE DEF c
<1>6. h[1] = a /\ h[2] = c(2)
  BY <1>4
<1> QED
  BY <1>3, <1>5, <1>6
-----------------------------------------------------------------------------
(* Whole packets, one after the other. *)

LEMMA UnitFields ==
  ASSUME NEW s \in Seq(Unit), NEW i \in 1 .. Len(s)
  PROVE  s[i] \in Unit /\ s[i].packet \in Nat /\ s[i].of \in Nat \ {0} /\ s[i].key \in Int
<1>1. s[i] \in Unit
  BY ElementOfSeq
<1> QED
  BY <1>1 DEF Unit

(* Packets that nothing else is a part of may be put behind others. *)
LEMMA WholeAppend ==
  ASSUME NEW s \in Seq(Unit), NEW u \in Seq(Unit),
         WholePackets(s), WholePackets(u), Disjoint(s, u)
  PROVE  WholePackets(s \o u)
<1> DEFINE w == s \o u
           n == Len(s)
           m == Len(u)
<1>1. n \in Nat /\ m \in Nat
  BY LenProperties
<1>2. /\ w \in Seq(Unit) /\ Len(w) = n + m
      /\ \A i \in 1 .. n + m : w[i] = IF i <= n THEN s[i] ELSE u[i - n]
  BY ConcatProperties
<1>3. \A i \in 1 .. n : \E f \in 1 .. i, e \in i + 1 .. n + 1 : Run(s, f, e)
  BY DEF WholePackets
<1>4. \A i \in 1 .. m : \E f \in 1 .. i, e \in i + 1 .. m + 1 : Run(u, f, e)
  BY DEF WholePackets
<1>5. \A i \in 1 .. n, j \in 1 .. m : s[i].packet # u[j].packet
  BY DEF Disjoint
<1> SUFFICES ASSUME NEW i \in 1 .. n + m
             PROVE  \E f \in 1 .. i, e \in i + 1 .. n + m + 1 : Run(w, f, e)
  BY <1>2 DEF WholePackets
<1> HIDE DEF w, n, m
<1>6. \A j \in 1 .. n : w[j] = s[j]
  BY <1>1, <1>2
<1>7. ASSUME NEW j \in 1 .. m PROVE w[n + j] = u[j]
  <2>1. PICK k \in 1 .. n + m : k = n + j
    BY <1>1
  <2>2. ~(k <= n) /\ k - n = j
    BY <1>1, <2>1
  <2>3. w[k] = u[k - n]
    BY <1>2, <2>2
  <2> QED
    BY <2>1, <2>2, <2>3
<1>8. CASE i <= n
  <2>0. i \in 1 .. n
    BY <1>1, <1>8
  <2>1. PICK f \in 1 .. i, e \in i + 1 .. n + 1 : Run(s, f, e)
    BY <1>3, <2>0
  <2>2. /\ s[f].of = e - f
        /\ \A j \in f .. e - 1 : s[j].packet = s[f].packet
        /\ f > 1 => s[f - 1].packet # s[f].packet
        /\ e <= n => s[e].packet # s[f].packet
    BY <2>1 DEF Run, n
  <2>3. w[f] = s[f] /\ f \in 1 .. n
    BY <1>1, <1>6, <1>8
  <2>4. ASSUME NEW j \in f .. e - 1 PROVE w[j].packet = w[f].packet
    <3>1. j \in 1 .. n
      BY <1>1
    <3> QED
      BY <1>6, <2>2, <2>3, <3>1
  <2>5. f > 1 => w[f - 1].packet # w[f].packet
    BY <1>1, <1>6, <2>2, <2>3
  <2>6. CASE e <= n
    <3>1. w[e].packet # w[f].packet
      BY <1>1, <1>6, <2>2, <2>3, <2>6
    <3> QED
      BY <1>1, <2>2, <2>3, <2>4, <2>5, <3>1 DEF Run
  <2>7. CASE e = n + 1
    <3>1. e <= n + m => 1 \in 1 .. m /\ w[e] = u[1]
      BY <1>1, <1>7, <2>7
    <3>2. e <= Len(w) => w[e].packet # w[f].packet
      BY <1>2, <1>5, <2>3, <3>1
    <3> QED
      BY <1>1, <2>2, <2>3, <2>4, <2>5, <3>2 DEF Run
  <2> QED
    BY <1>1, <2>6, <2>7
<1>9. CASE ~(i <= n)
  <2>1. i - n \in 1 .. m
    BY <1>1, <1>9
  <2>2. PICK g \in 1 .. i - n, d \in i - n + 1 .. m + 1 : Run(u, g, d)
    BY <1>4, <2>1
  <2>3. /\ u[g].of = d - g
        /\ \A j \in g .. d - 1 : u[j].packet = u[g].packet
        /\ g > 1 => u[g - 1].packet # u[g].packet
        /\ d <= m => u[d].packet # u[g].packet
    BY <2>2 DEF Run, m
  <2>4. PICK f \in 1 .. i, e \in i + 1 .. n + m + 1 : f = n + g /\ e = n + d
    BY <1>1, <2>1
  <2>5. w[f] = u[g] /\ g \in 1 .. m
    BY <1>1, <1>7, <2>1, <2>4
  <2>6. ASSUME NEW j \in f .. e - 1 PROVE w[j].packet = w[f].packet
    <3>1. j - n \in g .. d - 1 /\ j - n \in 1 .. m /\ n + (j - n) = j
      BY <1>1, <2>1, <2>4
    <3>2. w[j] = u[j - n]
      BY <1>7, <3>1
    <3> QED
      BY <2>3, <2>5, <3>1, <3>2
  <2>7. ASSUME g = 1, f > 1 PROVE w[f - 1].packet # w[f].packet
    <3>1. f - 1 \in 1 .. n /\ w[f - 1] = s[f - 1]
      BY <1>1, <1>6, <2>4, <2>7
    <3> QED
      BY <1>5, <2>5, <3>1
  <2>8. f > 1 => w[f - 1].packet # w[f].packet
    <3>1. CASE g > 1
      <4>1. g - 1 \in 1 .. m /\ n + (g - 1) = f - 1
        BY <1>1, <2>1, <2>4, <3>1
      <4>2. w[f - 1] = u[g - 1]
        BY <1>7, <4>1
      <4> QED
        BY <2>3, <2>5, <3>1, <4>2
    <3> QED
      BY <2>7, <3>1
  <2>9. e <= Len(w) => w[e].packet # w[f].packet
    <3>1. e <= Len(w) => d \in 1 .. m /\ w[e] = u[d]
      BY <1>1, <1>2, <1>7, <2>1, <2>4
    <3> QED
      BY <1>1, <2>3, <2>5, <3>1
  <2>10. w[f].of = e - f
    BY <1>1, <2>3, <2>4, <2>5
  <2> QED
    BY <2>6, <2>8, <2>9, <2>10 DEF Run
<1> QED
  BY <1>8, <1>9

(* The first packet is there to its end. *)
LEMMA WholeFirst ==
  ASSUME NEW s \in Seq(Unit), WholePackets(s), s # <<>>
  PROVE  s[1].of \in 1 .. Len(s) /\ Run(s, 1, s[1].of + 1)
<1>1. 1 \in 1 .. Len(s) /\ Len(s) \in Nat
  BY EmptySeq, LenProperties
<1>2. PICK f \in 1 .. 1, e \in 1 + 1 .. Len(s) + 1 : Run(s, f, e)
  BY <1>1 DEF WholePackets
<1>3. f = 1 /\ s[1].of = e - 1
  BY <1>2 DEF Run
<1>4. e = s[1].of + 1 /\ s[1].of \in 1 .. Len(s)
  BY <1>1, <1>3
<1> QED
  BY <1>2, <1>3, <1>4

(* Without it, the others are still whole. *)
LEMMA WholeDrop ==
  ASSUME NEW s \in Seq(Unit), WholePackets(s), s # <<>>
  PROVE  WholePackets(SubSeq(s, s[1].of + 1, Len(s)))
<1> DEFINE n == s[1].of
           w == SubSeq(s, n + 1, Len(s))
<1>1. Len(s) \in Nat /\ n \in 1 .. Len(s) /\ Run(s, 1, n + 1)
  BY WholeFirst, LenProperties
<1> HIDE DEF n
<1>2. n \in 0 .. Len(s)
  BY <1>1
<1>3. /\ w \in Seq(Unit) /\ Len(w) = Len(s) - n
      /\ \A i \in 1 .. Len(s) - n : w[i] = s[n + i]
  BY <1>2, Cut
<1> SUFFICES ASSUME NEW i \in 1 .. Len(w)
             PROVE  \E f \in 1 .. i, e \in i + 1 .. Len(w) + 1 : Run(w, f, e)
  BY DEF WholePackets, n
<1> HIDE DEF w
<1>4. n + i \in 1 .. Len(s)
  BY <1>1, <1>3
<1>5. PICK g \in 1 .. n + i, d \in n + i + 1 .. Len(s) + 1 : Run(s, g, d)
  BY <1>4 DEF WholePackets
<1>6. /\ s[g].of = d - g
      /\ \A j \in g .. d - 1 : s[j].packet = s[g].packet
      /\ g > 1 => s[g - 1].packet # s[g].packet
      /\ d <= Len(s) => s[d].packet # s[g].packet
  BY <1>5 DEF Run
<1>7. ASSUME g <= n PROVE FALSE
  <2>1. n \in g .. d - 1 /\ n + 1 \in g .. d - 1 /\ n + 1 <= Len(s) /\ n \in 1 .. n + 1 - 1
    BY <1>1, <1>4, <1>7
  <2>2. s[n].packet = s[g].packet /\ s[n + 1].packet = s[g].packet
    BY <1>6, <2>1
  <2>3. s[n].packet = s[1].packet /\ s[n + 1].packet # s[1].packet
    BY <1>1, <2>1 DEF Run
  <2> QED
    BY <2>2, <2>3
<1>8. PICK f \in 1 .. i, e \in i + 1 .. Len(w) + 1 : g = n + f /\ d = n + e
  <2>1. g - n \in 1 .. i /\ d - n \in i + 1 .. Len(w) + 1
    BY <1>1, <1>3, <1>4, <1>7
  <2>2. g = n + (g - n) /\ d = n + (d - n)
    BY <1>1
  <2> QED
    BY <2>1, <2>2
<1>9. w[f] = s[g]
  BY <1>1, <1>3, <1>8
<1>10. ASSUME NEW j \in f .. e - 1 PROVE w[j].packet = w[f].packet
  <2>1. n + j \in g .. d - 1 /\ j \in 1 .. Len(s) - n
    BY <1>1, <1>3, <1>8
  <2> QED
    BY <1>3, <1>6, <1>9, <2>1
<1>11. f > 1 => w[f - 1].packet # w[f].packet
  <2>1. f > 1 => f - 1 \in 1 .. Len(s) - n /\ n + (f - 1) = g - 1 /\ g > 1
    BY <1>1, <1>3, <1>8
  <2> QED
    BY <1>3, <1>6, <1>9, <2>1
<1>12. e <= Len(w) => w[e].packet # w[f].packet
  <2>1. e <= Len(w) => e \in 1 .. Len(s) - n /\ d <= Len(s)
    BY <1>1, <1>3, <1>8
  <2> QED
    BY <1>3, <1>6, <1>8, <1>9, <2>1
<1>13. w[f].of = e - f
  BY <1>1, <1>6, <1>8, <1>9
<1> QED
  BY <1>10, <1>11, <1>12, <1>13 DEF Run

(* Whether packets are whole is not a matter of the keys. *)
LEMMA WholeAnyKeys ==
  ASSUME NEW s \in Seq(Unit), NEW u \in Seq(Unit), Len(s) = Len(u), WholePackets(s),
         \A i \in 1 .. Len(s) : u[i].packet = s[i].packet /\ u[i].of = s[i].of
  PROVE  WholePackets(u)
<1>0. Len(s) \in Nat
  BY LenProperties
<1> SUFFICES ASSUME NEW i \in 1 .. Len(s)
             PROVE  \E f \in 1 .. i, e \in i + 1 .. Len(s) + 1 : Run(u, f, e)
  BY DEF WholePackets
<1>1. PICK f \in 1 .. i, e \in i + 1 .. Len(s) + 1 : Run(s, f, e)
  BY DEF WholePackets
<1>2. /\ s[f].of = e - f
      /\ \A j \in f .. e - 1 : s[j].packet = s[f].packet
      /\ f > 1 => s[f - 1].packet # s[f].packet
      /\ e <= Len(s) => s[e].packet # s[f].packet
  BY <1>1 DEF Run
<1>3. f \in 1 .. Len(s) /\ (f > 1 => f - 1 \in 1 .. Len(s)) /\ (e <= Len(s) => e \in 1 .. Len(s))
  BY <1>0
<1>4. \A j \in f .. e - 1 : u[j].packet = u[f].packet
  <2>1. \A j \in f .. e - 1 : j \in 1 .. Len(s)
    BY <1>0
  <2> QED
    BY <1>2, <1>3, <2>1
<1> QED
  BY <1>2, <1>3, <1>4, SMTT(30) DEF Run
-----------------------------------------------------------------------------
(* The control connection. *)

LEMMA StreamType ==
  ASSUME ControlTypes
  PROVE  /\ Rest \in Seq(Unit) /\ Stream \in Seq(Unit)
         /\ data \o tcpWire \in Seq(Unit) /\ Len(data \o tcpWire) = Len(data) + Len(tcpWire)
         /\ Len(Stream) = Len(data) + Len(tcpWire) + Len(Rest)
         /\ \A i \in 1 .. Len(data) : Stream[i] = data[i]
         /\ \A i \in 1 .. Len(tcpWire) : Stream[Len(data) + i] = tcpWire[i]
<1>1. Rest \in Seq(Unit)
  BY EmptySeq DEF ControlTypes, Rest
<1>2. data \in Seq(Unit) /\ tcpWire \in Seq(Unit)
  BY DEF ControlTypes
<1> DEFINE d == data \o tcpWire
           n == Len(data)
           m == Len(tcpWire)
<1>3. /\ d \in Seq(Unit) /\ Len(d) = n + m
      /\ \A i \in 1 .. n + m : d[i] = IF i <= n THEN data[i] ELSE tcpWire[i - n]
  BY <1>2, ConcatProperties
<1>4. /\ Stream \in Seq(Unit) /\ Len(Stream) = Len(d) + Len(Rest)
      /\ \A i \in 1 .. Len(d) + Len(Rest) :
           Stream[i] = IF i <= Len(d) THEN d[i] ELSE Rest[i - Len(d)]
  BY <1>1, <1>3, ConcatProperties DEF Stream
<1>5. n \in Nat /\ m \in Nat /\ Len(Rest) \in Nat
  BY <1>1, <1>2, LenProperties
<1> HIDE DEF d, n, m
<1>6. \A i \in 1 .. n + m : Stream[i] = d[i]
  BY <1>3, <1>4, <1>5
<1>7. \A i \in 1 .. n : Stream[i] = data[i]
  BY <1>3, <1>5, <1>6
<1>8. ASSUME NEW i \in 1 .. m PROVE Stream[n + i] = tcpWire[i]
  <2>1. PICK k \in 1 .. n + m : k = n + i
    BY <1>5
  <2>2. ~(k <= n) /\ k - n = i
    BY <1>5, <2>1
  <2>3. d[k] = tcpWire[k - n]
    BY <1>3, <2>2
  <2> QED
    BY <1>6, <2>1, <2>2, <2>3
<1> QED
  BY <1>1, <1>3, <1>4, <1>7, <1>8 DEF d, n, m

LEMMA ControlInit == SocketsInit => ControlInv
<1> SUFFICES ASSUME SocketsInit PROVE ControlInv
  OBVIOUS
<1>1. ControlTypes
  <2>1. Quiet \in [units : Seq(Unit), enciphered : BOOLEAN]
    BY EmptySeq DEF Quiet
  <2> QED
    BY <2>1, EmptySeq DEF SocketsInit, ControlTypes
<1>2. Stream = <<>>
  <2>1. Rest = <<>>
    BY DEF SocketsInit, Rest
  <2> QED
    BY <2>1, EmptySeq, ConcatEmptySeq DEF SocketsInit, Stream
<1>3. Len(<<>>) = 0 /\ WholePackets(<<>>)
  BY DEF WholePackets
<1>4. UnderWay
  BY <1>2, <1>3 DEF SocketsInit, UnderWay, Among, Keyed
<1>5. Apart
  <2>1. \A t \in Senders : sender[t].units = <<>> /\ ~sender[t].enciphered
    BY DEF SocketsInit, Quiet
  <2> QED
    BY <1>3, <2>1 DEF Apart, Among, Disjoint
<1> QED
  BY <1>1, <1>4, <1>5 DEF ControlInv

(* A packet as it is given to send. *)
LEMMA OnePacket ==
  ASSUME NEW n \in Nat \ {0}, NEW p \in Nat
  PROVE  LET u == [i \in 1 .. n |-> [packet |-> p, of |-> n, key |-> -1]]
         IN  /\ u \in Seq(Unit) /\ Len(u) = n /\ WholePackets(u)
             /\ \A i \in 1 .. n : u[i].packet = p
<1> DEFINE u == [i \in 1 .. n |-> [packet |-> p, of |-> n, key |-> -1]]
<1>1. [packet |-> p, of |-> n, key |-> -1] \in Unit
  BY DEF Unit
<1>2. u \in [1 .. n -> Unit]
  BY <1>1
<1>3. u \in Seq(Unit) /\ Len(u) = n
  BY <1>2
<1>4. \A i \in 1 .. n : u[i].packet = p /\ u[i].of = n
  OBVIOUS
<1> HIDE DEF u
<1>5. Run(u, 1, n + 1)
  BY <1>3, <1>4 DEF Run
<1>6. WholePackets(u)
  BY <1>3, <1>5 DEF WholePackets
<1> QED
  BY <1>3, <1>4, <1>6 DEF u

(* What SendPackets gives a thread to write. *)
LEMMA NewUnits ==
  ASSUME ControlTypes, NEW t \in Senders, NEW lengths \in Lengths, SendPackets(t, lengths)
  PROVE  \E w \in Seq(Unit) :
           /\ sender' = [sender EXCEPT ![t].units = w] /\ WholePackets(w)
           /\ \A i \in 1 .. Len(w) : w[i].packet > packetsSent /\ w[i].packet <= packetsSent'
<1> DEFINE u(k) == [i \in 1 .. lengths[k] |->
                      [packet |-> packetsSent + k, of |-> lengths[k], key |-> -1]]
<1>1. packetsSent \in Nat
  BY DEF ControlTypes
<1>2. CASE \E n \in 2 .. MaxUnits : lengths = <<n>>
  <2>1. /\ lengths[1] \in Nat \ {0} /\ Len(lengths) = 1 /\ DOMAIN lengths = {1}
        /\ packetsSent + 1 \in Nat
    BY <1>1, <1>2
  <2>2. /\ u(1) \in Seq(Unit) /\ Len(u(1)) = lengths[1] /\ WholePackets(u(1))
        /\ \A i \in 1 .. lengths[1] : u(1)[i].packet = packetsSent + 1
    BY <2>1, OnePacket
  <2> HIDE DEF u
  <2>3. [k \in DOMAIN lengths |-> u(k)] = <<u(1)>>
    BY <2>1
  <2>4. sender' = [sender EXCEPT ![t].units = u(1)]
    BY <2>3, FlattenOne DEF SendPackets, u
  <2>5. packetsSent' = packetsSent + 1
    BY <2>1 DEF SendPackets
  <2> DEFINE w == u(1)
  <2>6. \A i \in 1 .. Len(w) : w[i].packet > packetsSent /\ w[i].packet <= packetsSent'
    BY <1>1, <2>2, <2>5
  <2>7. w \in Seq(Unit) /\ sender' = [sender EXCEPT ![t].units = w] /\ WholePackets(w)
    BY <2>2, <2>4
  <2> HIDE DEF w
  <2> QED
    BY <2>6, <2>7
<1>3. CASE \E m, n \in 2 .. MaxUnits : lengths = <<m, n>>
  <2>1. /\ lengths[1] \in Nat \ {0} /\ lengths[2] \in Nat \ {0} /\ Len(lengths) = 2
        /\ DOMAIN lengths = 1 .. 2 /\ packetsSent + 1 \in Nat /\ packetsSent + 2 \in Nat
    BY <1>1, <1>3
  <2>2. /\ u(1) \in Seq(Unit) /\ Len(u(1)) = lengths[1] /\ WholePackets(u(1))
        /\ \A i \in 1 .. lengths[1] : u(1)[i].packet = packetsSent + 1
    BY <2>1, OnePacket
  <2>3. /\ u(2) \in Seq(Unit) /\ Len(u(2)) = lengths[2] /\ WholePackets(u(2))
        /\ \A i \in 1 .. lengths[2] : u(2)[i].packet = packetsSent + 2
    BY <2>1, OnePacket
  <2> HIDE DEF u
  <2> DEFINE w == u(1) \o u(2)
  <2>4. /\ w \in Seq(Unit) /\ Len(w) = Len(u(1)) + Len(u(2))
        /\ \A i \in 1 .. Len(u(1)) + Len(u(2)) :
             w[i] = IF i <= Len(u(1)) THEN u(1)[i] ELSE u(2)[i - Len(u(1))]
    BY <2>2, <2>3, ConcatProperties
  <2>5. Disjoint(u(1), u(2))
    BY <1>1, <2>2, <2>3 DEF Disjoint
  <2>6. WholePackets(w)
    BY <2>2, <2>3, <2>5, WholeAppend
  <2>7. [k \in DOMAIN lengths |-> u(k)] = <<u(1), u(2)>>
    BY <2>1
  <2>8. sender' = [sender EXCEPT ![t].units = w]
    BY <2>7, FlattenTwo DEF SendPackets, u
  <2>9. packetsSent' = packetsSent + 2
    BY <2>1 DEF SendPackets
  <2> HIDE DEF w
  <2>10. ASSUME NEW i \in 1 .. Len(w)
         PROVE  w[i].packet > packetsSent /\ w[i].packet <= packetsSent'
    <3>1. w[i].packet \in {packetsSent + 1, packetsSent + 2}
      <4>1. CASE i <= Len(u(1))
        BY <2>1, <2>2, <2>4, <4>1
      <4>2. CASE ~(i <= Len(u(1)))
        <5>1. i - Len(u(1)) \in 1 .. lengths[2]
          BY <2>1, <2>2, <2>3, <2>4, <4>2
        <5> QED
          BY <2>3, <2>4, <4>2, <5>1
      <4> QED
        BY <4>1, <4>2
    <3> QED
      BY <1>1, <2>9, <3>1
  <2> QED
    BY <2>4, <2>6, <2>8, <2>10
<1> QED
  BY <1>2, <1>3 DEF Lengths

LEMMA SendKeeps ==
  ASSUME ControlInv, NEW t \in Senders, NEW lengths \in Lengths, SendPackets(t, lengths)
  PROVE  ControlInv'
<1>0. ControlTypes /\ Apart /\ UnderWay
  BY DEF ControlInv
<1>1. PICK w \in Seq(Unit) :
        /\ sender' = [sender EXCEPT ![t].units = w] /\ WholePackets(w)
        /\ \A i \in 1 .. Len(w) : w[i].packet > packetsSent /\ w[i].packet <= packetsSent'
  BY <1>0, NewUnits
<1>2. /\ sender[t] = Quiet
      /\ UNCHANGED <<tcpMutex, keystream, tcpWire, data, position>>
  BY DEF SendPackets
<1>3. packetsSent \in Nat /\ packetsSent' \in Nat /\ packetsSent' >= packetsSent
  <2>1. Len(lengths) \in Nat
    BY DEF Lengths
  <2> QED
    BY <1>0, <2>1 DEF SendPackets, ControlTypes
<1>4. /\ ~sender[t].enciphered /\ sender'[t].units = w /\ ~sender'[t].enciphered
      /\ \A u \in Senders : u # t => sender'[u] = sender[u]
  <2>1. sender \in [Senders -> [units : Seq(Unit), enciphered : BOOLEAN]]
    BY <1>0 DEF ControlTypes
  <2>2. ~sender[t].enciphered
    BY <1>2 DEF Quiet
  <2>3. sender'[t] = [sender[t] EXCEPT !.units = w]
    BY <1>1, <2>1
  <2>4. sender[t] \in [units : Seq(Unit), enciphered : BOOLEAN]
    BY <2>1
  <2>5. sender'[t].units = w /\ sender'[t].enciphered = sender[t].enciphered
    BY <2>3, <2>4
  <2>6. \A u \in Senders : u # t => sender'[u] = sender[u]
    BY <1>1, <2>1
  <2> QED
    BY <2>2, <2>5, <2>6
<1>5. Stream' = Stream /\ Stream \in Seq(Unit)
  <2>1. Rest' = Rest
    <3>1. CASE tcpMutex = t
      BY <1>2, <1>4, <3>1 DEF Rest
    <3>2. CASE tcpMutex # t
      BY <1>0, <1>2, <1>4, <3>2 DEF Rest, ControlTypes
    <3> QED
      BY <3>1, <3>2
  <2> QED
    BY <1>0, <1>2, <2>1, StreamType DEF Stream
<1>6. ControlTypes'
  <2>1. sender' \in [Senders -> [units : Seq(Unit), enciphered : BOOLEAN]]
    BY <1>0, <1>1 DEF ControlTypes
  <2> QED
    BY <1>0, <1>2, <1>3, <2>1 DEF ControlTypes
<1>7. \A s \in Seq(Unit) : Among(s, packetsSent) => Among(s, packetsSent')
  BY <1>3, UnitFields DEF Among
<1>8. UnderWay'
  BY <1>0, <1>2, <1>5, <1>7 DEF UnderWay
<1>9. \A s \in Seq(Unit) : Among(s, packetsSent) => Disjoint(s, w) /\ Disjoint(w, s)
  <2> SUFFICES ASSUME NEW s \in Seq(Unit), Among(s, packetsSent),
                      NEW i \in 1 .. Len(s), NEW j \in 1 .. Len(w)
               PROVE  s[i].packet # w[j].packet
    BY DEF Disjoint
  <2> QED
    BY <1>1, <1>3, UnitFields DEF Among
<1>10. Apart'
  <2>1. \A u \in Senders : sender[u].units \in Seq(Unit)
    BY <1>0 DEF ControlTypes
  <2>2. ASSUME NEW u \in Senders
        PROVE  /\ sender'[u].enciphered => tcpMutex' = u
               /\ Among(sender'[u].units, packetsSent')
               /\ ~sender'[u].enciphered => /\ WholePackets(sender'[u].units)
                                            /\ Disjoint(Stream', sender'[u].units)
    <3>1. CASE u = t
      BY <1>0, <1>1, <1>4, <1>5, <1>9, <3>1 DEF Among, UnderWay
    <3>2. CASE u # t
      BY <1>0, <1>2, <1>4, <1>5, <1>7, <2>1, <3>2 DEF Apart
    <3> QED
      BY <3>1, <3>2
  <2>3. ASSUME NEW u \in Senders, NEW v \in Senders, u # v
        PROVE  Disjoint(sender'[u].units, sender'[v].units)
    <3>1. Among(sender[u].units, packetsSent) /\ Among(sender[v].units, packetsSent)
      BY <1>0 DEF Apart
    <3>2. CASE u = t
      BY <1>4, <1>9, <2>1, <2>3, <3>1, <3>2
    <3>3. CASE v = t
      BY <1>4, <1>9, <2>1, <2>3, <3>1, <3>3
    <3>4. CASE u # t /\ v # t
      BY <1>0, <1>4, <2>3, <3>4 DEF Apart
    <3> QED
      BY <3>2, <3>3, <3>4
  <2> QED
    BY <2>2, <2>3 DEF Apart
<1> QED
  BY <1>6, <1>8, <1>10 DEF ControlInv

LEMMA LockKeeps ==
  ASSUME ControlInv, NEW t \in Senders, Lock(t)
  PROVE  ControlInv'
<1>0. ControlTypes /\ Apart /\ UnderWay
  BY DEF ControlInv
<1>1. /\ tcpMutex = Nobody /\ tcpMutex' = t
      /\ UNCHANGED <<packetsSent, sender, keystream, tcpWire, data, position>>
  BY DEF Lock
<1>2. \A u \in Senders : ~sender[u].enciphered
  BY <1>0, <1>1, SocketsAssumption DEF Apart
<1>3. Stream' = Stream
  BY <1>1, <1>2 DEF Stream, Rest
<1>4. ControlTypes'
  BY <1>0, <1>1 DEF ControlTypes
<1>5. UnderWay'
  BY <1>0, <1>1, <1>3 DEF UnderWay
<1>6. Apart'
  BY <1>0, <1>1, <1>2, <1>3 DEF Apart
<1> QED
  BY <1>4, <1>5, <1>6 DEF ControlInv

LEMMA EncipherKeeps ==
  ASSUME ControlInv, NEW t \in Senders, Encipher(t)
  PROVE  ControlInv'
<1>0. ControlTypes /\ Apart /\ UnderWay
  BY DEF ControlInv
<1> DEFINE u == sender[t].units
           w == [i \in DOMAIN u |-> [u[i] EXCEPT !.key = keystream + i - 1]]
<1>1. /\ tcpMutex = t /\ ~sender[t].enciphered
      /\ sender' = [sender EXCEPT ![t] = [units |-> w, enciphered |-> TRUE]]
      /\ keystream' = keystream + Len(u)
      /\ UNCHANGED <<packetsSent, tcpMutex, tcpWire, data, position>>
  BY DEF Encipher, MayEncipher
<1>2. u \in Seq(Unit) /\ Len(u) \in Nat /\ DOMAIN u = 1 .. Len(u) /\ keystream \in Nat
  BY <1>0, LenProperties DEF ControlTypes
<1>3. /\ w \in Seq(Unit) /\ Len(w) = Len(u)
      /\ \A i \in 1 .. Len(u) : /\ w[i].packet = u[i].packet /\ w[i].of = u[i].of
                                /\ w[i].key = keystream + i - 1
  <2>1. ASSUME NEW i \in 1 .. Len(u)
        PROVE  /\ [u[i] EXCEPT !.key = keystream + i - 1] \in Unit
               /\ [u[i] EXCEPT !.key = keystream + i - 1].packet = u[i].packet
               /\ [u[i] EXCEPT !.key = keystream + i - 1].of = u[i].of
               /\ [u[i] EXCEPT !.key = keystream + i - 1].key = keystream + i - 1
    <3>1. u[i] \in Unit /\ keystream + i - 1 \in Int
      BY <1>2, UnitFields
    <3> HIDE DEF u
    <3> QED
      BY <3>1 DEF Unit
  <2>2. w \in [1 .. Len(u) -> Unit]
    BY <1>2, <2>1
  <2> QED
    BY <1>2, <2>1, <2>2
<1>4. /\ sender'[t].units = w /\ sender'[t].enciphered
      /\ \A v \in Senders : v # t => sender'[v] = sender[v]
      /\ sender' \in [Senders -> [units : Seq(Unit), enciphered : BOOLEAN]]
  <2>1. sender \in [Senders -> [units : Seq(Unit), enciphered : BOOLEAN]]
    BY <1>0 DEF ControlTypes
  <2> HIDE DEF w
  <2> QED
    BY <1>1, <1>3, <2>1
<1> HIDE DEF w
<1>5. Stream' = Stream \o w /\ Stream \in Seq(Unit)
  <2>1. Rest = <<>>
    BY <1>1 DEF Rest
  <2>2. Rest' = w
    BY <1>1, <1>4, SocketsAssumption DEF Rest
  <2>3. data \o tcpWire \in Seq(Unit)
    BY <1>0, StreamType
  <2> QED
    BY <1>0, <1>1, <2>1, <2>2, <2>3, ConcatEmptySeq, StreamType DEF Stream
<1>6. /\ Stream' \in Seq(Unit) /\ Len(Stream') = Len(Stream) + Len(w)
      /\ \A i \in 1 .. Len(Stream) + Len(w) :
           Stream'[i] = IF i <= Len(Stream) THEN Stream[i] ELSE w[i - Len(Stream)]
      /\ Len(Stream) \in Nat
  <2>1. Stream \in Seq(Unit) /\ w \in Seq(Unit)
    BY <1>3, <1>5
  <2>2. /\ Stream \o w \in Seq(Unit) /\ Len(Stream \o w) = Len(Stream) + Len(w)
        /\ \A i \in 1 .. Len(Stream) + Len(w) :
             (Stream \o w)[i] = IF i <= Len(Stream) THEN Stream[i] ELSE w[i - Len(Stream)]
    BY ONLY <2>1, ConcatProperties
  <2>3. Len(Stream) \in Nat
    BY ONLY <2>1, LenProperties
  <2> QED
    BY <1>5, <2>2, <2>3
<1>7. /\ WholePackets(u) /\ Among(u, packetsSent)
      /\ Disjoint(Stream, u)
      /\ \A v \in Senders : v # t => Disjoint(u, sender[v].units) /\ Disjoint(sender[v].units, u)
  BY <1>0, <1>1 DEF Apart
<1>8. /\ WholePackets(w) /\ Among(w, packetsSent)
      /\ Disjoint(Stream, w)
      /\ \A v \in Senders : v # t => Disjoint(w, sender[v].units) /\ Disjoint(sender[v].units, w)
  <2>1. WholePackets(w)
    BY <1>2, <1>3, <1>7, WholeAnyKeys
  <2>2. Among(w, packetsSent) /\ Disjoint(Stream, w)
    BY <1>3, <1>7 DEF Among, Disjoint
  <2>3. \A v \in Senders : v # t => Disjoint(w, sender[v].units) /\ Disjoint(sender[v].units, w)
    BY <1>3, <1>7 DEF Disjoint
  <2> QED
    BY <2>1, <2>2, <2>3
<1>9. ControlTypes'
  BY <1>0, <1>1, <1>2, <1>4 DEF ControlTypes
<1>10. UnderWay'
  <2>1. WholePackets(Stream')
    BY <1>0, <1>3, <1>5, <1>8, WholeAppend DEF UnderWay
  <2>2. /\ Among(Stream, packetsSent) /\ Keyed(Stream, position - Len(data))
        /\ keystream = position - Len(data) + Len(Stream)
    BY <1>0 DEF UnderWay
  <2>3. data \in Seq(Unit) /\ Len(data) \in Nat /\ position \in Nat
    BY <1>0, LenProperties DEF ControlTypes
  <2>4. ASSUME NEW i \in 1 .. Len(Stream')
        PROVE  /\ Stream'[i].packet <= packetsSent
               /\ Stream'[i].key = position - Len(data) + i - 1
    <3>1. CASE i <= Len(Stream)
      <4>1. i \in 1 .. Len(Stream) /\ Stream'[i] = Stream[i]
        BY <1>2, <1>3, <1>6, <3>1
      <4> QED
        BY <2>2, <4>1 DEF Among, Keyed
    <3>2. CASE ~(i <= Len(Stream))
      <4>1. PICK j \in 1 .. Len(w) : i = Len(Stream) + j
        <5>1. i - Len(Stream) \in 1 .. Len(w) /\ i = Len(Stream) + (i - Len(Stream))
          BY <1>2, <1>3, <1>6, <3>2
        <5> QED
          BY <5>1
      <4>2. Stream'[i] = w[j]
        <5>1. i - Len(Stream) = j
          BY <1>2, <1>3, <1>6, <4>1
        <5>2. Stream'[i] = w[i - Len(Stream)]
          BY <1>6, <3>2
        <5> QED
          BY <5>1, <5>2
      <4>3. w[j].packet <= packetsSent /\ w[j].key = keystream + j - 1
        BY <1>3, <1>8, <4>1 DEF Among
      <4>4. keystream + j - 1 = position - Len(data) + i - 1
        BY <1>2, <1>3, <1>6, <2>2, <2>3, <4>1
      <4> QED
        BY <4>2, <4>3, <4>4
    <3> QED
      BY <3>1, <3>2
  <2>5. keystream' = position - Len(data) + Len(Stream')
    <3>1. Len(Stream') = Len(Stream) + Len(u) /\ keystream' = keystream + Len(u)
      BY <1>1, <1>3, <1>6
    <3>2. keystream = position - Len(data) + Len(Stream)
      BY <2>2
    <3>3. Len(Stream) \in Nat /\ Len(u) \in Nat
      BY <1>2, <1>6
    <3> HIDE DEF u
    <3> QED
      BY <2>3, <3>1, <3>2, <3>3
  <2> QED
    BY <1>1, <2>1, <2>4, <2>5 DEF UnderWay, Among, Keyed
<1>11. Apart'
  <2>1. ASSUME NEW v \in Senders, v # t PROVE Disjoint(Stream', sender[v].units)
    <3> SUFFICES ASSUME NEW i \in 1 .. Len(Stream'), NEW j \in 1 .. Len(sender[v].units),
                        ~sender[v].enciphered
                 PROVE  Stream'[i].packet # sender[v].units[j].packet
      BY <1>0, <1>1, <2>1 DEF Apart, Disjoint
    <3>1. CASE i <= Len(Stream)
      <4>1. i \in 1 .. Len(Stream) /\ Stream'[i] = Stream[i]
        BY <1>2, <1>3, <1>6, <3>1
      <4> QED
        BY <1>0, <4>1 DEF Apart, Disjoint
    <3>2. CASE ~(i <= Len(Stream))
      <4>1. i - Len(Stream) \in 1 .. Len(w) /\ Stream'[i] = w[i - Len(Stream)]
        BY <1>2, <1>3, <1>6, <3>2
      <4> QED
        BY <1>8, <2>1, <4>1 DEF Disjoint
    <3> QED
      BY <3>1, <3>2
  <2>2. ASSUME NEW v \in Senders
        PROVE  /\ sender'[v].enciphered => tcpMutex' = v
               /\ Among(sender'[v].units, packetsSent')
               /\ ~sender'[v].enciphered => /\ WholePackets(sender'[v].units)
                                            /\ Disjoint(Stream', sender'[v].units)
    <3>1. CASE v = t
      BY <1>1, <1>4, <1>8, <3>1
    <3>2. CASE v # t
      BY <1>0, <1>1, <1>4, <2>1, <3>2 DEF Apart
    <3> QED
      BY <3>1, <3>2
  <2>3. ASSUME NEW v \in Senders, NEW x \in Senders, v # x
        PROVE  Disjoint(sender'[v].units, sender'[x].units)
    BY <1>0, <1>4, <1>8, <2>3 DEF Apart
  <2> QED
    BY <2>2, <2>3 DEF Apart
<1> QED
  BY <1>9, <1>10, <1>11 DEF ControlInv

LEMMA WriteKeeps ==
  ASSUME ControlInv, NEW t \in Senders, NEW n, Write(t, n)
  PROVE  ControlInv'
<1>0. ControlTypes /\ Apart /\ UnderWay
  BY DEF ControlInv
<1> DEFINE u == sender[t].units
           a == SubSeq(u, 1, n)
           b == SubSeq(u, n + 1, Len(u))
<1>1. /\ tcpMutex = t /\ sender[t].enciphered /\ n \in 1 .. Len(u)
      /\ tcpWire' = tcpWire \o a
      /\ UNCHANGED <<packetsSent, keystream, data, position>>
  BY DEF Write
<1>2. u \in Seq(Unit) /\ Len(u) \in Nat /\ n \in 0 .. Len(u) /\ n \in Nat
  BY <1>0, <1>1, LenProperties DEF ControlTypes
<1>3. /\ a \in Seq(Unit) /\ b \in Seq(Unit) /\ a \o b = u
      /\ Len(b) = Len(u) - n /\ \A i \in 1 .. Len(u) - n : b[i] = u[n + i]
  <2> HIDE DEF u
  <2> QED
    BY ONLY <1>2, Cut
<1>4. data \in Seq(Unit) /\ tcpWire \in Seq(Unit) /\ tcpWire' \in Seq(Unit)
      /\ data \o tcpWire \in Seq(Unit)
  BY <1>0, <1>1, <1>3, ConcatProperties DEF ControlTypes
<1>5. sender \in [Senders -> [units : Seq(Unit), enciphered : BOOLEAN]]
  BY <1>0 DEF ControlTypes
<1>6. Rest = u
  BY <1>1, SocketsAssumption DEF Rest
<1>7. (data \o tcpWire') \o b = Stream
  <2> HIDE DEF a, b, u
  <2>1. /\ data \in Seq(Unit) /\ tcpWire \in Seq(Unit)
        /\ a \in Seq(Unit) /\ b \in Seq(Unit)
    BY <1>3, <1>4
  <2>2. {data, tcpWire, a, b} \subseteq Units
    BY <2>1 DEF Units
  <2>3. Cat(Cat(data, Cat(tcpWire, a)), b) = Cat(Cat(data, tcpWire), Cat(a, b))
    BY <2>2, MoveBorder
  <2>4. tcpWire' = Cat(tcpWire, a) /\ Rest = Cat(a, b)
    BY <1>1, <1>3, <1>6 DEF Cat
  <2>5. Cat(Cat(data, tcpWire'), b) = Cat(Cat(data, tcpWire), Rest)
    BY <2>3, <2>4
  <2> QED
    BY <2>5 DEF Stream, Cat
<1>8. /\ Rest' = b /\ Len(sender'[t].units) = Len(b)
      /\ \A i \in 1 .. Len(b) : sender'[t].units[i] = b[i]
      /\ sender'[t].enciphered => tcpMutex' = t
      /\ ~sender'[t].enciphered => sender'[t].units = <<>>
      /\ \A v \in Senders : v # t => sender'[v] = sender[v]
      /\ sender' \in [Senders -> [units : Seq(Unit), enciphered : BOOLEAN]]
      /\ tcpMutex' \in Senders \union {Nobody}
  <2>1. CASE n = Len(u)
    <3>1. sender' = [sender EXCEPT ![t] = Quiet] /\ tcpMutex' = Nobody
      BY <2>1 DEF Write
    <3>2. b = <<>>
      BY <1>2, <1>3, <2>1, EmptySeq
    <3>3. Quiet \in [units : Seq(Unit), enciphered : BOOLEAN]
      BY EmptySeq DEF Quiet
    <3>4. sender'[t] = Quiet
      BY <1>5, <3>1
    <3> HIDE DEF b, a, u
    <3>5. Rest' = <<>>
      BY <3>1 DEF Rest
    <3> QED
      BY <1>5, <3>1, <3>2, <3>3, <3>4, <3>5 DEF Quiet
  <2>2. CASE n # Len(u)
    <3>1. sender' = [sender EXCEPT ![t].units = b] /\ tcpMutex' = tcpMutex
      BY <2>2 DEF Write
    <3> HIDE DEF b, a, u
    <3>2. sender'[t].units = b /\ sender'[t].enciphered
      BY <1>1, <1>5, <3>1
    <3>3. Rest' = b
      BY <1>1, <3>1, <3>2, SocketsAssumption DEF Rest
    <3>4. /\ \A v \in Senders : v # t => sender'[v] = sender[v]
          /\ sender' \in [Senders -> [units : Seq(Unit), enciphered : BOOLEAN]]
      BY <1>3, <1>5, <3>1
    <3> QED
      BY <1>1, <3>1, <3>2, <3>3, <3>4
  <2> QED
    BY <2>1, <2>2
<1>9. Stream' = Stream
  BY <1>1, <1>7, <1>8 DEF Stream
<1>10. ControlTypes'
  BY <1>0, <1>1, <1>4, <1>8 DEF ControlTypes
<1>11. UnderWay'
  BY <1>0, <1>1, <1>9 DEF UnderWay
<1>12. \A i \in 1 .. Len(sender'[t].units) :
         \E j \in 1 .. Len(u) : sender'[t].units[i] = u[j]
  <2> SUFFICES ASSUME NEW i \in 1 .. Len(b) PROVE \E j \in 1 .. Len(u) : b[i] = u[j]
    BY <1>8
  <2> HIDE DEF b, u
  <2>1. n + i \in 1 .. Len(u) /\ b[i] = u[n + i]
    BY <1>2, <1>3
  <2> QED
    BY <2>1
<1> HIDE DEF a, b
<1>13. Apart'
  <2>1. /\ Among(u, packetsSent)
        /\ \A v \in Senders : v # t => Disjoint(u, sender[v].units) /\ Disjoint(sender[v].units, u)
    BY <1>0 DEF Apart
  <2> HIDE DEF u
  <2>2. /\ Among(sender'[t].units, packetsSent)
        /\ \A v \in Senders : v # t => /\ Disjoint(sender'[t].units, sender[v].units)
                                       /\ Disjoint(sender[v].units, sender'[t].units)
    <3>1. \A i \in 1 .. Len(sender'[t].units) : sender'[t].units[i].packet <= packetsSent
      BY <1>12, <2>1 DEF Among
    <3>2. ASSUME NEW v \in Senders, v # t, NEW i \in 1 .. Len(sender'[t].units),
                 NEW k \in 1 .. Len(sender[v].units)
          PROVE  sender'[t].units[i].packet # sender[v].units[k].packet
      <4>1. PICK j \in 1 .. Len(u) : sender'[t].units[i] = u[j]
        BY <1>12
      <4> QED
        BY <2>1, <3>2, <4>1 DEF Disjoint
    <3> QED
      BY <3>1, <3>2 DEF Among, Disjoint
  <2>3. ASSUME NEW v \in Senders
        PROVE  /\ sender'[v].enciphered => tcpMutex' = v
               /\ Among(sender'[v].units, packetsSent')
               /\ ~sender'[v].enciphered => /\ WholePackets(sender'[v].units)
                                            /\ Disjoint(Stream', sender'[v].units)
    <3>1. CASE v = t
      <4>1. Len(<<>>) = 0
        OBVIOUS
      <4>2. WholePackets(<<>>) /\ Disjoint(Stream', <<>>)
        BY <4>1 DEF WholePackets, Disjoint
      <4> QED
        BY <1>1, <1>8, <2>2, <3>1, <4>2
    <3>2. CASE v # t
      <4>1. ~sender[v].enciphered
        BY <1>0, <1>1, <3>2 DEF Apart
      <4> QED
        BY <1>0, <1>1, <1>8, <1>9, <3>2, <4>1 DEF Apart
    <3> QED
      BY <3>1, <3>2
  <2>4. ASSUME NEW v \in Senders, NEW x \in Senders, v # x
        PROVE  Disjoint(sender'[v].units, sender'[x].units)
    BY <1>0, <1>8, <2>2, <2>4 DEF Apart
  <2> QED
    BY <2>3, <2>4 DEF Apart
<1> QED
  BY <1>10, <1>11, <1>13 DEF ControlInv

(* What is read and not delivered is units; of them the first packet is      *)
(* delivered when it is whole.                                              *)
LEMMA DeliverKeeps ==
  ASSUME ControlInv, NEW units \in Seq(Unit), NEW wire \in Seq(Unit),
         (units \o wire) \o Rest = Stream,
         position' - Len(units) = position - Len(data), position' \in Nat,
         Deliver(units), tcpWire' = wire,
         UNCHANGED <<packetsSent, sender, tcpMutex, keystream>>
  PROVE  ControlInv'
<1>0. ControlTypes /\ Apart /\ UnderWay
  BY DEF ControlInv
<1>1. Rest' = Rest
  BY DEF Rest
<1>2. Rest \in Seq(Unit) /\ Stream \in Seq(Unit) /\ Len(Stream) \in Nat /\ Len(units) \in Nat
  BY <1>0, StreamType, LenProperties
<1> DEFINE uw == units \o wire
<1>3. /\ uw \in Seq(Unit) /\ Len(uw) = Len(units) + Len(wire)
      /\ \A i \in 1 .. Len(units) + Len(wire) :
           uw[i] = IF i <= Len(units) THEN units[i] ELSE wire[i - Len(units)]
      /\ Len(wire) \in Nat /\ Len(Rest) \in Nat
  BY <1>2, ConcatProperties, LenProperties
<1> HIDE DEF uw
<1>4. /\ Len(Stream) = Len(uw) + Len(Rest)
      /\ \A i \in 1 .. Len(uw) + Len(Rest) :
           Stream[i] = IF i <= Len(uw) THEN uw[i] ELSE Rest[i - Len(uw)]
  <2>1. Stream = uw \o Rest
    BY DEF uw
  <2>2. /\ Len(uw \o Rest) = Len(uw) + Len(Rest)
        /\ \A i \in 1 .. Len(uw) + Len(Rest) :
             (uw \o Rest)[i] = IF i <= Len(uw) THEN uw[i] ELSE Rest[i - Len(uw)]
    <3>1. uw \in Seq(Unit) /\ Rest \in Seq(Unit)
      BY <1>2, <1>3
    <3> QED
      BY ONLY <3>1, ConcatProperties
  <2> QED
    BY <2>1, <2>2
<1>5. PICK k \in 0 .. Len(units) :
        /\ data' \in Seq(Unit) /\ Len(data') = Len(units) - k
        /\ Stream' \in Seq(Unit) /\ Len(Stream') = Len(Stream) - k
        /\ WholePackets(Stream')
        /\ \A i \in 1 .. Len(Stream) - k : Stream'[i] = Stream[k + i]
  <2>1. CASE Whole(units)
    <3> DEFINE k == units[1].of
    <3>1. 1 \in 1 .. Len(units) /\ units[1].of \in Nat \ {0}
      <4>1. Len(units) >= 1
        BY <1>2, <2>1, EmptySeq DEF Whole
      <4>2. 1 \in 1 .. Len(units)
        BY <1>2, <4>1
      <4> QED
        BY <4>2, UnitFields
    <3>2. k \in 1 .. Len(units) /\ k \in 0 .. Len(units)
      BY <1>2, <2>1, <3>1 DEF Whole
    <3>3. data' = SubSeq(units, k + 1, Len(units))
      BY <2>1 DEF Deliver
    <3>4. Stream # <<>> /\ Stream[1] = units[1]
      <4>1. 1 \in 1 .. Len(uw) + Len(Rest) /\ 1 <= Len(uw)
        BY <1>2, <1>3, <3>1
      <4>2. Stream[1] = uw[1] /\ uw[1] = units[1] /\ Len(Stream) >= 1
        BY <1>2, <1>3, <1>4, <3>1, <4>1
      <4> QED
        BY <1>2, <4>2, EmptySeq
    <3>5. /\ data' \in Seq(Unit) /\ Len(data') = Len(units) - k
      BY <3>2, <3>3, Cut, SMTT(30)
    <3> HIDE DEF k
    <3>6. k \in 0 .. Len(uw) /\ k \in 0 .. Len(Stream)
      BY <1>2, <1>3, <1>4, <3>2
    <3>7. data' \o wire = SubSeq(uw, k + 1, Len(uw))
      BY <3>2, <3>3, DropOfConcat DEF uw
    <3>8. Stream' = SubSeq(Stream, k + 1, Len(Stream))
      <4>1. SubSeq(uw, k + 1, Len(uw)) \o Rest = SubSeq(uw \o Rest, k + 1, Len(uw \o Rest))
        BY <1>2, <1>3, <3>6, DropOfConcat
      <4>2. Stream = uw \o Rest
        BY DEF uw
      <4>3. Stream' = (data' \o wire) \o Rest
        BY <1>1 DEF Stream
      <4> QED
        BY <3>7, <4>1, <4>2, <4>3
    <3>9. /\ Stream' \in Seq(Unit) /\ Len(Stream') = Len(Stream) - k
          /\ \A i \in 1 .. Len(Stream) - k : Stream'[i] = Stream[k + i]
      BY <1>2, <3>6, <3>8, Cut
    <3>10. WholePackets(Stream')
      BY <1>0, <1>2, <3>4, <3>8, WholeDrop DEF UnderWay, k
    <3> QED
      BY <3>2, <3>5, <3>9, <3>10
  <2>2. CASE ~Whole(units)
    <3>1. data' = units
      BY <2>2 DEF Deliver
    <3>2. Stream' = Stream
      BY <1>1, <3>1 DEF Stream
    <3>3. 0 \in 0 .. Len(units) /\ Len(Stream) - 0 = Len(Stream) /\ Len(units) - 0 = Len(units)
      BY <1>2
    <3>4. \A i \in 1 .. Len(Stream) - 0 : Stream'[i] = Stream[0 + i]
      BY <1>2, <3>2
    <3> QED
      BY <1>0, <1>2, <3>1, <3>2, <3>3, <3>4 DEF UnderWay
  <2> QED
    BY <2>1, <2>2
<1>6. \A i \in 1 .. Len(Stream') : k + i \in 1 .. Len(Stream) /\ Stream'[i] = Stream[k + i]
  BY <1>2, <1>5
<1>7. ControlTypes'
  BY <1>0, <1>5 DEF ControlTypes
<1>8. UnderWay'
  <2>1. /\ Among(Stream, packetsSent) /\ Keyed(Stream, position - Len(data))
        /\ keystream = position - Len(data) + Len(Stream)
    BY <1>0 DEF UnderWay
  <2>2. position \in Nat /\ Len(data) \in Nat
    BY <1>0, LenProperties DEF ControlTypes
  <2>3. position' - Len(data') = position - Len(data) + k
    <3>1. Len(data') = Len(units) - k /\ k \in Nat
      BY <1>2, <1>5
    <3>2. Len(units) \in Nat /\ position' - Len(units) = position - Len(data)
      BY <1>2
    <3> QED
      BY <2>2, <3>1, <3>2
  <2>4. Among(Stream', packetsSent')
    BY <1>6, <2>1 DEF Among
  <2>5. Keyed(Stream', position' - Len(data'))
    <3> SUFFICES ASSUME NEW i \in 1 .. Len(Stream')
                 PROVE  Stream'[i].key = position' - Len(data') + i - 1
      BY DEF Keyed
    <3>1. Stream'[i].key = position - Len(data) + (k + i) - 1
      BY <1>6, <2>1 DEF Keyed
    <3>2. position - Len(data) + (k + i) - 1 = position' - Len(data') + i - 1
      BY <1>2, <1>5, <2>2, <2>3
    <3> QED
      BY <3>1, <3>2
  <2>6. keystream' = position' - Len(data') + Len(Stream')
    BY <1>2, <1>5, <2>1, <2>2, <2>3
  <2> QED
    BY <1>5, <2>4, <2>5, <2>6 DEF UnderWay
<1>9. Apart'
  <2>1. ASSUME NEW t \in Senders, Disjoint(Stream, sender[t].units)
        PROVE  Disjoint(Stream', sender[t].units)
    <3> SUFFICES ASSUME NEW i \in 1 .. Len(Stream'), NEW j \in 1 .. Len(sender[t].units)
                 PROVE  Stream'[i].packet # sender[t].units[j].packet
      BY DEF Disjoint
    <3>1. k + i \in 1 .. Len(Stream) /\ Stream'[i] = Stream[k + i]
      BY <1>6
    <3> QED
      BY ONLY <2>1, <3>1 DEF Disjoint
  <2> QED
    BY <1>0, <2>1 DEF Apart
<1> QED
  BY <1>7, <1>8, <1>9 DEF ControlInv

LEMMA DrainControlKeeps == ControlInv /\ DrainControl => ControlInv'
<1> SUFFICES ASSUME ControlInv, DrainControl PROVE ControlInv'
  OBVIOUS
<1>1. /\ Deliver(data)
      /\ UNCHANGED <<packetsSent, sender, tcpMutex, keystream, tcpWire, position>>
  BY DEF DrainControl
<1>2. data \in Seq(Unit) /\ tcpWire \in Seq(Unit) /\ position \in Nat
  BY DEF ControlInv, ControlTypes
<1>3. (data \o tcpWire) \o Rest = Stream
  BY DEF Stream
<1>4. position' - Len(data) = position - Len(data) /\ position' \in Nat /\ tcpWire' = tcpWire
  BY <1>1, <1>2
<1> QED
  BY <1>1, <1>2, <1>3, <1>4, DeliverKeeps

LEMMA ReceiveControlKeeps ==
  ASSUME ControlInv, NEW n, ReceiveControl(n)
  PROVE  ControlInv'
<1> DEFINE a == SubSeq(tcpWire, 1, n)
           b == SubSeq(tcpWire, n + 1, Len(tcpWire))
           units == data \o a
<1>1. /\ n \in 1 .. Len(tcpWire) /\ Deliver(units)
      /\ tcpWire' = b /\ position' = position + n
      /\ UNCHANGED <<packetsSent, sender, tcpMutex, keystream>>
  BY DEF ReceiveControl
<1>2. data \in Seq(Unit) /\ tcpWire \in Seq(Unit) /\ position \in Nat /\ Rest \in Seq(Unit)
  BY StreamType DEF ControlInv, ControlTypes
<1>3. n \in 0 .. Len(tcpWire) /\ Len(tcpWire) \in Nat /\ Len(data) \in Nat
  BY <1>1, <1>2, LenProperties
<1>4. a \in Seq(Unit) /\ b \in Seq(Unit) /\ a \o b = tcpWire /\ Len(a) = n
  BY <1>2, <1>3, Cut
<1> HIDE DEF a, b
<1>5. units \in Seq(Unit) /\ Len(units) = Len(data) + n
  BY <1>2, <1>4, ConcatProperties
<1>6. (units \o b) \o Rest = Stream
  <2>1. {data, a, b} \subseteq Units
    BY <1>2, <1>4 DEF Units
  <2>2. Cat(Cat(data, a), b) = Cat(data, Cat(a, b))
    BY <2>1, CatAssociative
  <2> QED
    BY <1>4, <2>2 DEF Cat, Stream
<1>7. position' - Len(units) = position - Len(data) /\ position' \in Nat
  BY <1>1, <1>2, <1>3, <1>5
<1> HIDE DEF units
<1> QED
  BY <1>1, <1>4, <1>5, <1>6, <1>7, DeliverKeeps

(* Everything else leaves the control connection alone. *)
LEMMA ControlStays ==
  ASSUME ControlInv, UNCHANGED tcpVars
  PROVE  ControlInv'
<1>1. UNCHANGED <<packetsSent, sender, tcpMutex, keystream, tcpWire, data, position>>
  BY DEF tcpVars
<1>2. Stream' = Stream
  BY <1>1 DEF Stream, Rest
<1> QED
  BY <1>1, <1>2 DEF ControlInv, ControlTypes, Apart, UnderWay

LEMMA NextKeepsControl == ControlInv /\ [SocketsNext]_socketsVars => ControlInv'
<1> SUFFICES ASSUME ControlInv, [SocketsNext]_socketsVars PROVE ControlInv'
  OBVIOUS
<1>1. ASSUME NEW t \in Senders, Sends(t) PROVE ControlInv'
  <2>1. CASE Lock(t)
    BY <2>1, LockKeeps
  <2>2. CASE Encipher(t)
    BY <2>2, EncipherKeeps
  <2>3. ASSUME NEW n \in 1..2 * MaxUnits, Write(t, n) PROVE ControlInv'
    BY <2>3, WriteKeeps
  <2> QED
    BY <1>1, <2>1, <2>2, <2>3 DEF Sends
<1>2. ASSUME NEW t \in Senders, NEW lengths \in Lengths, SendPackets(t, lengths)
      PROVE  ControlInv'
  BY <1>2, SendKeeps
<1>3. CASE Arrive
  BY <1>3, ControlStays DEF Arrive
<1>4. ASSUME NEW h \in holders, Drop(h) PROVE ControlInv'
  BY <1>4, ControlStays DEF Drop
<1>5. CASE Network
  <2>1. CASE DrainStream
    BY <2>1, ControlStays DEF DrainStream
  <2>2. CASE DrainControl
    BY <2>2, DrainControlKeeps
  <2>3. CASE Poll
    BY <2>3, ControlStays DEF Poll
  <2>4. CASE ReceiveStream
    BY <2>4, ControlStays DEF ReceiveStream
  <2>5. ASSUME NEW n \in 1..MaxControl * MaxUnits, ReceiveControl(n) PROVE ControlInv'
    BY <2>5, ReceiveControlKeeps
  <2> QED
    BY <1>5, <2>1, <2>2, <2>3, <2>4, <2>5 DEF Network
<1>6. CASE UNCHANGED socketsVars
  BY <1>6, ControlStays DEF socketsVars
<1> QED
  BY <1>1, <1>2, <1>3, <1>4, <1>5, <1>6 DEF SocketsNext

LEMMA Aligned == ControlInv => KeystreamAligned
<1> SUFFICES ASSUME ControlInv PROVE KeystreamAligned
  OBVIOUS
<1>0. ControlTypes /\ UnderWay
  BY DEF ControlInv
<1>1. /\ Stream \in Seq(Unit)
      /\ Len(Stream) = Len(data) + Len(tcpWire) + Len(Rest)
      /\ \A i \in 1 .. Len(data) : Stream[i] = data[i]
      /\ \A i \in 1 .. Len(tcpWire) : Stream[Len(data) + i] = tcpWire[i]
  BY <1>0, StreamType
<1>2. /\ position \in Nat /\ Len(data) \in Nat /\ Len(tcpWire) \in Nat /\ Len(Rest) \in Nat
      /\ data \in Seq(Unit) /\ tcpWire \in Seq(Unit)
      /\ DOMAIN tcpWire = 1 .. Len(tcpWire)
  BY <1>0, StreamType, LenProperties DEF ControlTypes
<1>3. ASSUME NEW i \in DOMAIN tcpWire PROVE tcpWire[i].key = position + i - 1
  <2>1. PICK j \in 1 .. Len(Stream) : j = Len(data) + i
    BY <1>1, <1>2, SMTT(30)
  <2>2. Stream[j].key = position - Len(data) + j - 1
    BY <1>0 DEF UnderWay, Keyed
  <2>3. Stream[j] = tcpWire[i]
    BY <1>1, <1>2, <2>1
  <2> QED
    BY <1>2, <2>1, <2>2, <2>3
<1>4. ASSUME tcpWire # <<>>, data # <<>>, ~Whole(data)
      PROVE  tcpWire[1].packet = data[1].packet
  <2>1. 1 \in 1 .. Len(data) /\ 1 \in 1 .. Len(tcpWire)
    BY <1>2, <1>4, EmptySeq
  <2>2. Stream[1] = data[1] /\ Stream[Len(data) + 1] = tcpWire[1]
    BY <1>1, <2>1
  <2>3. Stream # <<>>
    BY <1>1, <1>2, <2>1, EmptySeq
  <2> DEFINE n == data[1].of
  <2>4. n \in Nat /\ n > Len(data)
    <3>1. data[1].of \in Nat \ {0}
      BY <1>2, <2>1, UnitFields
    <3> QED
      BY <1>2, <1>4, <3>1 DEF Whole
  <2>5. Run(Stream, 1, n + 1)
    BY <1>0, <1>1, <2>2, <2>3, WholeFirst DEF UnderWay
  <2> HIDE DEF n
  <2>6. Len(data) + 1 \in 1 .. (n + 1) - 1
    BY <1>2, <2>4
  <2>7. Stream[Len(data) + 1].packet = Stream[1].packet
    BY <2>5, <2>6 DEF Run
  <2> QED
    BY <2>2, <2>7
<1> QED
  BY <1>3, <1>4 DEF KeystreamAligned

(* The peer's decrypter meets every unit of the control connection at the     *)
(* position it was enciphered at, and the units of a packet together,       *)
(* however many threads send and however the writes and reads are cut.      *)
(* (The lock of TCP::send_raw and send_many_raw.)                           *)
THEOREM KeystreamInStep == SocketsSpec => []KeystreamAligned
<1>1. SocketsInit => ControlInv
  BY ControlInit
<1>2. ControlInv /\ [SocketsNext]_socketsVars => ControlInv'
  BY NextKeepsControl
<1>3. ControlInv => KeystreamAligned
  BY Aligned
<1> QED
  BY <1>1, <1>2, <1>3, PTL DEF SocketsSpec
-----------------------------------------------------------------------------
(* The datagrams.  A holder's buffer is one of those there are; when the      *)
(* next read overwrites a buffer, no holder has it.                         *)

BuffersInv ==
  /\ buffer \in 1 .. Buffers /\ DOMAIN bufferSlots = 1 .. Buffers
  /\ \A h \in holders : h.buf \in 1 .. Buffers
  /\ HeldIntact

LEMMA BuffersInit == SocketsInit => BuffersInv
BY SocketsAssumption DEF SocketsInit, BuffersInv, HeldIntact

(* A read goes to a buffer that no holder has. *)
LEMMA ReadsElsewhere ==
  ASSUME buffer \in 1 .. Buffers, NEW b \in BufferFor
  PROVE  b \in 1 .. Buffers /\ \A h \in holders : h.buf # b
BY DEF BufferFor

LEMMA ReceiveKeepsHeld == BuffersInv /\ ReceiveStream => BuffersInv'
<1> SUFFICES ASSUME BuffersInv, ReceiveStream PROVE BuffersInv'
  OBVIOUS
<1>1. PICK b \in BufferFor :
        /\ buffer' = b /\ (\E new : bufferSlots' = [bufferSlots EXCEPT ![b] = new])
        /\ Handle(b, 1)
  BY DEF ReceiveStream
<1>2. b \in 1 .. Buffers /\ \A h \in holders : h.buf # b
  BY ReadsElsewhere DEF BuffersInv
<1>3. ASSUME NEW h \in holders'
      PROVE  h.buf \in 1 .. Buffers /\ bufferSlots'[h.buf][h.slot] = h.datagram
  <2>1. CASE h \in holders
    BY <1>1, <1>2, <2>1 DEF BuffersInv, HeldIntact
  <2>2. CASE h = [datagram |-> bufferSlots'[b][1], buf |-> b, slot |-> 1]
    BY <1>2, <2>2
  <2> QED
    BY <1>1, <2>1, <2>2 DEF Handle
<1> QED
  BY <1>1, <1>2, <1>3 DEF BuffersInv, HeldIntact

LEMMA DrainKeepsHeld == BuffersInv /\ DrainStream => BuffersInv'
<1> SUFFICES ASSUME BuffersInv, DrainStream PROVE BuffersInv'
  OBVIOUS
<1>1. PICK i : Handle(buffer, i)
  BY DEF DrainStream
<1>2. UNCHANGED <<buffer, bufferSlots>>
  BY DEF DrainStream
<1>3. ASSUME NEW h \in holders'
      PROVE  h.buf \in 1 .. Buffers /\ bufferSlots'[h.buf][h.slot] = h.datagram
  <2>1. CASE h \in holders
    BY <1>2, <2>1 DEF BuffersInv, HeldIntact
  <2>2. CASE h = [datagram |-> bufferSlots'[buffer][i], buf |-> buffer, slot |-> i]
    BY <2>2 DEF BuffersInv
  <2> QED
    BY <1>1, <2>1, <2>2 DEF Handle
<1> QED
  BY <1>2, <1>3 DEF BuffersInv, HeldIntact

LEMMA BuffersStay ==
  ASSUME BuffersInv, holders' \subseteq holders, UNCHANGED <<buffer, bufferSlots>>
  PROVE  BuffersInv'
BY DEF BuffersInv, HeldIntact

LEMMA NextKeepsHeld == BuffersInv /\ [SocketsNext]_socketsVars => BuffersInv'
<1> SUFFICES ASSUME BuffersInv, [SocketsNext]_socketsVars PROVE BuffersInv'
  OBVIOUS
<1>1. ASSUME NEW t \in Senders, Sends(t) PROVE BuffersInv'
  BY <1>1, BuffersStay DEF Sends, Lock, Encipher, Write, streamVars
<1>2. ASSUME NEW t \in Senders, NEW lengths \in Lengths, SendPackets(t, lengths)
      PROVE  BuffersInv'
  BY <1>2, BuffersStay DEF SendPackets, streamVars
<1>3. CASE Arrive
  BY <1>3, BuffersStay DEF Arrive
<1>4. ASSUME NEW h \in holders, Drop(h) PROVE BuffersInv'
  BY <1>4, BuffersStay DEF Drop
<1>5. CASE Network
  <2>1. CASE DrainStream
    BY <2>1, DrainKeepsHeld
  <2>2. CASE DrainControl
    BY <2>2, BuffersStay DEF DrainControl, streamVars
  <2>3. CASE Poll
    BY <2>3, BuffersStay DEF Poll, streamVars
  <2>4. CASE ReceiveStream
    BY <2>4, ReceiveKeepsHeld
  <2>5. ASSUME NEW n \in 1..MaxControl * MaxUnits, ReceiveControl(n) PROVE BuffersInv'
    BY <2>5, BuffersStay DEF ReceiveControl, streamVars
  <2> QED
    BY <1>5, <2>1, <2>2, <2>3, <2>4, <2>5 DEF Network
<1>6. CASE UNCHANGED socketsVars
  BY <1>6, BuffersStay DEF socketsVars, streamVars
<1> QED
  BY <1>1, <1>2, <1>3, <1>4, <1>5, <1>6 DEF SocketsNext

(* A datagram that a packet of the assembly still shares is not overwritten  *)
(* by a later read, however many are held and however long.  (UDP::receive   *)
(* uses its buffer again only when nothing else does.)                       *)
THEOREM HeldNotOverwritten == SocketsSpec => []HeldIntact
<1>1. SocketsInit => BuffersInv
  BY BuffersInit
<1>2. BuffersInv /\ [SocketsNext]_socketsVars => BuffersInv'
  BY NextKeepsHeld
<1>3. BuffersInv => HeldIntact
  BY DEF BuffersInv
<1> QED
  BY <1>1, <1>2, <1>3, PTL DEF SocketsSpec

(* Every variable keeps to its type. *)
THEOREM SocketsTypeCorrect == SocketsSpec => []SocketsTypeOK
<1> DEFINE Inv == /\ ControlInv /\ BuffersInv
                  /\ reading \in {"drain", "stream", "control", "both"}
<1>1. SocketsInit => Inv
  BY ControlInit, BuffersInit DEF SocketsInit
<1>2. Inv /\ [SocketsNext]_socketsVars => Inv'
  <2> SUFFICES ASSUME reading \in {"drain", "stream", "control", "both"},
                      [SocketsNext]_socketsVars
               PROVE  reading' \in {"drain", "stream", "control", "both"}
    BY NextKeepsControl, NextKeepsHeld
  <2> QED
    BY DEF SocketsNext, socketsVars, Sends, SendPackets, Lock, Encipher, Write, Arrive,
         Drop,
           Network, DrainStream, DrainControl, Poll, ReceiveStream, ReceiveControl
<1>3. Inv => SocketsTypeOK
  BY DEF SocketsTypeOK, ControlInv, ControlTypes, BuffersInv
<1> QED
  BY <1>1, <1>2, <1>3, PTL DEF SocketsSpec
=============================================================================
