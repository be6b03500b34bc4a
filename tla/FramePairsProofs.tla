------------------------- MODULE FramePairsProofs -------------------------
(***************************************************************************)
(* Proofs about FramePairs, for every number of frames and of sessions:    *)
(* the rings keep each frame in its own slot (in TypeOK), never hold a     *)
(* frame of another session, and are long enough for streams that deliver  *)
(* frame by frame.  For the last the invariant (SInv) says which frames a  *)
(* ring holds (Filled), how old an index loaded by the render thread can   *)
(* be (Fresh), and what it has found with it (Paired, Shown).              *)
(***************************************************************************)
EXTENDS FramePairs, TLAPS

Slots == 0..(FRAME_BUFFER_SIZE - 1)

\* A frame goes to a slot of the ring, by the size of the ring alone.
LEMMA SlotInRing ==
    ASSUME NEW f \in Nat
    PROVE  Slot(f) \in Slots
  BY DEF Slot, Slots, FRAME_BUFFER_SIZE

\* What a look-up yields is nothing or the very frame asked for.
LEMMA GetFrameType ==
    ASSUME NEW f \in Frames, NEW s \in Eyes
    PROVE  GetFrame(f, s) \in Frames \cup {None}
  BY DEF GetFrame

\* The frame chosen is one of those published.
LEMMA ChosenType ==
    ASSUME TypeOK
    PROVE  Chosen \in Frames
  BY BoundsAssumption DEF TypeOK, Chosen, Eyes, Frames

\* The render thread on its way to the flush.
Looking == LookForFrame \/ Submit \/ Gap0 \/ Gap1 \/ Flush

\* It changes nothing but what it has read.
LEMMA LookingKeeps ==
    ASSUME TypeOK, Looking
    PROVE  /\ read.at \in BeforeLoads /\ read'.at \in BeforeLoads
           /\ \/ read'.at = "look" \/ read'.last = NoIndices
              \/ read.at # "look" /\ read'.last = read.last
           /\ UNCHANGED <<readIdle, out, during, delivering>>
<1> USE DEF TypeOK, BeforeLoads, Idle
<1>1. CASE LookForFrame
  BY <1>1 DEF LookForFrame
<1>2. CASE Submit
  BY <1>2 DEF Submit
<1>3. CASE Gap0
  BY <1>3 DEF Gap0
<1>4. CASE Gap1
  BY <1>4 DEF Gap1
<1>5. CASE Flush
  BY <1>5 DEF Flush
<1> QED BY <1>1, <1>2, <1>3, <1>4, <1>5 DEF Looking

LEMMA InitTypeOK == Init => TypeOK
  BY BoundsAssumption
  DEF BeforeLoads, Init, TypeOK, Empty, NoFrames, NoIndices, Idle, Eyes, Frames, None,
      FRAME_BUFFER_SIZE

LEMMA NextTypeOK == TypeOK /\ [Next]_vars => TypeOK'
<1> SUFFICES ASSUME TypeOK, [Next]_vars PROVE TypeOK'
  OBVIOUS
<1> USE BoundsAssumption
<1>1. ASSUME NEW s \in Eyes, NEW f \in Frames, Store(s, f) PROVE TypeOK'
  <2>1. Slot(f) \in Slots
    BY SlotInRing DEF Frames
  <2>2. ring' \in [Eyes -> [Slots -> Frames \cup {None}]]
    BY <1>1, <2>1 DEF Store, TypeOK, Slots
  <2>3. \A e \in Eyes, i \in Slots : ring'[e][i] = None \/ Slot(ring'[e][i]) = i
    BY <1>1, <2>1 DEF Store, TypeOK, Slots
  <2>4. writing' \in [Eyes -> Frames \cup {None}]
    BY <1>1 DEF Store, TypeOK
  <2> QED BY <1>1, <2>2, <2>3, <2>4 DEF Store, TypeOK, Slots
<1>2. ASSUME NEW s \in Eyes, Publish(s) PROVE TypeOK'
  BY <1>2 DEF Publish, TypeOK
<1>3. ASSUME NEW s \in Eyes, Reset(s) PROVE TypeOK'
  <2>1. Empty \in [Slots -> Frames \cup {None}] /\ \A i \in Slots : Empty[i] = None
    BY DEF Empty, Slots
  <2>2. ring' \in [Eyes -> [Slots -> Frames \cup {None}]]
    BY <1>3, <2>1 DEF Reset, EndSession, TypeOK, Slots
  <2>3. \A e \in Eyes, i \in Slots : ring'[e][i] = None \/ Slot(ring'[e][i]) = i
    BY <1>3, <2>1 DEF Reset, EndSession, TypeOK, Slots
  <2>4. closing' \in Eyes
    BY <1>3 DEF Reset, EndSession, Eyes
  <2>5. {best', first'} \subseteq [Eyes -> Frames \cup {None}]
    BY <1>3 DEF Reset, EndSession, TypeOK
  <2> QED BY <1>3, <2>2, <2>3, <2>4, <2>5 DEF Reset, EndSession, TypeOK, Slots
<1>4. CASE SetupDecoders \/ Looking
  <2> USE DEF TypeOK, readIdle
  <2>1. CASE SetupDecoders
    BY <2>1 DEF history, SetupDecoders
  <2>2. CASE LookForFrame
    BY <2>2 DEF LookForFrame, BeforeLoads, Eyes
  <2>3. CASE Submit \/ Gap1
    BY <2>3 DEF Submit, Gap1, BeforeLoads, Idle, NoIndices, Eyes, Frames
  <2>4. CASE Gap0
    BY <2>4 DEF Gap0, BeforeLoads, Eyes
  <2>5. CASE Flush
    BY <2>5 DEF Flush, BeforeLoads
  <2> QED BY <1>4, <2>1, <2>2, <2>3, <2>4, <2>5 DEF Looking
<1>5. CASE Load0
  BY <1>5 DEF Load0, readIdle, TypeOK, Eyes
<1>6. CASE Load1
  BY <1>6 DEF Load1, readIdle, TypeOK, Eyes
<1>7. CASE Frame0
  BY <1>7, ChosenType, GetFrameType DEF Frame0, readIdle, TypeOK, Eyes
<1>8. CASE Frame1
  BY <1>8, ChosenType, GetFrameType DEF Frame1, readIdle, TypeOK, Eyes
<1>9. ASSUME NEW s \in Eyes, Latest(s) PROVE TypeOK'
  BY <1>9 DEF Latest, readIdle, TypeOK, Eyes
<1>10. ASSUME NEW s \in Eyes, LatestSlot(s) PROVE TypeOK'
  <2>1. read.last[s] \in Frames
    BY DEF TypeOK
  <2> QED BY <1>10, <2>1, GetFrameType DEF LatestSlot, readIdle, TypeOK, Eyes
<1>11. CASE Blit
  BY <1>11 DEF BeforeLoads, Blit, readIdle, TypeOK, Idle, NoIndices, NoFrames, Eyes, Frames
<1>12. CASE UNCHANGED vars
  BY <1>12 DEF vars, history, TypeOK
<1> QED
  BY <1>1, <1>2, <1>3, <1>4, <1>5, <1>6, <1>7, <1>8, <1>9, <1>10, <1>11, <1>12
  DEF Looking, Next

\* Type correctness, with each frame in its own slot: Store writes to no
\* other, whatever the frames and their order.
THEOREM TypeCorrect == Spec => []TypeOK
  BY InitTypeOK, NextTypeOK, PTL DEF Spec

-----------------------------------------------------------------------------
LEMMA InitRing == Init => RingOfSession
  BY DEF Init, RingOfSession, Empty, NoFrames, Eyes, None, FRAME_BUFFER_SIZE

LEMMA NextRing == TypeOK /\ RingOfSession /\ [Next]_vars => RingOfSession'
<1> SUFFICES ASSUME TypeOK, RingOfSession, [Next]_vars PROVE RingOfSession'
  OBVIOUS
<1> USE BoundsAssumption
<1> DEFINE Typed(e, i) == /\ ring[e][i] \in Int /\ ring[e][i] >= -1
                          /\ best[e] \in Int /\ best[e] >= -1
<1>a. \A e \in Eyes, i \in Slots :
          Typed(e, i) /\ (ring[e][i] > best[e] => ring[e][i] = writing[e])
  <2>1. \A e \in Eyes, i \in Slots :
            ring[e][i] \in Frames \cup {None} /\ best[e] \in Frames \cup {None}
    <3>1. ring \in [Eyes -> [Slots -> Frames \cup {None}]]
      BY DEF TypeOK, Slots
    <3>2. best \in [Eyes -> Frames \cup {None}]
      BY DEF TypeOK
    <3> QED BY <3>1, <3>2
  <2>2. \A n \in Frames \cup {None} : n \in Int /\ n >= -1
    BY DEF Frames, None
  <2>3. \A e \in Eyes, i \in Slots : Typed(e, i)
    BY <2>1, <2>2
  <2>4. \A e \in Eyes, i \in Slots : ring[e][i] > best[e] => ring[e][i] = writing[e]
    BY DEF RingOfSession, Slots
  <2> QED BY <2>3, <2>4
<1>b. ASSUME \A e \in Eyes, i \in Slots :
                ring'[e][i] > best'[e] => ring'[e][i] = writing'[e]
      PROVE  RingOfSession'
  BY <1>b DEF RingOfSession, Slots
<1>1. ASSUME NEW s \in Eyes, NEW f \in Frames, Store(s, f)
      PROVE  RingOfSession'
  <2>1. \A e \in Eyes : writing[e] = -1
    BY <1>1 DEF Store, Unlocked, None
  <2>2. \A e \in Eyes, i \in Slots :
            ring'[e][i] = ring[e][i] \/ (e = s /\ ring'[e][i] = f)
    BY <1>1, SlotInRing DEF Store, TypeOK, Slots, Frames
  <2>3. writing'[s] = f /\ best' = best
    BY <1>1 DEF Store, TypeOK
  <2>4. \A e \in Eyes, i \in Slots : ~(ring[e][i] > best[e])
    BY <1>a, <2>1
  <2> QED BY <1>b, <2>2, <2>3, <2>4
<1>2. ASSUME NEW s \in Eyes, Publish(s) PROVE RingOfSession'
  <2>1. ring' = ring /\ writing[s] \in Int /\ best'[s] >= writing[s]
    BY <1>2 DEF Publish, TypeOK, Frames, None
  <2>2. best'[s] >= best[s] /\ best'[s] \in Int /\ best[s] \in Int
    BY <1>2 DEF Publish, TypeOK, Frames, None
  <2>3. \A e \in Eyes : e # s => best'[e] = best[e] /\ writing'[e] = writing[e]
    BY <1>2 DEF Publish, TypeOK
  <2>4. \A i \in Slots : ~(ring'[s][i] > best'[s])
    BY <1>a, <2>1, <2>2
  <2> QED BY <1>a, <1>b, <2>1, <2>3, <2>4
<1>3. ASSUME NEW s \in Eyes, Reset(s) PROVE RingOfSession'
  <2>1. \A e \in Eyes, i \in Slots :
            IF e = s THEN ring'[e][i] = None /\ best'[e] = None
                     ELSE ring'[e][i] = ring[e][i] /\ best'[e] = best[e]
    BY <1>3 DEF Reset, EndSession, TypeOK, Empty, NoFrames, Slots
  <2>2. writing' = writing
    BY <1>3 DEF Reset, EndSession
  <2> QED BY <1>a, <1>b, <2>1, <2>2 DEF None
<1>4. CASE UNCHANGED <<ring, writing, best>>
  BY <1>4 DEF RingOfSession
<1>5. CASE SetupDecoders \/ Looking
  BY <1>4, <1>5, LookingKeeps DEF SetupDecoders, history, readIdle
<1> QED
  BY <1>1, <1>2, <1>3, <1>4, <1>5
  DEF Looking, Next, Load0, Load1, Frame0, Frame1, Latest, LatestSlot, Blit, readIdle, vars, history

\* The rings never hold a frame of an earlier session: reset_stream_state
\* empties each of them before a decoder of the next session stores anything.
THEOREM RingsScoped == Spec => []RingOfSession
  BY InitTypeOK, NextTypeOK, InitRing, NextRing, PTL DEF Spec

-----------------------------------------------------------------------------
(* Three slots suffice.                                                     *)

\* The newest frame stored, published or not.
Newest(s) == IF writing[s] # None THEN writing[s] ELSE best[s]

Holds(s, f) == ring[s][Slot(f)] = f

\* What the counters are, and where the render thread has looked nothing up.
Counters ==
    /\ during \in [Eyes -> Nat] /\ steady \in [Eyes -> BOOLEAN]
    /\ delivering \in BOOLEAN
    /\ delivering => read.at \notin BeforeLoads
    /\ read.at \in (BeforeLoads \ {"look"}) \cup {"load1", "frame0", "frame1", "latest0"}
            => \A s \in Eyes : read.last[s] = 0
    /\ read.at \in {"slot0", "latest1"} => read.last[1] = 0

\* A stream that delivers frame by frame has its last three in the ring.
Filled(s) ==
    /\ first[s] <= best[s] /\ (best[s] = None <=> first[s] = None)
    /\ writing[s] # None => Holds(s, writing[s])
    /\ steady[s] /\ best[s] # None =>
        /\ latest[s] = best[s]
        /\ writing[s] # None => writing[s] = best[s] + 1
        /\ \A f \in Frames :
            first[s] <= f /\ f <= Newest(s) /\ f > Newest(s) - FRAME_BUFFER_SIZE
                => Holds(s, f)

\* An index the render thread has loaded is no older than the frames stored
\* since then make it.
Fresh(s) ==
    delivering /\ steady[s] =>
        /\ best[s] # None
        /\ Newest(s) - during[s] <= best[s]
        /\ s = 0 \/ read.at # "load1" =>
            Newest(s) - during[s] <= read.idx[s] /\ read.idx[s] <= best[s]
        /\ read.last[s] # 0 =>
            /\ Newest(s) - during[s] <= read.last[s]
            /\ first[s] <= read.last[s] /\ read.last[s] <= best[s]

\* The premise of PairedWhenClose.
Close ==
    /\ Steady(1) /\ read.idx[0] - read.idx[1] \in -1..1
    /\ \A s \in Eyes : first[s] <= Chosen
    /\ read.idx[0] > 0 /\ read.idx[1] > 0

\* Both eyes get the chosen frame, and none is looked up in its place.
Paired ==
    Close /\ read.at \notin BeforeLoads \cup {"load1"} =>
        /\ read.at \in {"frame0", "frame1", "done"}
        /\ read.at \in {"frame1", "done"} => out[0] = Chosen
        /\ read.at = "done" => out[1] = Chosen

\* A frame that was looked up is there.
Shown ==
    Steady(2) =>
        /\ read.at \in {"latest1", "slot1", "done"} /\ read.last[0] # 0 => out[0] # None
        /\ read.at = "done" /\ read.last[1] # 0 => out[1] # None

SInv ==
    /\ TypeOK /\ Counters /\ \A s \in Eyes : Filled(s) /\ Fresh(s)
    /\ Paired /\ Shown

\* Frames less than a ring apart do not share a slot.
LEMMA SlotsApart ==
    ASSUME NEW f \in Nat, NEW g \in Nat, g < f, g > f - FRAME_BUFFER_SIZE
    PROVE  Slot(g) # Slot(f)
  BY DEF Slot, FRAME_BUFFER_SIZE

LEMMA Numbers ==
    ASSUME TypeOK, Counters, NEW s \in Eyes
    PROVE  /\ latest[s] \in Nat /\ read.idx[s] \in Nat /\ read.last[s] \in Nat
           /\ best[s] \in Int /\ best[s] >= -1 /\ first[s] \in Int /\ first[s] >= -1
           /\ writing[s] \in Int /\ writing[s] >= -1 /\ during[s] \in Nat
           /\ Newest(s) \in Int
  BY BoundsAssumption DEF TypeOK, Counters, Frames, None, Newest

LEMMA InitSInv == ASSUME Init PROVE SInv
<1>1. TypeOK
  BY InitTypeOK
<1>2. Counters
  BY DEF Init, Counters, NoneStored, NoIndices, Idle, Eyes
<1>3. \A s \in Eyes : Filled(s) /\ Fresh(s)
  BY DEF Init, Filled, Fresh, NoFrames, None
<1>4. Paired /\ Shown
  BY DEF BeforeLoads, Init, Paired, Shown, Steady, Idle
<1> QED BY <1>1, <1>2, <1>3, <1>4 DEF SInv

LEMMA NextCounters ==
    ASSUME TypeOK, Counters, [Next]_vars
    PROVE  Counters'
<1> USE DEF Counters, TypeOK, readIdle
<1>1. ASSUME NEW s \in Eyes, NEW f \in Frames, Store(s, f) PROVE Counters'
  BY <1>1 DEF Store
<1>2. ASSUME NEW s \in Eyes, Publish(s) \/ Reset(s) PROVE Counters'
  <2>1. CASE Publish(s)
    BY <2>1 DEF Publish
  <2>2. CASE Reset(s)
    BY <2>2 DEF Reset, EndSession
  <2> QED BY <1>2, <2>1, <2>2
<1>3. CASE SetupDecoders \/ Looking
  <2>1. CASE SetupDecoders
    BY <2>1 DEF SetupDecoders, history
  <2>2. CASE Looking
    BY <2>2, LookingKeeps DEF BeforeLoads, NoIndices, Eyes
  <2> QED BY <1>3, <2>1, <2>2
<1>4. CASE Load0
  BY <1>4 DEF BeforeLoads, Load0, Eyes
<1>5. CASE Load1 \/ Frame0 \/ Frame1
  BY <1>5 DEF BeforeLoads, Load1, Frame0, Frame1
<1>6. ASSUME NEW s \in Eyes, Latest(s) PROVE Counters'
  BY <1>6 DEF BeforeLoads, Latest, Eyes
<1>7. ASSUME NEW s \in Eyes, LatestSlot(s) PROVE Counters'
  BY <1>7 DEF BeforeLoads, LatestSlot, Eyes
<1>8. CASE Blit
  BY <1>8 DEF Blit, Idle, NoneStored, NoIndices, Eyes
<1>9. CASE UNCHANGED vars
  BY <1>9 DEF vars, history
<1> QED
  BY <1>1, <1>2, <1>3, <1>4, <1>5, <1>6, <1>7, <1>8, <1>9 DEF Looking, Next

-----------------------------------------------------------------------------
\* A frame stored next to those there replaces one that is three behind.
LEMMA StoreFilled ==
    ASSUME TypeOK, Counters, NEW e \in Eyes, Filled(e), NEW f \in Frames, Store(e, f)
    PROVE  Filled(e)'
<1> USE BoundsAssumption
<1>1. /\ writing[e] = None /\ writing'[e] = f /\ UNCHANGED <<latest, best, first>>
      /\ ring'[e] = [ring[e] EXCEPT ![Slot(f)] = f]
      /\ steady'[e] => steady[e] /\ (best[e] # None => f = best[e] + 1)
  BY DEF Store, Unlocked, TypeOK, Counters
<1>2. f \in Nat /\ Slot(f) \in Slots /\ f # None
  BY SlotInRing DEF Frames, None
<1>3. ring[e] \in [Slots -> Frames \cup {None}]
  BY DEF TypeOK, Slots
<1>4. Holds(e, f)'
  BY <1>1, <1>2, <1>3 DEF Holds
<1>5. ASSUME steady'[e], best[e] # None,
             NEW g \in Frames, first[e] <= g, g <= f, g > f - FRAME_BUFFER_SIZE
      PROVE  Holds(e, g)'
  <2>1. f = best[e] + 1 /\ Newest(e) = best[e]
    BY <1>1, <1>5 DEF Newest
  <2>2. CASE g = f
    BY <1>4, <2>2 DEF Holds
  <2>3. CASE g # f
    <3>1. g < f /\ g <= best[e] /\ g > best[e] - FRAME_BUFFER_SIZE
      BY <1>2, <1>5, <2>1, <2>3, Numbers DEF Frames, FRAME_BUFFER_SIZE
    <3>2. Holds(e, g)
      BY <1>1, <1>5, <2>1, <3>1 DEF Filled
    <3>3. Slot(g) # Slot(f) /\ Slot(g) \in Slots
      BY <1>2, <1>5, <3>1, SlotsApart, SlotInRing DEF Frames
    <3> QED BY <1>1, <1>3, <3>2, <3>3 DEF Holds
  <2> QED BY <2>2, <2>3
<1>6. Newest(e)' = f
  BY <1>1, <1>2 DEF Newest
<1>7. steady'[e] /\ best'[e] # None => latest'[e] = best'[e] /\ f = best'[e] + 1
  BY <1>1 DEF Filled
<1>8. first'[e] <= best'[e] /\ (best'[e] = None <=> first'[e] = None)
  BY <1>1 DEF Filled
<1> QED BY <1>1, <1>4, <1>5, <1>6, <1>7, <1>8 DEF Filled

\* Publishing changes neither the ring nor what is newest.
LEMMA PublishFilled ==
    ASSUME TypeOK, Counters, NEW e \in Eyes, Filled(e), Publish(e)
    PROVE  Filled(e)'
<1> DEFINE f == writing[e]
<1>1. /\ f \in Frames /\ f \in Nat /\ f # None /\ writing'[e] = None /\ latest'[e] = f
      /\ best'[e] = (IF f > best[e] THEN f ELSE best[e])
      /\ first'[e] = (IF first[e] = None THEN f ELSE first[e])
      /\ UNCHANGED <<ring, steady>>
  BY BoundsAssumption DEF Publish, TypeOK, Frames, None
<1>2. \A g : Holds(e, g)' <=> Holds(e, g)
  BY <1>1 DEF Holds
<1>3. first'[e] <= best'[e] /\ first'[e] # None /\ best'[e] # None
  BY <1>1, Numbers DEF Filled, None
<1>4. CASE best[e] = None
  <2>1. best'[e] = f /\ first'[e] = f /\ Newest(e)' = f
    BY <1>1, <1>4 DEF Filled, Newest, None
  <2>2. \A g \in Frames : first'[e] <= g /\ g <= f => g = f
    BY <1>1, <2>1 DEF Frames
  <2>3. Holds(e, f)
    BY <1>1 DEF Filled
  <2> QED BY <1>1, <1>2, <1>3, <2>1, <2>2, <2>3 DEF Filled
<1>5. CASE best[e] # None /\ steady[e]
  <2>1. f = best[e] + 1 /\ best'[e] = f /\ first'[e] = first[e]
    BY <1>1, <1>5, Numbers DEF Filled
  <2>2. Newest(e)' = f /\ Newest(e) = f
    BY <1>1, <2>1 DEF Newest
  <2>3. \A g \in Frames :
            first'[e] <= g /\ g <= f /\ g > f - FRAME_BUFFER_SIZE => Holds(e, g)'
    BY <1>2, <1>5, <2>1, <2>2 DEF Filled
  <2> QED BY <1>1, <1>3, <2>1, <2>2, <2>3 DEF Filled
<1>6. CASE ~steady[e]
  BY <1>1, <1>3, <1>6 DEF Filled
<1> QED BY <1>4, <1>5, <1>6

LEMMA NextFilled ==
    ASSUME TypeOK, Counters, NEW e \in Eyes, Filled(e), [Next]_vars
    PROVE  Filled(e)'
<1> DEFINE Same == /\ ring'[e] = ring[e] /\ latest'[e] = latest[e] /\ writing'[e] = writing[e]
                   /\ best'[e] = best[e] /\ first'[e] = first[e]
                   /\ steady'[e] => steady[e]
<1>1. ASSUME Same PROVE Filled(e)'
  BY <1>1 DEF Filled, Holds, Newest
<1>2. ASSUME NEW s \in Eyes, NEW f \in Frames, Store(s, f) PROVE Filled(e)'
  <2>1. CASE s = e
    BY <1>2, <2>1, StoreFilled
  <2>2. CASE s # e
    BY <1>1, <1>2, <2>2 DEF Store, TypeOK, Counters
  <2> QED BY <2>1, <2>2
<1>3. ASSUME NEW s \in Eyes, Publish(s) PROVE Filled(e)'
  <2>1. CASE s = e
    BY <1>3, <2>1, PublishFilled
  <2>2. CASE s # e
    BY <1>1, <1>3, <2>2 DEF Publish, TypeOK
  <2> QED BY <2>1, <2>2
<1>4. ASSUME NEW s \in Eyes, Reset(s) PROVE Filled(e)'
  <2>1. CASE s = e
    <3>1. best'[e] = None /\ first'[e] = None /\ writing'[e] = None
      BY <1>4, <2>1 DEF Reset, EndSession, Unlocked, TypeOK
    <3> QED BY <3>1 DEF Filled, None
  <2>2. CASE s # e
    BY <1>1, <1>4, <2>2 DEF Reset, EndSession, TypeOK, Counters
  <2> QED BY <2>1, <2>2
<1>5. CASE UNCHANGED readIdle
  BY <1>1, <1>5 DEF readIdle
<1>6. CASE UNCHANGED vars \/ SetupDecoders \/ Looking
  BY <1>1, <1>6, LookingKeeps DEF SetupDecoders, readIdle, vars, history
<1> QED
  BY <1>2, <1>3, <1>4, <1>5, <1>6
     DEF Looking, Next, Load0, Load1, Frame0, Frame1, Latest, LatestSlot, Blit

-----------------------------------------------------------------------------
\* What is loaded is the newest published; what is stored later is counted.
LEMMA NextFresh ==
    ASSUME TypeOK, Counters, NEW e \in Eyes, Filled(e), Fresh(e), [Next]_vars, TypeOK',
           Counters'
    PROVE  Fresh(e)'
<1> DEFINE Same == /\ writing'[e] = writing[e] /\ best'[e] = best[e] /\ first'[e] = first[e]
                   /\ during'[e] = during[e] /\ steady'[e] = steady[e]
                   /\ delivering' = delivering
           Published == /\ latest[e] = best[e] /\ first[e] <= best[e]
                        /\ Newest(e) - during[e] <= best[e] /\ best[e] # None
<1>1. ASSUME Same, read'.idx[e] = read.idx[e], read'.last[e] = read.last[e],
             e = 0 \/ (read.at = "load1" <=> read'.at = "load1")
      PROVE  Fresh(e)'
  BY <1>1 DEF Fresh, Newest
<1>2. ASSUME delivering, steady[e] PROVE Published
  BY <1>2 DEF Fresh, Filled
<1>3. ASSUME NEW s \in Eyes, NEW f \in Frames, Store(s, f) PROVE Fresh(e)'
  <2>1. CASE s = e
    <3>1. ASSUME delivering', steady'[e] PROVE Fresh(e)'
      <4>1. delivering /\ steady[e] /\ best[e] # None
        BY <1>3, <2>1, <3>1 DEF Store, Fresh, TypeOK, Counters
      <4>2. writing[e] = None /\ Newest(e) = best[e]
        BY <1>3, <2>1 DEF Store, Unlocked, Newest
      <4>3. writing'[e] = f /\ f = best[e] + 1 /\ f # None
        <5>1. steady'[e] => (best[e] # None => f = best[e] + 1)
          BY <1>3, <2>1 DEF Store, Counters
        <5>2. writing'[e] = f
          BY <1>3, <2>1 DEF Store, TypeOK
        <5> QED BY <3>1, <4>1, <5>1, <5>2 DEF Frames, None
      <4>4. during'[e] = during[e] + 1
        BY <1>3, <2>1, <4>1 DEF Store, Counters
      <4>5. Newest(e)' - during'[e] = Newest(e) - during[e]
        BY <4>2, <4>3, <4>4, Numbers DEF Newest
      <4>6. UNCHANGED <<read, best, first>>
        BY <1>3 DEF Store
      <4> QED BY <4>1, <4>5, <4>6 DEF Fresh
    <3> QED BY <3>1 DEF Fresh
  <2>2. CASE s # e
    <3>1. Same /\ read' = read
      BY <1>3, <2>2 DEF Store, TypeOK, Counters
    <3> QED BY <1>1, <3>1
  <2> QED BY <2>1, <2>2
<1>4. ASSUME NEW s \in Eyes, Publish(s) PROVE Fresh(e)'
  <2>1. CASE s = e
    <3>1. ASSUME delivering', steady'[e] PROVE Fresh(e)'
      <4>1. delivering /\ steady[e] /\ best[e] # None /\ UNCHANGED <<read, during>>
        BY <1>4, <2>1, <3>1 DEF Publish, Fresh
      <4>2. writing[e] = best[e] + 1 /\ writing[e] # None
        BY <1>4, <2>1, <4>1 DEF Publish, Filled
      <4>3. best'[e] = writing[e] /\ first'[e] = first[e] /\ writing'[e] = None
        BY <1>4, <2>1, <4>1, <4>2, Numbers DEF Publish, TypeOK, Filled
      <4>4. Newest(e)' = Newest(e)
        BY <4>2, <4>3 DEF Newest
      <4> QED BY <4>1, <4>2, <4>3, <4>4, Numbers DEF Fresh
    <3> QED BY <3>1 DEF Fresh
  <2>2. CASE s # e
    <3>1. Same /\ read' = read
      BY <1>4, <2>2 DEF Publish, TypeOK, Counters
    <3> QED BY <1>1, <3>1
  <2> QED BY <2>1, <2>2
<1>5. ASSUME NEW s \in Eyes, Reset(s) PROVE Fresh(e)'
  BY <1>5 DEF Reset, EndSession, Fresh
<1>6. CASE SetupDecoders \/ Looking
  <2>1. CASE SetupDecoders
    BY <1>1, <2>1 DEF SetupDecoders, history
  <2>2. CASE Looking
    BY <2>2, LookingKeeps DEF Counters, Fresh
  <2> QED BY <1>6, <2>1, <2>2
<1>7. CASE Load0
  <2>1. ASSUME delivering', steady'[e] PROVE Fresh(e)'
    <3>1. /\ steady[e] /\ best[e] # None /\ UNCHANGED <<writing, best, first>>
          /\ during'[e] = (IF writing[e] = None THEN 0 ELSE 1) /\ read.last[e] = 0
      BY <1>7, <2>1 DEF BeforeLoads, Load0, readIdle, Counters
    <3>2. Newest(e)' - during'[e] = best[e] /\ latest[e] = best[e]
      BY <3>1, Numbers DEF Newest, Filled
    <3>3. /\ read'.at = "load1" /\ read'.last[e] = 0
          /\ e = 0 => read'.idx[e] = latest[e]
      BY <1>7, <3>1 DEF Load0, TypeOK, Eyes
    <3> QED BY <3>1, <3>2, <3>3, Numbers DEF Fresh, Eyes
  <2> QED BY <2>1 DEF Fresh
<1>8. CASE Load1
  <2>1. Same /\ read'.last[e] = read.last[e] /\ read'.at # "load1"
    BY <1>8 DEF Load1, readIdle
  <2>2. read'.idx[e] = IF e = 1 THEN latest[e] ELSE read.idx[e]
    BY <1>8 DEF Load1, TypeOK, Eyes
  <2>3. CASE e = 0
    BY <1>1, <2>1, <2>2, <2>3
  <2>4. CASE e = 1
    BY <1>2, <2>1, <2>2, <2>4, Numbers DEF Fresh, Newest
  <2> QED BY <2>3, <2>4 DEF Eyes
<1>9. ASSUME NEW s \in Eyes, Latest(s) PROVE Fresh(e)'
  <2>1. /\ Same /\ read'.idx[e] = read.idx[e]
        /\ read'.at # "load1" /\ read.at # "load1"
        /\ read'.last[e] = IF s = e THEN latest[e] ELSE read.last[e]
    BY <1>9 DEF Latest, readIdle, TypeOK
  <2>2. CASE s = e
    BY <1>2, <2>1, <2>2, Numbers DEF Fresh, Newest
  <2>3. CASE s # e
    BY <1>1, <2>1, <2>3
  <2> QED BY <2>2, <2>3
<1>10. ASSUME Frame0 \/ Frame1 \/ \E s \in Eyes : LatestSlot(s) PROVE Fresh(e)'
  <2>1. /\ Same /\ read'.idx = read.idx /\ read'.last = read.last
        /\ read'.at # "load1" /\ read.at # "load1"
    BY <1>10 DEF Frame0, Frame1, LatestSlot, readIdle, TypeOK
  <2> QED BY <1>1, <2>1
<1>11. CASE Blit
  BY <1>11 DEF Blit, Fresh
<1>12. CASE UNCHANGED vars
  BY <1>1, <1>12 DEF vars, history
<1> QED
  BY <1>3, <1>4, <1>5, <1>6, <1>7, <1>8, <1>9, <1>10, <1>11, <1>12 DEF Looking, Next

-----------------------------------------------------------------------------
\* While the streams are steady, what they have delivered only grows older.
LEMMA SteadyBefore ==
    ASSUME TypeOK, Counters, [Next]_vars, ~Load0, NEW n \in Nat, Steady(n)'
    PROVE  Steady(n)
<1>1. ASSUME NEW s \in Eyes, NEW f \in Frames, Store(s, f) PROVE Steady(n)
  <2>1. delivering' = delivering /\ \A e \in Eyes : steady'[e] => steady[e]
    BY <1>1 DEF Store, Counters
  <2>2. \A e \in Eyes : during[e] \in Nat /\ during'[e] \in {during[e], during[e] + 1}
    BY <1>1 DEF Store, Counters
  <2> QED BY <2>1, <2>2 DEF Steady
<1>2. CASE UNCHANGED <<delivering, steady, during>>
  BY <1>2 DEF Steady
<1>4. CASE SetupDecoders \/ Looking
  BY <1>2, <1>4, LookingKeeps DEF SetupDecoders, readIdle, history
<1>3. CASE ~delivering'
  BY <1>3 DEF Steady
<1> QED
  BY <1>1, <1>2, <1>3, <1>4
     DEF Looking, Next, Publish, Reset, EndSession, Load1, Frame0, Frame1, Latest, LatestSlot, Blit,
         readIdle, vars, history

\* A frame that is one of the three last is found.
LEMMA Found ==
    ASSUME TypeOK, Counters, NEW e \in Eyes, Filled(e), Fresh(e), NEW f \in Frames,
           delivering, steady[e], first[e] <= f, f <= best[e],
           f > Newest(e) - FRAME_BUFFER_SIZE
    PROVE  GetFrame(f, e) = f
<1>1. best[e] # None /\ f <= Newest(e)
  <2>1. best[e] # None /\ f \in Int
    BY DEF Fresh, Frames
  <2>2. writing[e] # None => writing[e] = best[e] + 1
    BY <2>1 DEF Filled
  <2>3. f <= Newest(e)
    BY <2>1, <2>2, Numbers DEF Newest
  <2> QED BY <2>1, <2>3
<1>2. Holds(e, f)
  BY <1>1 DEF Filled
<1> QED BY <1>2 DEF Holds, GetFrame

\* The chosen frame is there while the streams are close.
LEMMA ChosenFound ==
    ASSUME TypeOK, Counters, NEW e \in Eyes, Filled(e), Fresh(e), Close,
           read.at \notin BeforeLoads \cup {"load1"}
    PROVE  GetFrame(Chosen, e) = Chosen
<1>1. delivering /\ steady[e] /\ during[e] <= 1 /\ first[e] <= Chosen
  BY DEF Close, Steady
<1>2. /\ Chosen \in Frames /\ read.idx[0] \in Nat /\ read.idx[1] \in Nat
      /\ Chosen <= read.idx[e] /\ Chosen >= read.idx[e] - 1
  <2>1. read.idx[0] \in Nat /\ read.idx[1] \in Nat
    BY Numbers DEF Eyes
  <2> QED BY <2>1, ChosenType DEF Close, Chosen, Eyes
<1>3. Newest(e) - during[e] <= read.idx[e] /\ read.idx[e] <= best[e]
  BY <1>1 DEF Fresh
<1>4. Chosen <= best[e] /\ Chosen > Newest(e) - FRAME_BUFFER_SIZE
  BY <1>1, <1>2, <1>3, Numbers DEF FRAME_BUFFER_SIZE, Frames, Eyes
<1> QED BY <1>1, <1>2, <1>4, Found

-----------------------------------------------------------------------------
LEMMA NextPaired ==
    ASSUME SInv, [Next]_vars
    PROVE  Paired'
<1> USE DEF SInv
<1>1. \A s \in Eyes : first'[s] = first[s] \/ first[s] = None \/ ~delivering'
  <2>1. CASE UNCHANGED first
    BY <2>1
  <2>2. ASSUME NEW e \in Eyes, Publish(e)
        PROVE  \A s \in Eyes : first'[s] = first[s] \/ first[s] = None
    BY <2>2 DEF Publish, TypeOK
  <2>3. ASSUME NEW e \in Eyes, Reset(e) PROVE ~delivering'
    BY <2>3 DEF Reset, EndSession
  <2>4. CASE SetupDecoders \/ Looking
    BY <2>1, <2>4, LookingKeeps DEF SetupDecoders, readIdle, history
  <2> QED BY <2>1, <2>2, <2>3, <2>4
          DEF Looking, Next, Store, Load0, Load1, Frame0, Frame1, Latest, LatestSlot, Blit,
              readIdle, vars, history
<1>2. ASSUME ~Load0, Close', read'.idx = read.idx PROVE Close /\ Chosen' = Chosen
  <2>1. Steady(1)
    BY <1>2, SteadyBefore DEF Close
  <2>3. delivering' /\ Chosen' = Chosen /\ Chosen \in Nat
    BY <1>2, ChosenType DEF Close, Steady, Chosen, Frames
  <2>4. \A s \in Eyes : first[s] <= Chosen
    BY <1>1, <1>2, <2>3 DEF Close, None
  <2> QED BY <1>2, <2>1, <2>3, <2>4 DEF Close
<1>3. ASSUME ~Load0, Close', UNCHANGED <<read, out>> PROVE Paired'
  BY <1>2, <1>3 DEF Paired
<1>4. ASSUME \/ \E s \in Eyes : \/ \E f \in Frames : Store(s, f)
                                \/ Publish(s)
             \/ SetupDecoders \/ UNCHANGED vars
      PROVE  Paired'
  <2>1. UNCHANGED <<read, out>>
    BY <1>4 DEF Store, Publish, SetupDecoders, vars
  <2>2. CASE Load0
    BY <2>1, <2>2 DEF Load0, TypeOK
  <2> QED BY <1>3, <2>1, <2>2 DEF Paired
<1>5. CASE \E s \in Eyes : Reset(s)
  BY <1>5 DEF Reset, EndSession, Paired, Close, Steady
<1>6. CASE Looking \/ Load0 \/ Blit
  <2>1. read'.at \in BeforeLoads \cup {"load1"}
    <3>1. CASE Looking
      BY <3>1, LookingKeeps
    <3>2. CASE Load0
      BY <3>2 DEF Load0, TypeOK
    <3>3. CASE Blit
      BY <3>3 DEF Blit, Idle, BeforeLoads
    <3> QED BY <1>6, <3>1, <3>2, <3>3
  <2> QED BY <2>1 DEF Paired
<1>7. CASE Load1
  <2>1. CASE read.idx[0] > 0 /\ latest[1] > 0
    BY <1>7, <2>1 DEF Load1, Paired, TypeOK
  <2>2. CASE ~(read.idx[0] > 0 /\ latest[1] > 0)
    <3>1. read'.idx[0] = read.idx[0] /\ read'.idx[1] = latest[1]
      BY <1>7 DEF Load1, TypeOK, Eyes
    <3> QED BY <2>2, <3>1 DEF Paired, Close
  <2> QED BY <2>1, <2>2
<1>8. CASE Frame0
  <2>1. ASSUME Close' PROVE Paired'
    <3>1. Close /\ Chosen' = Chosen /\ read.at = "frame0"
      BY <1>2, <1>8, <2>1 DEF Frame0, Load0, TypeOK
    <3>2. GetFrame(Chosen, 0) = Chosen
      BY <3>1, ChosenFound DEF BeforeLoads, Eyes
    <3>3. out'[0] = Chosen /\ read'.at = "frame1"
      BY <1>8, <3>2 DEF Frame0, TypeOK, Eyes
    <3> QED BY <3>1, <3>3 DEF Paired
  <2> QED BY <2>1 DEF Paired
<1>9. CASE Frame1
  <2>1. ASSUME Close' PROVE Paired'
    <3>1. Close /\ Chosen' = Chosen /\ read.at = "frame1"
      BY <1>2, <1>9, <2>1 DEF Frame1, Load0, TypeOK
    <3>2. GetFrame(Chosen, 1) = Chosen /\ out[0] = Chosen
      BY <3>1, ChosenFound DEF BeforeLoads, Eyes, Paired
    <3>3. out'[0] = Chosen /\ out'[1] = Chosen /\ Chosen # None
      BY <1>9, <3>2, ChosenType DEF Frame1, TypeOK, Eyes, Frames, None
    <3>4. read'.at = "done"
      BY <1>9, <3>2, <3>3 DEF Frame1, TypeOK
    <3> QED BY <3>1, <3>3, <3>4 DEF Paired
  <2> QED BY <2>1 DEF Paired
<1>10. ASSUME NEW s \in Eyes, Latest(s) \/ LatestSlot(s) PROVE Paired'
  <2>1. /\ read.at \in {"latest0", "slot0", "latest1", "slot1"} /\ ~Load0
        /\ read'.idx = read.idx
    BY <1>10 DEF Latest, LatestSlot, Load0, TypeOK
  <2>2. ~Close'
    BY <1>2, <2>1 DEF BeforeLoads, Paired
  <2> QED BY <2>2 DEF Paired
<1> QED
  BY <1>4, <1>5, <1>6, <1>7, <1>8, <1>9, <1>10 DEF Looking, Next

LEMMA NextShown ==
    ASSUME SInv, [Next]_vars
    PROVE  Shown'
<1> USE DEF SInv
<1>1. ASSUME ~Load0, UNCHANGED <<read, out>> PROVE Shown'
  BY <1>1, SteadyBefore DEF Shown
<1>2. ASSUME \/ \E s \in Eyes : \/ \E f \in Frames : Store(s, f)
                                \/ Publish(s)
             \/ SetupDecoders \/ UNCHANGED vars
      PROVE  Shown'
  <2>1. UNCHANGED <<read, out>>
    BY <1>2 DEF Store, Publish, SetupDecoders, vars
  <2>2. CASE Load0
    BY <2>1, <2>2 DEF Load0, TypeOK
  <2> QED BY <1>1, <2>1, <2>2
<1>3. CASE \E s \in Eyes : Reset(s)
  BY <1>3 DEF Reset, EndSession, Shown, Steady
<1>4. CASE Looking \/ Load0 \/ Load1 \/ Frame0 \/ Blit
  <2>1. read'.at \notin {"latest1", "slot1", "done"}
    <3>1. CASE Looking
      BY <3>1, LookingKeeps DEF BeforeLoads
    <3>4. CASE Load0
      BY <3>4 DEF Load0, TypeOK
    <3>2. CASE Load1 \/ Frame0
      BY <3>2 DEF Load1, Frame0, TypeOK
    <3>3. CASE Blit
      BY <3>3 DEF Blit, Idle
    <3> QED BY <1>4, <3>1, <3>2, <3>3, <3>4
  <2> QED BY <2>1 DEF Shown
<1>5. CASE Frame1
  <2>1. read'.last[0] = 0 /\ read'.last[1] = 0
    BY <1>5 DEF Frame1, TypeOK, Counters, Eyes
  <2> QED BY <2>1 DEF Shown
<1>6. ASSUME NEW s \in Eyes, Latest(s) PROVE Shown'
  <2>1. CASE s = 0
    BY <1>6, <2>1 DEF Latest, Shown, TypeOK
  <2>2. CASE s = 1
    <3>1. read.at = "latest1" /\ read'.at = "slot1" /\ read'.last[0] = read.last[0] /\ out' = out
      BY <1>6, <2>2 DEF Latest, TypeOK, Eyes
    <3>2. Steady(2)' => Steady(2)
      BY <1>6, <3>1, SteadyBefore DEF Load0
    <3> QED BY <3>1, <3>2 DEF Shown
  <2> QED BY <2>1, <2>2 DEF Eyes
<1>7. ASSUME NEW s \in Eyes, LatestSlot(s) PROVE Shown'
  <2>1. ASSUME Steady(2)', read.last[s] # 0 PROVE out'[s] # None
    <3>1. Steady(2)
      BY <1>7, <2>1, SteadyBefore DEF Load0, LatestSlot
    <3>2. delivering /\ steady[s] /\ during[s] <= 2
      BY <3>1 DEF Steady
    <3>3. /\ Newest(s) - during[s] <= read.last[s]
          /\ first[s] <= read.last[s] /\ read.last[s] <= best[s]
      BY <2>1, <3>2 DEF Fresh
    <3>4. read.last[s] \in Frames /\ read.last[s] > Newest(s) - FRAME_BUFFER_SIZE
      BY <3>2, <3>3, Numbers DEF TypeOK, FRAME_BUFFER_SIZE
    <3>5. GetFrame(read.last[s], s) = read.last[s]
      BY <3>2, <3>3, <3>4, Found
    <3> QED BY <1>7, <2>1, <3>4, <3>5 DEF LatestSlot, TypeOK, Frames, None
  <2>2. CASE s = 0
    <3>1. read'.at = "latest1" /\ read'.last = read.last
      BY <1>7, <2>2 DEF LatestSlot, TypeOK
    <3> QED BY <2>1, <2>2, <3>1 DEF Shown
  <2>3. CASE s = 1
    <3>1. /\ read.at = "slot1" /\ read'.at = "done" /\ read'.last = read.last
          /\ out'[0] = out[0]
      BY <1>7, <2>3 DEF LatestSlot, TypeOK, Eyes
    <3>2. Steady(2)' => Steady(2)
      BY <1>7, <3>1, SteadyBefore DEF Load0
    <3> QED BY <2>1, <2>3, <3>1, <3>2 DEF Shown
  <2> QED BY <2>2, <2>3 DEF Eyes
<1> QED
  BY <1>2, <1>3, <1>4, <1>5, <1>6, <1>7 DEF Looking, Next

-----------------------------------------------------------------------------
\* Three slots are enough, for any number of frames: streams that deliver
\* frame by frame and are one apart at most are paired, and neither eye goes
\* blank, whatever the decoders store during the read, within the counts the
\* property names.
THEOREM ThreeSlotsSuffice == Spec => []SlotsSuffice
<1>1. Init => SInv
  BY InitSInv
<1>2. SInv /\ [Next]_vars => SInv'
  <2>1. ASSUME SInv, [Next]_vars PROVE TypeOK' /\ Counters'
    BY <2>1, NextTypeOK, NextCounters DEF SInv
  <2>2. ASSUME SInv, [Next]_vars PROVE \A s \in Eyes : Filled(s)' /\ Fresh(s)'
    BY <2>1, <2>2, NextFilled, NextFresh DEF SInv
  <2> QED BY <2>1, <2>2, NextPaired, NextShown DEF SInv
<1>3. SInv => SlotsSuffice
  <2> SUFFICES ASSUME SInv PROVE SlotsSuffice
    OBVIOUS
  <2>1. PairedWhenClose
    BY DEF BeforeLoads, SInv, PairedWhenClose, Paired, Close
  <2>2. NeverBlank
    BY DEF SInv, NeverBlank, Shown, Eyes
  <2> QED BY <2>1, <2>2 DEF SlotsSuffice
<1> QED BY <1>1, <1>2, <1>3, PTL DEF Spec

-----------------------------------------------------------------------------
(* The flush.                                                               *)

\* A stream's index is that of this session, at most one frame back, once the
\* stream has published.
IndexOfSession(s) ==
    /\ writing[s] # None => writing[s] >= best[s] - 1
    /\ best[s] # None => latest[s] >= best[s] - 1 /\ latest[s] <= best[s]

\* From the look for a frame of stream 0 to the flush its index is no longer
\* one of the last session, unless a session ends meanwhile.
OnTheWay ==
    ~ended =>
        /\ read.at = "look" => latest[0] = read.last[0] \/ best[0] # None
        /\ read.at = "gap0" => latest[0] <= NewestStored(0)
        /\ read.at = "gap1" => read.idx[0] <= NewestStored(0)
        /\ read.at = "flush" => lag \in Int /\ lag >= FlushGap

FInv ==
    /\ TypeOK /\ RingOfSession /\ \A s \in Eyes : IndexOfSession(s)
    /\ OnTheWay /\ FlushOnlyWhenBehind

LEMMA FlushNumbers ==
    ASSUME TypeOK, NEW s \in Eyes
    PROVE  /\ latest[s] \in Nat /\ read.idx[s] \in Nat /\ read.last[s] \in Nat
           /\ best[s] \in Int /\ best[s] >= -1
           /\ writing[s] \in Int /\ writing[s] >= -1
           /\ NewestStored(s) \in Int /\ NewestStored(s) >= best[s]
           /\ NewestStored(s) >= writing[s]
  BY BoundsAssumption DEF TypeOK, Frames, None, NewestStored

LEMMA InitFInv == Init => FInv
<1> SUFFICES ASSUME Init PROVE FInv
  OBVIOUS
<1>1. \A s \in Eyes : IndexOfSession(s)
  BY DEF Init, IndexOfSession, NoFrames, None
<1>2. OnTheWay /\ FlushOnlyWhenBehind
  BY DEF Init, OnTheWay, FlushOnlyWhenBehind, Idle
<1> QED BY <1>1, <1>2, InitTypeOK, InitRing DEF FInv

LEMMA NextIndexOfSession ==
    ASSUME TypeOK, TypeOK', [Next]_vars, NEW e \in Eyes, IndexOfSession(e)
    PROVE  IndexOfSession(e)'
<1>1. ASSUME UNCHANGED <<writing[e], best[e], latest[e]>> PROVE IndexOfSession(e)'
  BY <1>1 DEF IndexOfSession
<1>2. ASSUME NEW s \in Eyes, NEW f \in Frames, Store(s, f) PROVE IndexOfSession(e)'
  <2>1. CASE s = e
    BY <1>2, <2>1 DEF Store, IndexOfSession, TypeOK
  <2>2. CASE s # e
    BY <1>1, <1>2, <2>2 DEF Store, TypeOK
  <2> QED BY <2>1, <2>2
<1>3. ASSUME NEW s \in Eyes, Publish(s) PROVE IndexOfSession(e)'
  <2>1. CASE s = e
    <3>1. /\ latest'[e] = writing[e] /\ writing'[e] = None /\ writing[e] # None
          /\ best'[e] = (IF writing[e] > best[e] THEN writing[e] ELSE best[e])
      BY <1>3, <2>1 DEF Publish, TypeOK
    <3> QED BY <3>1, FlushNumbers DEF IndexOfSession
  <2>2. CASE s # e
    BY <1>1, <1>3, <2>2 DEF Publish, TypeOK
  <2> QED BY <2>1, <2>2
<1>4. ASSUME NEW s \in Eyes, Reset(s) PROVE IndexOfSession(e)'
  <2>1. CASE s = e
    BY <1>4, <2>1 DEF Reset, EndSession, Unlocked, IndexOfSession, TypeOK
  <2>2. CASE s # e
    BY <1>1, <1>4, <2>2 DEF Reset, EndSession, TypeOK
  <2> QED BY <2>1, <2>2
<1>5. CASE SetupDecoders \/ Looking \/ UNCHANGED vars
  BY <1>1, <1>5, LookingKeeps DEF SetupDecoders, readIdle, history, vars
<1> QED
  BY <1>1, <1>2, <1>3, <1>4, <1>5
     DEF Next, Looking, Load0, Load1, Frame0, Frame1, Latest, LatestSlot, Blit, readIdle

\* What a stream has stored grows until its session ends.
LEMMA NewestGrows ==
    ASSUME TypeOK, TypeOK', NEW s \in Eyes,
           (\E f \in Frames : Store(s, f)) \/ Publish(s), NEW e \in Eyes
    PROVE  NewestStored(e)' >= NewestStored(e)
<1>0. \A n \in Frames \cup {None} : n \in Int
  BY BoundsAssumption DEF Frames, None
<1>0a. {writing[e], best[e], writing'[e], best'[e]} \subseteq Frames \cup {None}
  BY DEF TypeOK
<1>1. ASSUME s # e PROVE UNCHANGED <<writing[e], best[e]>>
  BY <1>1 DEF Store, Publish, TypeOK
<1>2. ASSUME NEW f \in Frames, Store(s, f), s = e
      PROVE  writing[e] = None /\ best'[e] = best[e]
  BY <1>2 DEF Store, Unlocked
<1>3. ASSUME Publish(s), s = e PROVE best'[e] = NewestStored(e)
  BY <1>3 DEF Publish, TypeOK, NewestStored
<1>4. CASE s # e
  BY <1>0, <1>0a, <1>1, <1>4 DEF NewestStored
<1>5. CASE s = e /\ \E f \in Frames : Store(s, f)
  <2>1. writing[e] = None /\ best'[e] = best[e]
    BY <1>2, <1>5
  <2> QED BY <1>0, <1>0a, <2>1, FlushNumbers DEF NewestStored, None
<1>6. CASE s = e /\ Publish(s)
  BY <1>0, <1>0a, <1>3, <1>6 DEF NewestStored
<1> QED BY <1>4, <1>5, <1>6

LEMMA NextOnTheWay ==
    ASSUME FInv, [Next]_vars, TypeOK'
    PROVE  OnTheWay'
<1> USE DEF FInv
<1>n. FlushGap \in Nat /\ 0 \in Eyes /\ 1 \in Eyes
  BY GapAssumption DEF Eyes
<1>1. ASSUME NEW s \in Eyes, (\E f \in Frames : Store(s, f)) \/ Publish(s)
      PROVE  OnTheWay'
  <2>1. UNCHANGED <<read, ended, lag>>
    BY <1>1 DEF Store, Publish, flushing
  <2>2. NewestStored(0)' >= NewestStored(0)
    BY <1>1, <1>n, NewestGrows
  <2>5. NewestStored(0)' \in Int
    <3>1. {writing'[0], best'[0]} \subseteq Frames \cup {None}
      BY <1>n DEF TypeOK
    <3> QED BY <3>1, BoundsAssumption DEF NewestStored, Frames, None
  <2>3. \/ latest'[0] = latest[0] /\ best'[0] = best[0]
        \/ /\ best'[0] # None /\ latest'[0] = writing[0] /\ writing[0] <= NewestStored(0)
    <3>1. CASE \E f \in Frames : Store(s, f)
      BY <3>1 DEF Store
    <3>2. CASE Publish(s) /\ s # 0
      BY <3>2, <1>n DEF Publish, TypeOK
    <3>3. CASE Publish(s) /\ s = 0
      <4>1. /\ latest'[0] = writing[0] /\ writing[0] # None
            /\ best'[0] = (IF writing[0] > best[0] THEN writing[0] ELSE best[0])
        BY <3>3, <1>n DEF Publish, TypeOK
      <4> QED BY <4>1, <1>n, FlushNumbers DEF None
    <3> QED BY <1>1, <3>1, <3>2, <3>3
  <2>4. /\ NewestStored(0) \in Int /\ writing[0] \in Int /\ latest[0] \in Nat
        /\ read.idx[0] \in Nat
    BY <1>n, FlushNumbers
  <2> QED BY <2>1, <2>2, <2>3, <2>4, <2>5 DEF OnTheWay
<1>2. ASSUME NEW s \in Eyes, Reset(s) PROVE OnTheWay'
  BY <1>2 DEF Reset, EndSession, OnTheWay, BeforeLoads
<1>3. CASE LookForFrame
  BY <1>3, <1>n DEF LookForFrame, OnTheWay, TypeOK, readIdle
<1>4. CASE Submit
  <2> DEFINE f == read.last[0]
  <2>1. ASSUME ~ended, read.at = "look", GetFrame(f, 0) # None
        PROVE  latest[0] <= NewestStored(0)
    <3>1. f \in Nat /\ Slot(f) \in Slots /\ ring[0][Slot(f)] = f
      BY <2>1, <1>n, FlushNumbers, SlotInRing DEF GetFrame
    <3>2. f <= best[0] \/ f = writing[0]
      BY <3>1, <1>n, FlushNumbers DEF RingOfSession, Slots
    <3>3. f <= NewestStored(0)
      BY <3>1, <3>2, <1>n, FlushNumbers
    <3>4. best[0] # None => latest[0] <= best[0]
      BY <1>n DEF IndexOfSession
    <3> QED BY <2>1, <3>3, <3>4, <1>n, FlushNumbers DEF OnTheWay
  <2>2. /\ read.at = "look" /\ UNCHANGED <<readIdle, lag>>
        /\ \/ GetFrame(f, 0) # None /\ read'.at = "gap0" /\ ended' = ended
           \/ read'.at = "idle"
    BY <1>4 DEF Submit, Idle
  <2> QED BY <2>1, <2>2 DEF OnTheWay, NewestStored, readIdle
<1>5. CASE Gap0
  BY <1>5, <1>n DEF Gap0, OnTheWay, NewestStored, TypeOK, readIdle, flushing
<1>6. CASE Gap1
  <2>1. ASSUME ~ended, read.idx[0] - latest[1] > FlushGap
        PROVE  NewestStored(0) - best[1] \in Int /\ NewestStored(0) - best[1] >= FlushGap
    <3>1. read.at = "gap1" /\ read.idx[0] <= NewestStored(0)
      BY <1>6, <2>1 DEF Gap1, OnTheWay
    <3>2. latest[1] >= best[1] - 1
      BY <1>n, FlushNumbers DEF IndexOfSession, None
    <3> QED BY <2>1, <3>1, <3>2, <1>n, FlushNumbers
  <2>2. /\ read'.at \in {"flush", "load0"}
        /\ read'.at = "flush" =>
            /\ read.idx[0] - latest[1] > FlushGap
            /\ lag' = NewestStored(0) - best[1] /\ (~ended' => ~ended)
    <3> DEFINE far == read.idx[0] > 0 /\ latest[1] > 0 /\ read.idx[0] - latest[1] > FlushGap
    <3>1. /\ read' = [Idle EXCEPT !.at = IF far THEN "flush" ELSE "load0"]
          /\ lag' = (IF read'.at = "flush" THEN NewestStored(0) - best[1] ELSE 0)
          /\ ended' = (ended /\ read'.at = "flush")
      BY <1>6 DEF Gap1
    <3>2. read'.at = (IF far THEN "flush" ELSE "load0")
      BY <3>1 DEF Idle
    <3>3. CASE far
      BY <3>1, <3>2, <3>3
    <3>4. CASE ~far
      BY <3>2, <3>4
    <3> QED BY <3>3, <3>4
  <2> QED BY <2>1, <2>2 DEF OnTheWay
<1>7. ASSUME read'.at \notin {"look", "gap0", "gap1", "flush"} PROVE OnTheWay'
  BY <1>7 DEF OnTheWay
<1>8. CASE Flush \/ Load0 \/ Load1 \/ Frame0 \/ Frame1 \/ Blit
  <2>1. CASE Flush \/ Load0 \/ Load1
    BY <1>7, <2>1 DEF Flush, Load0, Load1, TypeOK
  <2>2. CASE Frame0 \/ Frame1
    BY <1>7, <2>2 DEF Frame0, Frame1, TypeOK
  <2>3. CASE Blit
    BY <1>7, <2>3 DEF Blit, Idle
  <2> QED BY <1>8, <2>1, <2>2, <2>3
<1>9. ASSUME NEW s \in Eyes, Latest(s) \/ LatestSlot(s) PROVE OnTheWay'
  BY <1>7, <1>9 DEF Latest, LatestSlot, TypeOK
<1>10. CASE SetupDecoders \/ UNCHANGED vars
  BY <1>10 DEF SetupDecoders, vars, history, flushing, OnTheWay, NewestStored
<1> QED
  BY <1>1, <1>2, <1>3, <1>4, <1>5, <1>6, <1>8, <1>9, <1>10 DEF Next

\* A stream 1 that is flushed is behind, for any gap, number of frames and of
\* sessions: a frame of stream 0 was found in its ring, so what is left of its
\* index is of this session.
THEOREM BehindWhenFlushed == Spec => []FlushOnlyWhenBehind
<1>1. FInv /\ [Next]_vars => FInv'
  <2> SUFFICES ASSUME FInv, [Next]_vars PROVE FInv'
    OBVIOUS
  <2>1. TypeOK' /\ RingOfSession'
    BY NextTypeOK, NextRing DEF FInv
  <2>2. \A s \in Eyes : IndexOfSession(s)'
    BY <2>1, NextIndexOfSession DEF FInv
  <2>3. OnTheWay'
    BY <2>1, NextOnTheWay
  <2>4. FlushOnlyWhenBehind'
    <3>1. CASE Flush
      <4>1. ~ended => ~(lag < FlushGap)
        BY <3>1, GapAssumption DEF Flush, FInv, OnTheWay
      <4>2. ~unwarranted /\ unwarranted' = (unwarranted \/ (1 \in decoders /\ ~ended /\ lag < FlushGap))
        BY <3>1 DEF Flush, FInv, FlushOnlyWhenBehind
      <4> QED BY <4>1, <4>2 DEF FlushOnlyWhenBehind
    <3>2. CASE unwarranted' = unwarranted
      BY <3>2 DEF FInv, FlushOnlyWhenBehind
    <3> QED
      BY <3>1, <3>2
         DEF Next, Store, Publish, Reset, EndSession, SetupDecoders, LookForFrame, Submit,
             Gap0, Gap1, Load0, Load1, Frame0, Frame1, Latest, LatestSlot, Blit, flushing,
             history, vars
  <2> QED BY <2>1, <2>2, <2>3, <2>4 DEF FInv
<1>2. FInv => FlushOnlyWhenBehind
  BY DEF FInv
<1> QED BY InitFInv, <1>1, <1>2, PTL DEF Spec
=============================================================================
