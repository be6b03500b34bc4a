--------------------------- MODULE FrameAssembly ----------------------------
(***************************************************************************)
(* streaming_client::handle_video_shard: shards of video frames arrive on  *)
(* the network thread, are gathered in two shard sets per stream (the      *)
(* current frame and the next one) and a frame is pushed to its decoder    *)
(* when its last shard arrives and no other is missing.                    *)
(*                                                                         *)
(* Over UDP the shards of the frames sent so far may be lost, repeated or  *)
(* overtaken; over TCP they arrive once and in order (tcp_only).  A payload *)
(* is the pair of its frame and its index.                                 *)
(***************************************************************************)
EXTENDS Integers

CONSTANTS Streams,    \* video streams of the session: 0 left, 1 right, 2 alpha
          Raw,        \* streams whose codec is raw: they get no decoder
          MaxFrame,   \* bound: frames 0..MaxFrame are sent on each stream
          LastShard,  \* LastShard[f]: index of the last shard of frame f
          MaxSessions \* bound on the sessions

ASSUME StreamsAssumption == Streams \subseteq 0..2 /\ Raw \subseteq Streams
ASSUME FramesAssumption ==
    MaxFrame \in Nat /\ LastShard \in [0..MaxFrame -> Nat]
ASSUME SessionsAssumption == MaxSessions \in Nat

VARIABLES
    sessions,   \* sessions opened so far
    open,       \* a session is open
    tcp,        \* tcp_only: its shards travel over TCP
    described,  \* setup_decoders has run: the decoders exist
    streaming,  \* streaming_client::streaming
    sent,       \* number of frames the server has sent, per stream
    wire,       \* TCP: position of the next shard, per stream
    current,    \* current_shards
    next,       \* next_shards
    pushed,     \* the last push_data of each stream: frame and shards
    newest      \* greatest frame pushed in the session, -1 before the first

clientVars == <<described, streaming, current, next, pushed, newest>>
assemblyVars == <<sessions, open, tcp, sent, wire, clientVars>>

Decoded == Streams \ Raw
Shards  == [frame : 0..MaxFrame, idx : Nat]

-----------------------------------------------------------------------------
(* shard_set *)

\* shard_set::reset
Empty(f) == [frame |-> f, shards |-> {}]

\* target->shards[shard_idx] = shard, after a resize when it is too short.
Put(set, shard) ==
    [set EXCEPT !.shards =
        {old \in set.shards : old.idx # shard.idx} \cup {shard}]

\* No slot of the vector, which ends with the greatest index seen, is empty.
Complete(set) ==
    \A top \in set.shards : \A i \in 0..top.idx :
        \E shard \in set.shards : shard.idx = i

\* timing_info is on the last shard of a frame.
HasTiming(shard) == shard.idx = LastShard[shard.frame]

-----------------------------------------------------------------------------
NoPush == [frame |-> -1, shards |-> {}]

AssemblyInit ==
    /\ sessions = 0 /\ open = FALSE /\ tcp = FALSE
    /\ described = FALSE /\ streaming = FALSE
    /\ sent = [s \in Streams |-> 0]
    /\ wire = [s \in Streams |-> [frame |-> 0, idx |-> 0]]
    /\ current = [s \in Streams |-> Empty(0)]
    /\ next = [s \in Streams |-> Empty(0)]
    /\ pushed = [s \in Streams |-> NoPush]
    /\ newest = [s \in Streams |-> -1]

\* The server accepts a session over either transport and starts counting
\* frames.
OpenSession ==
    /\ ~open /\ sessions < MaxSessions
    /\ sessions' = sessions + 1 /\ open' = TRUE
    /\ tcp' \in BOOLEAN
    /\ sent' = [s \in Streams |-> 0]
    /\ wire' = [s \in Streams |-> [frame |-> 0, idx |-> 0]]
    /\ pushed' = [s \in Streams |-> NoPush]
    /\ newest' = [s \in Streams |-> -1]
    /\ UNCHANGED <<described, streaming, current, next>>

\* Variant: the decoders and the shard sets are kept.
CloseKeepsDecoders ==
    /\ open /\ open' = FALSE
    /\ streaming' = FALSE
    /\ UNCHANGED <<sessions, tcp, sent, wire, described, current, next, pushed, newest>>

\* The network thread ends: reset_stream_state.
CloseSession ==
    /\ open /\ open' = FALSE
    /\ described' = FALSE /\ streaming' = FALSE
    /\ current' = [s \in Streams |-> Empty(0)]
    /\ next' = [s \in Streams |-> Empty(1)]
    /\ UNCHANGED <<sessions, tcp, sent, wire, pushed, newest>>

\* video_stream_description: setup_decoders does nothing when decoder 0 exists.
Describe ==
    /\ open
    /\ described => 0 \notin Decoded
    /\ described' = TRUE
    /\ current' = [s \in Streams |-> Empty(0)]
    /\ next' = [s \in Streams |-> Empty(1)]
    /\ UNCHANGED <<sessions, open, tcp, sent, wire, streaming, pushed, newest>>

\* The server encodes and sends the next frame of a stream.
SendFrame(s) ==
    /\ open /\ sent[s] <= MaxFrame
    /\ sent' = [sent EXCEPT ![s] = @ + 1]
    /\ UNCHANGED <<sessions, open, tcp, wire, clientVars>>

\* The shard at the head of the TCP stream, and what follows it.
InOrder(s, shard) == shard = wire[s]
Advance(s) ==
    wire' = [wire EXCEPT ![s] =
                IF HasTiming(@) THEN [frame |-> @.frame + 1, idx |-> 0]
                                ELSE [frame |-> @.frame, idx |-> @.idx + 1]]

\* The client drops a shard without a decoder, and a stale one.
DropShard(s) ==
    UNCHANGED <<described, current, next, pushed, newest>>

\* push_data of every shard of the set.
PushFrame(s, set) ==
    /\ pushed' = [pushed EXCEPT ![s] = set]
    /\ newest' = [newest EXCEPT ![s] = IF set.frame > @ THEN set.frame ELSE @]

\* The shard goes to the set that collects its frame; the last one of a
\* complete frame pushes it.
Store(s, set, shard) ==
    LET filled == Put(set, shard)
    IN /\ IF HasTiming(shard) /\ Complete(filled)
          THEN PushFrame(s, filled) ELSE UNCHANGED <<pushed, newest>>
       /\ IF shard.frame = current[s].frame
          THEN current' = [current EXCEPT ![s] = filled] /\ UNCHANGED next
          ELSE next' = [next EXCEPT ![s] = filled] /\ UNCHANGED current

\* Variant: the current set is renumbered but not cleared.
RestartKeepsShards(s, shard) ==
    LET filled == Put([current[s] EXCEPT !.frame = shard.frame], shard)
    IN /\ IF HasTiming(shard) /\ Complete(filled)
          THEN PushFrame(s, filled) ELSE UNCHANGED <<pushed, newest>>
       /\ current' = [current EXCEPT ![s] = filled]
       /\ next' = [next EXCEPT ![s] = Empty(shard.frame + 1)]

\* A shard past both sets: they start over at its frame, which for a set of
\* one shard may already be complete.
Restart(s, shard) ==
    LET filled == Put(Empty(shard.frame), shard)
    IN /\ IF HasTiming(shard) /\ Complete(filled)
          THEN PushFrame(s, filled) ELSE UNCHANGED <<pushed, newest>>
       /\ current' = [current EXCEPT ![s] = filled]
       /\ next' = [next EXCEPT ![s] = Empty(shard.frame + 1)]

\* Variant: the sets start over at any other frame, an older one too.
HandleAnyFrame(s, shard) ==
    IF s \notin Decoded \/ ~described THEN DropShard(s)
    ELSE /\ UNCHANGED described
         /\ IF shard.frame = current[s].frame THEN Store(s, current[s], shard)
            ELSE IF shard.frame = next[s].frame THEN Store(s, next[s], shard)
            ELSE Restart(s, shard)

\* Variant: a shard past both sets is dropped.
HandleNoRestart(s, shard) ==
    IF s \notin Decoded \/ ~described THEN DropShard(s)
    ELSE /\ UNCHANGED described
         /\ IF shard.frame = current[s].frame THEN Store(s, current[s], shard)
            ELSE IF shard.frame = next[s].frame THEN Store(s, next[s], shard)
            ELSE UNCHANGED <<current, next, pushed, newest>>

\* handle_video_shard.
HandleShard(s, shard) ==
    IF s \notin Decoded \/ ~described THEN DropShard(s)
    ELSE /\ UNCHANGED described
         /\ IF shard.frame = current[s].frame THEN Store(s, current[s], shard)
            ELSE IF shard.frame = next[s].frame THEN Store(s, next[s], shard)
            ELSE IF shard.frame > current[s].frame THEN Restart(s, shard)
            ELSE UNCHANGED <<current, next, pushed, newest>>

\* A shard of a frame sent so far arrives: over TCP the next one, over UDP
\* any, and any number of times.
ReceiveShard(s, f, i) ==
    /\ open /\ f < sent[s]
    /\ i <= LastShard[f]
    /\ streaming' = TRUE
    /\ IF tcp
       THEN InOrder(s, [frame |-> f, idx |-> i]) /\ Advance(s)
       ELSE UNCHANGED wire
    /\ HandleShard(s, [frame |-> f, idx |-> i])
    /\ UNCHANGED <<sessions, open, tcp, sent>>

AssemblyNext ==
    \/ OpenSession \/ CloseSession \/ Describe
    \/ \E s \in Streams :
        \/ SendFrame(s)
        \/ \E f \in 0..MaxFrame : \E i \in 0..LastShard[f] : ReceiveShard(s, f, i)

AssemblySpec == AssemblyInit /\ [][AssemblyNext]_assemblyVars

-----------------------------------------------------------------------------
(* Properties *)

ShardSets == [frame : -1..(MaxFrame + 1), shards : SUBSET Shards]

SetOK(set) ==
    /\ set \in ShardSets
    /\ \A a, b \in set.shards : a.idx = b.idx => a = b

AssemblyTypeOK ==
    /\ sessions \in 0..MaxSessions
    /\ {open, tcp} \subseteq BOOLEAN /\ described \in BOOLEAN /\ streaming \in BOOLEAN
    /\ sent \in [Streams -> 0..(MaxFrame + 1)]
    /\ current \in [Streams -> ShardSets] /\ next \in [Streams -> ShardSets]
    /\ pushed \in [Streams -> ShardSets]
    /\ \A s \in Streams : SetOK(current[s]) /\ SetOK(next[s]) /\ SetOK(pushed[s])
    /\ newest \in [Streams -> -1..MaxFrame]

\* What reaches a decoder is one frame, whole and unmixed: each of its shards
\* and no shard of another frame, however they were lost, repeated or
\* overtaken on the way.
WholeFrames ==
    \A s \in Streams :
        pushed[s].frame >= 0 =>
            pushed[s].shards =
                {[frame |-> pushed[s].frame, idx |-> i] :
                    i \in 0..LastShard[pushed[s].frame]}

\* A decoder may see a frame overtaken by its successor, never by more: with
\* two sets, frame f is pushed at most after frame f + 1.  (When stream 0 is
\* raw, every stream description empties the sets again.)
OvertakenByOne ==
    0 \in Decoded => \A s \in Streams : pushed[s].frame >= newest[s] - 1

\* Seen from its decoder, each stream is one of OrderedFrames: the pushes of a
\* session deliver its frames in that order, and only the end of the session
\* starts the numbers again.
Delivery(s) == INSTANCE OrderedFrames
                WITH Frames <- 0..MaxFrame, last <- pushed[s].frame, newest <- newest[s]
PushesInOrder ==
    /\ \A s \in Streams : Delivery(s)!Init
    /\ [][\A s \in Streams : [Delivery(s)!Next]_(Delivery(s)!vars)]_assemblyVars

\* A session never delivers a frame of another one: what is pushed was sent
\* in this session, since the sets were emptied at the end of the last one.
PushedWasSent ==
    \A s \in Streams :
        /\ pushed[s].frame < sent[s]
        /\ described =>
            \A shard \in current[s].shards \cup next[s].shards :
                shard.frame < sent[s]

\* Over TCP, in a session whose stream is described: frame f was sent, is not
\* pushed, and of its shards those read so far are all kept.
InHand(s, f) ==
    /\ open /\ tcp /\ described /\ f < sent[s] /\ newest[s] < f
    /\ \/ wire[s].frame < f
       \/ /\ wire[s].frame = f
          /\ {[frame |-> f, idx |-> i] : i \in 0..wire[s].idx - 1}
                \subseteq current[s].shards \cup next[s].shards

\* No step loses a shard of a frame in hand, or lets its last go by without a
\* push, unless the session ends.
FramesStay ==
    [][\A s \in Decoded, f \in 0..MaxFrame :
        InHand(s, f) => InHand(s, f)' \/ newest'[s] >= f \/ ~open']_assemblyVars

\* Over TCP a frame in hand is pushed: it stays in hand until then, and does
\* not wait for ever, unless the session ends.
FramesPushed ==
    /\ FramesStay
    /\ []<>(\A s \in Decoded, f \in 0..MaxFrame : ~InHand(s, f))
=============================================================================
