----------------------------- MODULE AudioProofs -----------------------------
(***************************************************************************)
(* The audio thread for every size of the ring, of the pool and of the     *)
(* counters, and any number of mix frames.                                 *)
(*                                                                         *)
(* Inv has five parts.  TypeInv sharpens TypeOK by what each control point *)
(* knows.  PollInv relates the counters a pass has read to what the DSP    *)
(* has mixed meanwhile; with it the frame that is copied is never older    *)
(* than the one before.  RingInv gives head, tail and the head the         *)
(* producer has loaded as unwrapped counts.  PoolInv counts buffers and    *)
(* permits.  Under FewMixes, at most one mix frame completes during a pass *)
(* of the polling loop, ExactInv and StreamInv add that counters tell      *)
(* frames exactly, which is what the continuity of packets rests on.       *)
(***************************************************************************)
EXTENDS Audio, FiniteSets, FiniteSetTheorems, SequenceTheorems,
        NumberTheorems, TLAPS

RegionAt(m, k) == IF m % 2 = k THEN m ELSE m - 1

TypeInv ==
  /\ TypeOK
  /\ pc \in {"load", "store"} => ~audio_kcp
  /\ pc \in {"ready", "sem", "malloc", "flush", "reset"} => audio_kcp
  /\ pc # "flush" => Len(frames) < STAGING_MAX
  /\ pc = "flush" => frames # << >>
  /\ mix - during >= 2

PollInv ==
  /\ captured <= mix /\ mix - captured < FC_MOD
  /\ pc \in {"fc1", "copy"} => captured <= mix - during
  /\ pc = "fc1" => fc0 = RegionAt(mix - during, 0) % FC_MOD
  /\ pc = "copy" => RegionAt(mix, src) >= captured

RingAt(h, t, s) ==
  /\ head = h % IDX_MOD /\ tail = t % IDX_MOD /\ head_seen = s % IDX_MOD
  /\ s <= h /\ h <= t /\ t <= h + AUDIO_Q_LEN
  /\ pc = "store" => t <= s + AUDIO_Q_LEN
  /\ npc = "send" => h < t
  /\ \A i \in h .. t - 1 : /\ sent <= ring[i % AUDIO_Q_LEN].newest
                           /\ ring[i % AUDIO_Q_LEN].newest <= staging.newest
  /\ \A i, j \in h .. t - 1 : i <= j =>
       ring[i % AUDIO_Q_LEN].newest <= ring[j % AUDIO_Q_LEN].newest
  /\ sent <= staging.newest /\ staging.newest <= captured

RingInv == \E h, t, s \in Nat : RingAt(h, t, s)

Given == (IF freeing THEN 1 ELSE 0) + (IF pc = "malloc" THEN 1 ELSE 0)

PoolInv ==
  /\ sem + Given = Cardinality(pool)
  /\ taken \cap pool = {}
  /\ buf \notin pool \cup taken
  /\ \A i \in 1 .. Len(queue) : queue[i].buf \notin pool \cup taken \cup {buf}
  /\ \A i, j \in 1 .. Len(queue) : queue[i].buf = queue[j].buf => i = j
  /\ audio_kcp /\ pc \in {"poll", "fc1", "copy", "flush"} => buf # None
  /\ pc \in {"sem", "malloc"} => buf = None

ExactInv ==
  /\ have_last => last_fc = captured % FC_MOD
  /\ ~have_last => captured = 0
  /\ pc = "copy" => /\ fc0 = RegionAt(mix, src) % FC_MOD
                    /\ RegionAt(mix, src) > captured
                    /\ during = 0 => src = mix % 2

Continues(p) ==
  /\ p.older # Silence => p.older = p.newest - 1
  /\ p.gap => p.older = Silence

(* Every slot of the ring, waiting or not, holds a packet that continues,  *)
(* and the packet being assembled ends with the frame last captured.       *)
PacketInv ==
  /\ \A i \in Slot : Continues(ring[i])
  /\ Continues(staging)
  /\ ~audio_kcp => staging.newest = captured

StreamInv ==
  /\ frames # << >> => /\ have_last /\ audio_kcp
                       /\ frames[Len(frames)] = captured
  /\ \A j \in 2 .. Len(frames) : frames[j] = frames[j - 1] + 1
  /\ queued # 0 => have_last /\ audio_kcp
  /\ frames = << >> => ~reprime /\ (queued # 0 => queued = captured)
  /\ frames # << >> /\ queued # 0 => (reprime <=> frames[1] # queued + 1)

(* A pass takes a small part of the time a mix frame lasts.                *)
FewMixes == DELAY <= 1

-----------------------------------------------------------------------------
USE AudioAssumption

(* What the audio thread and the others start from.                        *)
LEMMA TypeInit == Init => TypeInv
<1> SUFFICES ASSUME Init PROVE TypeInv
  OBVIOUS
<1>1. NoPacket \in Packet
  BY DEF NoPacket, Packet, Silence
<1>2. ring \in [Slot -> Packet]
  BY <1>1 DEF Init, Slot
<1>3. /\ frames \in Seq(1 .. MAX_MIX) /\ Len(frames) < STAGING_MAX
      /\ queue \in Seq([buf : Buf, frames : Seq(1 .. MAX_MIX),
                        reprime : BOOLEAN])
  BY DEF Init
<1>4. {head, tail, head_seen} \subseteq 0 .. IDX_MOD - 1
  BY DEF Init
<1>5. /\ audio_kcp \in BOOLEAN /\ ready \in BOOLEAN /\ have_last \in BOOLEAN
      /\ drain_ready \in BOOLEAN /\ reprime \in BOOLEAN
      /\ freeing \in BOOLEAN /\ npc \in {"idle", "drain", "send"}
      /\ pc \in {"poll", "ready"} /\ (pc = "ready" => audio_kcp)
  BY DEF Init
<1>6. /\ mix \in 0 .. MAX_MIX /\ during \in 0 .. DELAY
      /\ fc0 \in 0 .. FC_MOD - 1 /\ last_fc \in 0 .. FC_MOD - 1
      /\ src \in {0, 1} /\ captured \in 0 .. MAX_MIX
      /\ seq \in 0 .. SEQ_MOD - 1 /\ sent \in 0 .. MAX_MIX
      /\ queued \in 0 .. MAX_MIX /\ sem \in 0 .. BUF_COUNT
      /\ mix - during >= 2
  BY DEF Init
<1>7. /\ buf \in Buf \cup {None} /\ pool \subseteq Buf /\ taken \subseteq Buf
      /\ staging \in Packet
  BY <1>1 DEF Init
<1> QED BY <1>2, <1>3, <1>4, <1>5, <1>6, <1>7 DEF TypeInv, TypeOK

(* The frame in a region is the last one mixed or the one before.          *)
LEMMA RegionType ==
  ASSUME TypeInv, NEW k \in {0, 1}
  PROVE  Region(k) \in 1 .. MAX_MIX /\ Region(k) = RegionAt(mix, k)
         /\ Frame_counter(k) \in 0 .. FC_MOD - 1
<1>1. mix \in 2 .. MAX_MIX
  BY DEF TypeInv, TypeOK
<1>2. Region(k) \in 1 .. MAX_MIX /\ Region(k) = RegionAt(mix, k)
  BY <1>1 DEF Region, RegionAt
<1> QED BY <1>2 DEF Frame_counter

(* The difference of two wrapped values is one.                            *)
LEMMA WrappingType ==
  ASSUME NEW m \in Nat \ {0}, NEW a \in 0 .. m - 1, NEW b \in 0 .. m - 1
  PROVE  Wrapping_sub(a, b, m) \in 0 .. m - 1
BY DEF Wrapping_sub

(* The pool is a finite set of at most BUF_COUNT buffers.                  *)
LEMMA PoolFinite ==
  ASSUME TypeInv
  PROVE  /\ IsFiniteSet(pool) /\ Cardinality(pool) \in Nat
         /\ Cardinality(pool) <= BUF_COUNT
<1>1. IsFiniteSet(Buf) /\ Cardinality(Buf) = BUF_COUNT
  BY FS_Interval DEF Buf
<1>2. pool \in SUBSET Buf
  BY DEF TypeInv, TypeOK
<1>3. IsFiniteSet(pool) /\ Cardinality(pool) <= Cardinality(Buf)
  BY <1>1, <1>2, FS_Subset
<1> QED BY <1>1, <1>3, FS_CardinalityType

(* A pass fetches counters and frames; the packet it assembles is one.     *)
LEMMA TypeStep == TypeInv /\ PoolInv /\ [Next]_vars => TypeInv'
<1> SUFFICES ASSUME TypeInv, PoolInv, [Next]_vars PROVE TypeInv'
  OBVIOUS
<1> USE DEF dsp, poll, plain, drain, kcp, mem
<1>1. CASE Mix
  BY <1>1 DEF Mix, TypeInv, TypeOK
<1>2. CASE Session
  BY <1>2 DEF Session, TypeInv, TypeOK
<1>3. CASE Poll
  <2>1. Frame_counter(0) \in 0 .. FC_MOD - 1
    BY RegionType DEF TypeInv, TypeOK
  <2> QED BY <1>3, <2>1 DEF Poll, TypeInv, TypeOK
<1>4. CASE Choose_region
  <2>1. Frame_counter(1) \in 0 .. FC_MOD - 1
    BY RegionType DEF TypeInv, TypeOK
  <2> QED BY <1>4, <2>1 DEF Choose_region, Newer_region, Start, TypeInv, TypeOK
<1>5. CASE Assemble
  <2>1. Region(src) \in 1 .. MAX_MIX
    BY RegionType DEF TypeInv, TypeOK
  <2>2. Hdr \in 0 .. SEQ_MOD - 1
    BY DEF Hdr, Fc_gap, Fc_diff, Wrapping_sub, AUDIO_REDUNDANCY,
       TypeInv, TypeOK
  <2>3. Older \in 0 .. MAX_MIX
    BY DEF Older, Packet, Silence, TypeInv, TypeOK
  <2>4. staging' \in Packet
    BY <1>5, <2>1, <2>2, <2>3 DEF Assemble, Packet, TypeInv, TypeOK
  <2> QED BY <1>5, <2>1, <2>4 DEF Assemble, Capture, TypeInv, TypeOK
<1>6. CASE Load_head
  BY <1>6 DEF Load_head, TypeInv, TypeOK
<1>7. CASE Audio_enqueue
  <2>1. tail % AUDIO_Q_LEN \in Slot
    BY DEF Slot, TypeInv, TypeOK
  <2>2. ring' \in [Slot -> Packet]
    BY <1>7, <2>1 DEF Audio_enqueue, TypeInv, TypeOK
  <2>3. tail' \in 0 .. IDX_MOD - 1
    <3>1. tail \in 0 .. IDX_MOD - 1
      BY DEF TypeInv, TypeOK
    <3>2. (tail + 1) % IDX_MOD \in 0 .. IDX_MOD - 1
      BY <3>1
    <3> QED BY <1>7, <3>1, <3>2 DEF Audio_enqueue
  <2>4. seq' \in 0 .. SEQ_MOD - 1
    BY <1>7 DEF Audio_enqueue, TypeInv, TypeOK
  <2> QED BY <1>7, <2>2, <2>3, <2>4 DEF Audio_enqueue, TypeInv, TypeOK
<1>8. CASE Drain_begin
  BY <1>8 DEF Drain_begin, TypeInv, TypeOK
<1>9. CASE Drain_next
  BY <1>9 DEF Drain_next, TypeInv, TypeOK
<1>10. CASE Drain_send
  <2>1. head % AUDIO_Q_LEN \in Slot
    BY DEF Slot, TypeInv, TypeOK
  <2>2. ring[head % AUDIO_Q_LEN].newest \in 0 .. MAX_MIX
    <3>1. ring \in [Slot -> Packet]
      BY DEF TypeInv, TypeOK
    <3> QED BY <2>1, <3>1 DEF Packet
  <2>3. head' \in 0 .. IDX_MOD - 1
    <3>1. head \in 0 .. IDX_MOD - 1
      BY DEF TypeInv, TypeOK
    <3>2. (head + 1) % IDX_MOD \in 0 .. IDX_MOD - 1
      BY <3>1
    <3> QED BY <1>10, <3>2 DEF Drain_send
  <2> QED BY <1>10, <2>2, <2>3 DEF Drain_send, TypeInv, TypeOK
<1>11. CASE Ready
  BY <1>11 DEF Ready, TypeInv, TypeOK
<1>12. CASE Malloc_sem
  BY <1>12 DEF Malloc_sem, TypeInv, TypeOK
<1>13. CASE Malloc
  BY <1>13 DEF Malloc, TypeInv, TypeOK
<1>14. CASE Stage
  <2>1. Region(src) \in 1 .. MAX_MIX
    BY RegionType DEF TypeInv, TypeOK
  <2>2. frames' \in Seq(1 .. MAX_MIX) /\ Len(frames') = Len(frames) + 1
    BY <1>14, <2>1 DEF Stage, TypeInv, TypeOK
  <2>3. Len(frames) < STAGING_MAX /\ Len(frames) \in Nat
    BY <1>14 DEF Stage, TypeInv, TypeOK
  <2>4. Fc_reprime \in BOOLEAN
    BY DEF Fc_reprime, TypeInv, TypeOK
  <2> QED BY <1>14, <2>1, <2>2, <2>3, <2>4 DEF Stage, Capture, TypeInv, TypeOK
<1>15. CASE Force_flush
  BY <1>15 DEF Force_flush, Must_flush, TypeInv, TypeOK
<1>16. CASE Audio_enqueue_kcp
  <2>1. frames' \in Seq(1 .. MAX_MIX) /\ Len(frames') = 0
    BY <1>16 DEF Audio_enqueue_kcp, TypeInv, TypeOK
  <2>2. buf \in Buf
    BY <1>16 DEF Audio_enqueue_kcp, PoolInv, TypeInv, TypeOK
  <2>3. [buf |-> buf, frames |-> frames, reprime |-> reprime]
          \in [buf : Buf, frames : Seq(1 .. MAX_MIX), reprime : BOOLEAN]
    BY <2>2 DEF TypeInv, TypeOK
  <2>4. queue' \in Seq([buf : Buf, frames : Seq(1 .. MAX_MIX),
                        reprime : BOOLEAN])
    BY <1>16, <2>3 DEF Audio_enqueue_kcp, TypeInv, TypeOK
  <2>5. frames[Len(frames)] \in 1 .. MAX_MIX
    <3>1. frames \in Seq(1 .. MAX_MIX) /\ frames # << >>
      BY <1>16 DEF Audio_enqueue_kcp, TypeInv, TypeOK
    <3>2. Len(frames) \in 1 .. Len(frames)
      BY <3>1, EmptySeq
    <3> QED BY <3>1, <3>2, ElementOfSeq
  <2>6. /\ pc' = "ready" /\ audio_kcp' /\ audio_kcp' = audio_kcp
        /\ buf' = None /\ queued' \in 0 .. MAX_MIX
    BY <1>16, <2>5 DEF Audio_enqueue_kcp, TypeInv, TypeOK
  <2>7. reprime' \in BOOLEAN
    BY <1>16 DEF Audio_enqueue_kcp
  <2>8. UNCHANGED <<ready, dsp, poll, plain, drain, mem>>
    BY <1>16 DEF Audio_enqueue_kcp
  <2> QED BY <2>1, <2>4, <2>6, <2>7, <2>8 DEF TypeInv, TypeOK
<1>17. CASE Get_audio_kcp
  <2>1. queue' \in Seq([buf : Buf, frames : Seq(1 .. MAX_MIX),
                        reprime : BOOLEAN])
    <3>1. queue \in Seq([buf : Buf, frames : Seq(1 .. MAX_MIX),
                         reprime : BOOLEAN]) /\ queue # << >>
      BY <1>17 DEF Get_audio_kcp, TypeInv, TypeOK
    <3> QED BY <1>17, <3>1 DEF Get_audio_kcp
  <2>2. Head(queue).buf \in Buf
    <3>1. queue \in Seq([buf : Buf, frames : Seq(1 .. MAX_MIX),
                         reprime : BOOLEAN]) /\ queue # << >>
      BY <1>17 DEF Get_audio_kcp, TypeInv, TypeOK
    <3>2. Head(queue) \in [buf : Buf, frames : Seq(1 .. MAX_MIX),
                           reprime : BOOLEAN]
      BY <3>1, HeadTailProperties
    <3> QED BY <3>2
  <2> QED BY <1>17, <2>1, <2>2 DEF Get_audio_kcp, TypeInv, TypeOK
<1>18. CASE \E b \in Buf : Buf_free(b)
  BY <1>18 DEF Buf_free, TypeInv, TypeOK
<1>19. CASE Free_sem
  <2>1. sem + 1 <= BUF_COUNT
    <3>1. sem + 1 + (IF pc = "malloc" THEN 1 ELSE 0) = Cardinality(pool)
      BY <1>19 DEF Free_sem, PoolInv, Given, TypeInv, TypeOK
    <3>2. sem \in Nat /\ Cardinality(pool) <= BUF_COUNT
      BY PoolFinite DEF TypeInv, TypeOK
    <3>3. Cardinality(pool) \in Nat
      BY PoolFinite
    <3>4. (IF pc = "malloc" THEN 1 ELSE 0) \in Nat
      OBVIOUS
    <3> QED BY <3>1, <3>2, <3>3, <3>4
  <2>2. sem' \in 0 .. BUF_COUNT
    BY <1>19, <2>1 DEF Free_sem, TypeInv, TypeOK
  <2>3. freeing' \in BOOLEAN
    BY <1>19 DEF Free_sem
  <2>4. UNCHANGED <<audio_kcp, ready, pc, dsp, poll, plain, drain, kcp, pool,
                    taken, queue, queued>>
    BY <1>19 DEF Free_sem
  <2> QED BY <2>2, <2>3, <2>4 DEF TypeInv, TypeOK
<1>20. CASE UNCHANGED vars
  BY <1>20 DEF vars, TypeInv, TypeOK
<1> QED
  BY <1>1, <1>2, <1>3, <1>4, <1>5, <1>6, <1>7, <1>8, <1>9, <1>10, <1>11,
     <1>12, <1>13, <1>14, <1>15, <1>16, <1>17, <1>18, <1>19, <1>20
  DEF Next, AudioThread, Drain

(* newer_region finds the region mixed last from counters that were read   *)
(* between two frames, wherever they wrap.                                 *)
LEMMA NewerIsLast ==
  ASSUME NEW m \in Nat, m >= 2
  PROVE  Newer_region(RegionAt(m, 0) % FC_MOD, RegionAt(m, 1) % FC_MOD)
           = m % 2
<1> DEFINE c == (m - 1) % FC_MOD
           d == m % FC_MOD
<1>1. FC_MOD \in Nat \ {0} /\ FC_MOD >= 4
  OBVIOUS
<1>0. PICK n \in Nat : m = n + 1
  OBVIOUS
<1>2. /\ c \in 0 .. FC_MOD - 1 /\ d \in 0 .. FC_MOD - 1
      /\ d = IF c + 1 = FC_MOD THEN 0 ELSE c + 1
  <2>1. m - 1 = n
    BY <1>0
  <2>2. (n + 1) % FC_MOD = IF (n % FC_MOD) + 1 = FC_MOD THEN 0
                           ELSE (n % FC_MOD) + 1
    BY <1>1, ModNext
  <2>3. n % FC_MOD \in 0 .. FC_MOD - 1 /\ (n + 1) % FC_MOD \in 0 .. FC_MOD - 1
    BY <1>1
  <2> QED BY <1>0, <2>1, <2>2, <2>3
<1> HIDE DEF c, d
<1>3. m % 2 \in {0, 1}
  OBVIOUS
<1>4. FC_MOD \div 2 \in Nat /\ FC_MOD = 2 * (FC_MOD \div 2)
  OBVIOUS
<1>5. CASE m % 2 = 1
  <2>1. RegionAt(m, 0) % FC_MOD = c /\ RegionAt(m, 1) % FC_MOD = d
    BY <1>5 DEF RegionAt, c, d
  <2>2. d # c
    BY <1>1, <1>2
  <2>3. (d + FC_MOD - c) % FC_MOD = 1
    <3>1. d + FC_MOD - c = 1 \/ d + FC_MOD - c = FC_MOD + 1
      BY <1>1, <1>2
    <3>2. 1 % FC_MOD = 1 /\ (FC_MOD + 1) % FC_MOD = 1
      BY <1>1
    <3> QED BY <3>1, <3>2
  <2> QED BY <1>1, <1>4, <1>5, <2>1, <2>2, <2>3
          DEF Newer_region, Wrapping_sub
<1>6. CASE m % 2 = 0
  <2>1. RegionAt(m, 0) % FC_MOD = d /\ RegionAt(m, 1) % FC_MOD = c
    BY <1>6 DEF RegionAt, c, d
  <2>2. (c + FC_MOD - d) % FC_MOD = FC_MOD - 1
    <3>1. c + FC_MOD - d = FC_MOD - 1 \/ c + FC_MOD - d = FC_MOD + (FC_MOD - 1)
      BY <1>1, <1>2
    <3>2. /\ (FC_MOD - 1) % FC_MOD = FC_MOD - 1
          /\ (FC_MOD + (FC_MOD - 1)) % FC_MOD = FC_MOD - 1
      BY <1>1
    <3> QED BY <3>1, <3>2
  <2> QED BY <1>1, <1>4, <1>6, <2>1, <2>2 DEF Newer_region, Wrapping_sub
<1> QED BY <1>3, <1>5, <1>6

(* The frame a pass copies is never older than the one copied before it:   *)
(* the DSP has mixed nothing since the counters were read, and the choice  *)
(* is right, or it has, and both regions are recent enough.                *)
LEMMA PollStep == TypeInv /\ PollInv /\ [Next]_vars => PollInv'
<1> SUFFICES ASSUME TypeInv, PollInv, [Next]_vars PROVE PollInv'
  OBVIOUS
<1> USE DEF dsp, poll
<1>0. /\ mix \in 2 .. MAX_MIX /\ during \in 0 .. DELAY /\ during <= mix - 2
      /\ captured \in 0 .. MAX_MIX /\ src \in {0, 1}
      /\ fc0 \in 0 .. FC_MOD - 1
  BY DEF TypeInv, TypeOK
<1>1. CASE Mix
  <2>1. /\ mix' = mix + 1 /\ mix + 1 - captured < FC_MOD
        /\ pc \in {"fc1", "copy"} => during' = during + 1
        /\ UNCHANGED <<pc, fc0, src, captured>>
    BY <1>1 DEF Mix
  <2>2. pc = "copy" => RegionAt(mix', src) >= captured
    BY <1>0, <2>1 DEF PollInv, RegionAt
  <2>3. pc \in {"fc1", "copy"} => mix' - during' = mix - during
    BY <1>0, <2>1
  <2> QED BY <1>0, <2>1, <2>2, <2>3 DEF PollInv
<1>2. CASE Poll
  <2>1. /\ pc' = "fc1" /\ fc0' = Frame_counter(0) /\ during' = 0
        /\ UNCHANGED <<mix, captured>>
    BY <1>2 DEF Poll
  <2>2. Frame_counter(0) = RegionAt(mix, 0) % FC_MOD
    BY DEF Frame_counter, Region, RegionAt
  <2>3. mix' - during' = mix
    BY <1>0, <2>1
  <2> QED BY <1>0, <2>1, <2>2, <2>3 DEF PollInv
<1>3. CASE Choose_region
  <2>1. /\ pc = "fc1" /\ src' = Newer_region(fc0, Frame_counter(1))
        /\ pc' \in {"poll", "ready", "copy"}
        /\ UNCHANGED <<mix, during, captured>>
    BY <1>3 DEF Choose_region, Start
  <2>2. src' \in {0, 1}
    BY <2>1 DEF Newer_region
  <2>3. RegionAt(mix, src') >= captured
    <3>1. CASE during = 0
      <4>1. fc0 = RegionAt(mix, 0) % FC_MOD
        BY <1>0, <2>1, <3>1 DEF PollInv
      <4>2. Frame_counter(1) = RegionAt(mix, 1) % FC_MOD
        BY DEF Frame_counter, Region, RegionAt
      <4>3. src' = mix % 2
        BY <1>0, <2>1, <4>1, <4>2, NewerIsLast
      <4> QED BY <1>0, <4>3 DEF RegionAt, PollInv
    <3>2. CASE during # 0
      <4>1. captured <= mix - 1
        BY <1>0, <2>1, <3>2 DEF PollInv
      <4> QED BY <1>0, <2>2, <4>1 DEF RegionAt
    <3> QED BY <3>1, <3>2
  <2> QED BY <1>0, <2>1, <2>3 DEF PollInv
<1>4. CASE Assemble \/ Stage
  <2>1. /\ pc = "copy" /\ pc' \notin {"fc1", "copy"} /\ mix' = mix
        /\ captured' = Region(src)
    BY <1>4 DEF Assemble, Stage, Capture
  <2>2. /\ captured' = RegionAt(mix, src) /\ RegionAt(mix, src) <= mix
        /\ RegionAt(mix, src) >= mix - 1 /\ RegionAt(mix, src) \in Nat
    BY <1>0, <2>1 DEF Region, RegionAt
  <2> QED BY <1>0, <2>1, <2>2 DEF PollInv
<1>5. CASE UNCHANGED <<mix, captured, during, pc, fc0, src>>
  BY <1>5 DEF PollInv
<1>6. CASE UNCHANGED <<mix, captured>> /\ pc' \notin {"fc1", "copy"}
  BY <1>6 DEF PollInv
<1>7. CASE Session \/ Drain \/ Get_audio_kcp \/ Free_sem \/ UNCHANGED vars
  BY <1>5, <1>7 DEF Session, Drain, Drain_begin, Drain_next, Drain_send,
     Get_audio_kcp, Free_sem, vars
<1>8. CASE \E b \in Buf : Buf_free(b)
  BY <1>5, <1>8 DEF Buf_free
<1>9. CASE Load_head \/ Audio_enqueue \/ Ready \/ Malloc_sem
  BY <1>6, <1>9 DEF Load_head, Audio_enqueue, Ready, Malloc_sem
<1>10. CASE Malloc \/ Force_flush \/ Audio_enqueue_kcp
  BY <1>6, <1>10 DEF Malloc, Force_flush, Audio_enqueue_kcp
<1> QED BY <1>1, <1>2, <1>3, <1>4, <1>7, <1>8, <1>9, <1>10
        DEF Next, AudioThread

(* Permits, given or on the way, are buffers of the pool, and a buffer is  *)
(* in one place only: the pool, the audio thread, the queue or the kcp     *)
(* thread.  Giving back a buffer before its permit keeps the count.        *)
LEMMA PoolStep == TypeInv /\ PoolInv /\ [Next]_vars => PoolInv'
<1> SUFFICES ASSUME TypeInv, PoolInv, [Next]_vars PROVE PoolInv'
  OBVIOUS
<1> USE DEF kcp, mem
<1> DEFINE Item == [buf : Buf, frames : Seq(1 .. MAX_MIX), reprime : BOOLEAN]
<1>0. /\ sem \in Nat /\ queue \in Seq(Item) /\ pool \subseteq Buf
      /\ taken \subseteq Buf /\ buf \in Buf \cup {None} /\ None \notin Buf
      /\ audio_kcp \in BOOLEAN
  BY DEF TypeInv, TypeOK, None, Buf
<1>c. IsFiniteSet(pool) /\ Cardinality(pool) \in Nat
  BY PoolFinite
<1> DEFINE M == IF pc = "malloc" THEN 1 ELSE 0
           F == IF freeing THEN 1 ELSE 0
<1>1. CASE UNCHANGED <<audio_kcp, sem, freeing, pc, pool, taken, buf, queue>>
  BY <1>1 DEF PoolInv, Given
<1>2. CASE /\ UNCHANGED <<audio_kcp, sem, freeing, pool, taken, buf, queue>>
           /\ pc # "malloc" /\ pc' \notin {"sem", "malloc"}
           /\ (audio_kcp /\ pc' \in {"poll", "fc1", "copy", "flush"} =>
                buf # None)
  <2>1. Given' = Given
    BY <1>2 DEF Given
  <2> QED BY <1>2, <2>1 DEF PoolInv
<1>3. CASE Mix \/ Session \/ Drain \/ UNCHANGED vars
  BY <1>1, <1>3 DEF Mix, Session, Drain, Drain_begin, Drain_next, Drain_send,
     vars
<1>4. CASE Poll \/ Choose_region \/ Assemble \/ Load_head \/ Audio_enqueue
  <2>1. CASE audio_kcp
    BY <1>2, <1>4, <2>1 DEF PoolInv, TypeInv, Poll, Choose_region, Start,
       Assemble, Load_head, Audio_enqueue
  <2>2. CASE ~audio_kcp
    BY <1>2, <1>4, <2>2 DEF Poll, Choose_region, Start, Assemble, Load_head,
       Audio_enqueue
  <2> QED BY <2>1, <2>2
<1>5. CASE Stage \/ Force_flush
  BY <1>2, <1>5 DEF PoolInv, Stage, Force_flush
<1>6. CASE Ready
  <2>1. CASE buf = None
    <3>1. /\ UNCHANGED <<sem, freeing, pool, taken, buf, queue>>
          /\ pc = "ready" /\ pc' = "sem"
      BY <1>6, <2>1 DEF Ready
    <3>2. Given' = Given
      BY <3>1 DEF Given
    <3> QED BY <2>1, <3>1, <3>2 DEF PoolInv
  <2>2. CASE buf # None
    BY <1>2, <1>6, <2>2 DEF Ready
  <2> QED BY <2>1, <2>2
<1>7. CASE Malloc_sem
  <2>1. /\ UNCHANGED <<freeing, pool, taken, buf, queue>>
        /\ pc = "sem" /\ pc' = "malloc" /\ sem' = sem - 1
    BY <1>7 DEF Malloc_sem
  <2>2. F \in Nat /\ Given = F /\ Given' = F + 1
    BY <2>1 DEF Given
  <2>3. sem' + Given' = sem + Given
    BY <1>0, <2>1, <2>2
  <2> QED BY <2>1, <2>3 DEF PoolInv
<1>8. CASE Malloc
  <2>1. pc = "malloc" /\ UNCHANGED <<sem, freeing, taken, queue, audio_kcp>>
    BY <1>8 DEF Malloc
  <2>2. F \in Nat /\ Given = F + 1
    BY <2>1 DEF Given
  <2>3. pool # {}
    BY <1>0, <1>c, <2>2, FS_EmptySet DEF PoolInv
  <2>4. PICK b \in pool : buf' = b /\ pool' = pool \ {b} /\ pc' = "poll"
    BY <1>8, <2>3 DEF Malloc
  <2>5. Given' = F
    BY <2>1, <2>2, <2>4 DEF Given
  <2>6. Cardinality(pool') = Cardinality(pool) - 1
    BY <1>c, <2>4, FS_RemoveElement
  <2>7. sem' + Given' = Cardinality(pool')
    BY <1>0, <1>c, <2>1, <2>2, <2>5, <2>6 DEF PoolInv
  <2>8. b \notin taken /\ b # None
    BY <1>0, <2>4 DEF PoolInv
  <2>9. \A i \in 1 .. Len(queue) : queue[i].buf # b
    BY <2>4 DEF PoolInv
  <2> QED BY <2>1, <2>4, <2>7, <2>8, <2>9 DEF PoolInv
<1>9. CASE Audio_enqueue_kcp
  <2> DEFINE e == [buf |-> buf, frames |-> frames, reprime |-> reprime]
  <2>1. /\ pc = "flush" /\ pc' = "ready" /\ buf' = None
        /\ queue' = Append(queue, e)
        /\ UNCHANGED <<sem, freeing, taken, pool, audio_kcp>>
    BY <1>9 DEF Audio_enqueue_kcp
  <2>2. buf \in Buf
    BY <1>0, <2>1 DEF PoolInv, TypeInv
  <2>3. e \in Item /\ e.buf = buf
    BY <2>2 DEF TypeInv, TypeOK
  <2> HIDE DEF e, Item
  <2>4. /\ Len(queue') = Len(queue) + 1 /\ Len(queue) \in Nat
        /\ \A i \in 1 .. Len(queue) : queue'[i] = queue[i]
        /\ queue'[Len(queue) + 1] = e
    BY <1>0, <2>1, <2>3, AppendProperties, LenProperties
  <2>5. Given' = Given
    BY <2>1 DEF Given
  <2>6. \A i \in 1 .. Len(queue') :
          queue'[i].buf \notin pool \cup taken \cup {None}
    <3> SUFFICES ASSUME NEW i \in 1 .. Len(queue')
                 PROVE  queue'[i].buf \notin pool \cup taken \cup {None}
      OBVIOUS
    <3>1. CASE i = Len(queue) + 1
      BY <1>0, <2>2, <2>3, <2>4, <3>1 DEF PoolInv
    <3>2. CASE i # Len(queue) + 1
      <4>1. i \in 1 .. Len(queue)
        BY <2>4, <3>2
      <4>2. queue[i].buf \in Buf
        <5>1. queue[i] \in Item
          BY <1>0, <4>1, ElementOfSeq
        <5> QED BY <5>1 DEF Item
      <4> QED BY <1>0, <2>4, <4>1, <4>2 DEF PoolInv
    <3> QED BY <3>1, <3>2
  <2>7. \A i, j \in 1 .. Len(queue') : queue'[i].buf = queue'[j].buf => i = j
    <3>1. \A i \in 1 .. Len(queue) : queue[i].buf # buf
      BY DEF PoolInv
    <3> QED BY <2>3, <2>4, <3>1 DEF PoolInv
  <2> QED BY <1>0, <2>1, <2>5, <2>6, <2>7 DEF PoolInv
<1>10. CASE Get_audio_kcp
  <2>1. /\ queue # << >> /\ taken' = taken \cup {Head(queue).buf}
        /\ queue' = Tail(queue)
        /\ UNCHANGED <<audio_kcp, sem, freeing, pc, pool, buf>>
    BY <1>10 DEF Get_audio_kcp
  <2> HIDE DEF Item
  <2>2. /\ Len(queue) \in Nat \ {0} /\ Len(queue') = Len(queue) - 1
        /\ \A i \in 1 .. Len(queue') : queue'[i] = queue[i + 1]
    BY <1>0, <2>1, HeadTailProperties, EmptySeq
  <2>3. Head(queue) = queue[1]
    BY <1>0, <2>1
  <2>4. Given' = Given
    BY <2>1 DEF Given
  <2>5. queue[1].buf \notin pool \cup taken \cup {buf}
    BY <2>2 DEF PoolInv
  <2>6. \A i \in 1 .. Len(queue') :
          /\ i + 1 \in 1 .. Len(queue) /\ i + 1 # 1
          /\ queue'[i].buf = queue[i + 1].buf
    BY <2>2
  <2>7. \A i \in 1 .. Len(queue') :
          queue'[i].buf \notin pool \cup taken' \cup {buf}
    BY <2>1, <2>2, <2>3, <2>6 DEF PoolInv
  <2>8. \A i, j \in 1 .. Len(queue') : queue'[i].buf = queue'[j].buf => i = j
    <3> SUFFICES ASSUME NEW i \in 1 .. Len(queue'),
                        NEW j \in 1 .. Len(queue'),
                        queue'[i].buf = queue'[j].buf
                 PROVE  i = j
      OBVIOUS
    <3>1. i + 1 = j + 1
      BY <2>6 DEF PoolInv
    <3> QED BY <2>2, <3>1
  <2> QED BY <2>1, <2>3, <2>4, <2>5, <2>7, <2>8 DEF PoolInv
<1>11. CASE \E b \in Buf : Buf_free(b)
  <2>1. PICK b \in Buf : Buf_free(b)
    BY <1>11
  <2>2. /\ ~freeing /\ freeing' /\ b \in taken /\ pool' = pool \cup {b}
        /\ taken' = taken \ {b}
        /\ UNCHANGED <<audio_kcp, sem, pc, buf, queue>>
    BY <2>1 DEF Buf_free
  <2>3. b \notin pool /\ b # buf /\ \A i \in 1 .. Len(queue) : queue[i].buf # b
    BY <2>2 DEF PoolInv
  <2>4. Cardinality(pool') = Cardinality(pool) + 1
    BY <1>c, <2>2, <2>3, FS_AddElement
  <2>5. M \in Nat /\ Given = M /\ Given' = M + 1
    BY <2>2 DEF Given
  <2>6. sem' + Given' = Cardinality(pool')
    BY <1>0, <1>c, <2>2, <2>4, <2>5 DEF PoolInv
  <2> QED BY <2>2, <2>3, <2>6 DEF PoolInv
<1>12. CASE Free_sem
  <2>1. /\ freeing /\ ~freeing' /\ sem' = sem + 1
        /\ UNCHANGED <<audio_kcp, pc, buf, queue, pool, taken>>
    BY <1>12 DEF Free_sem
  <2>2. M \in Nat /\ Given = M + 1 /\ Given' = M
    BY <2>1 DEF Given
  <2>3. sem' + Given' = sem + Given
    BY <1>0, <2>1, <2>2
  <2> QED BY <2>1, <2>3 DEF PoolInv
<1> QED BY <1>3, <1>4, <1>5, <1>6, <1>7, <1>8, <1>9, <1>10, <1>11, <1>12
        DEF Next, AudioThread

(* The indices in memory and the unwrapped counts name the same slots.     *)
LEMMA RingSlots ==
  ASSUME NEW h \in Nat, NEW t \in Nat, NEW s \in Nat, RingAt(h, t, s)
  PROVE  /\ head % AUDIO_Q_LEN = h % AUDIO_Q_LEN
         /\ tail % AUDIO_Q_LEN = t % AUDIO_Q_LEN
         /\ (head + 1) % IDX_MOD = (h + 1) % IDX_MOD
         /\ (tail + 1) % IDX_MOD = (t + 1) % IDX_MOD
         /\ head = tail => h = t
         /\ t <= s + AUDIO_Q_LEN =>
              Wrapping_sub(tail, head_seen, IDX_MOD) = t - s
<1>1. /\ AUDIO_Q_LEN \in Nat \ {0} /\ IDX_MOD \in Nat \ {0}
      /\ IDX_MOD % AUDIO_Q_LEN = 0 /\ AUDIO_Q_LEN < IDX_MOD
  OBVIOUS
<1>2. /\ head = h % IDX_MOD /\ tail = t % IDX_MOD /\ head_seen = s % IDX_MOD
      /\ s <= h /\ h <= t /\ t <= h + AUDIO_Q_LEN
  BY DEF RingAt
<1>3. /\ head % AUDIO_Q_LEN = h % AUDIO_Q_LEN
      /\ tail % AUDIO_Q_LEN = t % AUDIO_Q_LEN
  BY <1>1, <1>2, ModMod
<1>4. /\ (head + 1) % IDX_MOD = (h + 1) % IDX_MOD
      /\ (tail + 1) % IDX_MOD = (t + 1) % IDX_MOD
  BY <1>1, <1>2, ModSucc
<1>5. head = tail => h = t
  <2>1. t < h + IDX_MOD
    BY <1>1, <1>2
  <2> QED BY <1>1, <1>2, <2>1, ModInjective
<1>6. ASSUME t <= s + AUDIO_Q_LEN
      PROVE  Wrapping_sub(tail, head_seen, IDX_MOD) = t - s
  <2>1. s <= t /\ t - s < IDX_MOD
    BY <1>1, <1>2, <1>6
  <2>2. PICK w \in Nat \ {0} : w = IDX_MOD
    BY <1>1
  <2>3. t - s < w
    BY <2>1, <2>2
  <2>4. ((t % w) + w - (s % w)) % w = t - s
    BY <2>1, <2>3, WrapSub
  <2> QED BY <1>2, <2>2, <2>4 DEF Wrapping_sub
<1> QED BY <1>3, <1>4, <1>5, <1>6

(* The slot of tail is free when the ring is not full by any head at or    *)
(* behind the true one.                                                    *)
LEMMA TailSlotFree ==
  ASSUME NEW h \in Nat, NEW t \in Nat, t < h + AUDIO_Q_LEN,
         NEW i \in h .. t - 1
  PROVE  i % AUDIO_Q_LEN # t % AUDIO_Q_LEN
<1>1. AUDIO_Q_LEN \in Nat \ {0} /\ i \in Nat /\ i <= t /\ t < i + AUDIO_Q_LEN
      /\ i # t
  OBVIOUS
<1> QED BY <1>1, ModInjective

(* The producer's view of head is late and so at most too careful, a slot  *)
(* that waits is never refilled, and frames wait in the order they were    *)
(* captured in.                                                            *)
LEMMA RingStep == TypeInv /\ PollInv /\ RingInv /\ [Next]_vars => RingInv'
<1> SUFFICES ASSUME TypeInv, PollInv, RingInv, [Next]_vars PROVE RingInv'
  OBVIOUS
<1> USE DEF plain, drain, poll
<1>r. PICK h \in Nat, t \in Nat, s \in Nat : RingAt(h, t, s)
  BY DEF RingInv
<1>0. /\ captured \in Nat /\ sent \in Nat /\ staging.newest \in Nat
      /\ ring \in [Slot -> Packet] /\ src \in {0, 1}
      /\ AUDIO_Q_LEN \in Nat \ {0}
  BY DEF TypeInv, TypeOK, Packet
<1>s. \A i \in Nat : /\ i % AUDIO_Q_LEN \in Slot
                     /\ ring[i % AUDIO_Q_LEN].newest \in Nat
  BY <1>0 DEF Slot, Packet
<1>q. \A x, y, z \in Nat : RingAt(x, y, z)' => RingInv'
  BY DEF RingInv
<1>1. CASE /\ UNCHANGED <<head, tail, head_seen, npc, ring, staging, sent>>
           /\ captured <= captured' /\ captured' \in Nat
           /\ pc' = pc \/ pc' # "store"
  <2>1. RingAt(h, t, s)'
    BY <1>r, <1>0, <1>1 DEF RingAt
  <2> QED BY <2>1, <1>q
<1>2. CASE Mix \/ Session \/ Poll \/ Choose_region \/ UNCHANGED vars
  BY <1>0, <1>1, <1>2 DEF Mix, Session, Poll, Choose_region, Start, vars
<1>3. CASE Ready \/ Malloc_sem \/ Malloc \/ Force_flush \/ Audio_enqueue_kcp
           \/ Get_audio_kcp
  BY <1>0, <1>1, <1>3 DEF Ready, Malloc_sem, Malloc, Force_flush,
     Audio_enqueue_kcp, Get_audio_kcp
<1>4. CASE Free_sem \/ \E b \in Buf : Buf_free(b)
  BY <1>0, <1>1, <1>4 DEF Free_sem, Buf_free
<1>5. CASE Stage
  <2>1. pc = "copy" /\ captured' = Region(src)
    BY <1>5 DEF Stage, Capture
  <2>2. Region(src) = RegionAt(mix, src) /\ Region(src) \in Nat
    BY <1>0, RegionType
  <2> QED BY <1>0, <1>1, <1>5, <2>1, <2>2 DEF Stage, PollInv
<1>6. CASE Assemble
  <2>1. /\ pc = "copy" /\ pc' = "load" /\ captured' = Region(src)
        /\ UNCHANGED <<head, tail, head_seen, npc, ring, sent>>
    BY <1>6 DEF Assemble, Capture
  <2>2. Region(src) = RegionAt(mix, src) /\ Region(src) \in Nat
    BY <1>0, RegionType
  <2>3. captured <= captured' /\ captured' \in Nat
    BY <2>1, <2>2 DEF PollInv
  <2>4. staging'.newest = captured'
    BY <1>6, <2>1 DEF Assemble
  <2>5. staging.newest <= staging'.newest
    BY <1>0, <1>r, <2>3, <2>4 DEF RingAt
  <2>6. \A i \in h .. t - 1 : i \in Nat
    OBVIOUS
  <2>7. \A i \in h .. t - 1 :
          ring[i % AUDIO_Q_LEN].newest <= staging'.newest
    <3> TAKE i \in h .. t - 1
    <3>1. ring[i % AUDIO_Q_LEN].newest <= staging.newest
      BY <1>r DEF RingAt
    <3>2. ring[i % AUDIO_Q_LEN].newest \in Nat
      BY <1>s, <2>6, Zenon
    <3> QED BY <1>0, <2>3, <2>4, <2>5, <3>1, <3>2
  <2>8. sent <= staging'.newest
    BY <1>0, <1>r, <2>3, <2>4, <2>5 DEF RingAt
  <2>9. RingAt(h, t, s)'
    BY <1>r, <2>1, <2>3, <2>4, <2>7, <2>8 DEF RingAt
  <2> QED BY <2>9, <1>q
<1>7. CASE Load_head
  <2>1. /\ head_seen' = head /\ pc' = "store"
        /\ UNCHANGED <<head, tail, npc, ring, sent, staging, captured>>
    BY <1>7 DEF Load_head
  <2>2. RingAt(h, t, h)'
    BY <1>r, <1>0, <2>1 DEF RingAt
  <2> QED BY <2>2, <1>q
<1>8. CASE Audio_enqueue
  <2>1. /\ pc = "store" /\ pc' = "poll"
        /\ UNCHANGED <<head, head_seen, npc, sent, staging, captured>>
    BY <1>8 DEF Audio_enqueue
  <2>2. CASE Ring_full
    BY <1>0, <1>1, <1>8, <2>1, <2>2 DEF Audio_enqueue
  <2>3. CASE ~Ring_full
    <3>1. /\ ring' = [ring EXCEPT ![tail % AUDIO_Q_LEN] = staging]
          /\ tail' = (tail + 1) % IDX_MOD
      BY <1>8, <2>3 DEF Audio_enqueue
    <3>2. t <= s + AUDIO_Q_LEN /\ s <= h /\ h <= t
      BY <1>r, <2>1 DEF RingAt
    <3>3. Wrapping_sub(tail, head_seen, IDX_MOD) = t - s
      BY <1>r, <3>2, RingSlots
    <3>4. t < s + AUDIO_Q_LEN /\ t < h + AUDIO_Q_LEN
      BY <1>0, <2>3, <3>2, <3>3 DEF Ring_full
    <3>5. PICK u \in Nat : u = t + 1
      OBVIOUS
    <3>6. tail' = u % IDX_MOD /\ tail % AUDIO_Q_LEN = t % AUDIO_Q_LEN
      BY <1>r, <3>1, <3>5, RingSlots
    <3>7. /\ ring'[t % AUDIO_Q_LEN] = staging
          /\ \A i \in h .. t - 1 :
               ring'[i % AUDIO_Q_LEN] = ring[i % AUDIO_Q_LEN]
      <4>1. t % AUDIO_Q_LEN \in Slot
        BY <1>s
      <4>2. \A i \in h .. t - 1 : /\ i % AUDIO_Q_LEN \in Slot
                                  /\ i % AUDIO_Q_LEN # t % AUDIO_Q_LEN
        <5> TAKE i \in h .. t - 1
        <5>1. i \in Nat
          OBVIOUS
        <5>2. i % AUDIO_Q_LEN # t % AUDIO_Q_LEN
          BY <3>4, TailSlotFree, Zenon
        <5> QED BY <1>s, <5>1, <5>2
      <4> QED BY <1>0, <3>1, <3>6, <4>1, <4>2
    <3>8. \A i \in h .. u - 1 : i \in h .. t - 1 \/ i = t
      BY <3>5
    <3>9. \A i \in h .. u - 1 :
            /\ sent <= ring'[i % AUDIO_Q_LEN].newest
            /\ ring'[i % AUDIO_Q_LEN].newest <= staging.newest
      <4> TAKE i \in h .. u - 1
      <4>1. CASE i = t
        BY <1>0, <1>r, <3>7, <4>1 DEF RingAt
      <4>2. CASE i \in h .. t - 1
        BY <1>r, <3>7, <4>2 DEF RingAt
      <4> QED BY <3>8, <4>1, <4>2
    <3>10. \A i, j \in h .. u - 1 : i <= j =>
             ring'[i % AUDIO_Q_LEN].newest <= ring'[j % AUDIO_Q_LEN].newest
      <4> SUFFICES ASSUME NEW i \in h .. u - 1, NEW j \in h .. u - 1, i <= j
                   PROVE  ring'[i % AUDIO_Q_LEN].newest
                            <= ring'[j % AUDIO_Q_LEN].newest
        OBVIOUS
      <4>1. CASE j = t
        BY <3>7, <3>9, <4>1
      <4>2. CASE j # t
        <5>1. i \in h .. t - 1 /\ j \in h .. t - 1
          BY <3>5, <4>2
        <5> QED BY <1>r, <3>7, <5>1 DEF RingAt
      <4> QED BY <4>1, <4>2
    <3>11. RingAt(h, u, s)'
      BY <1>r, <1>0, <2>1, <3>2, <3>4, <3>5, <3>6, <3>9, <3>10 DEF RingAt
    <3> QED BY <3>11, <1>q
  <2> QED BY <2>2, <2>3
<1>9. CASE Drain_begin
  <2>1. RingAt(h, t, s)'
    BY <1>r, <1>9 DEF RingAt, Drain_begin
  <2> QED BY <2>1, <1>q
<1>10. CASE Drain_next
  <2>1. /\ npc' = "send" => head # tail
        /\ UNCHANGED <<pc, head, tail, head_seen, ring, sent, staging,
                       captured>>
    BY <1>10 DEF Drain_next
  <2>2. npc' = "send" => h < t
    <3>1. head # tail => h # t
      BY <1>r DEF RingAt
    <3> QED BY <1>r, <2>1, <3>1 DEF RingAt
  <2>3. RingAt(h, t, s)'
    BY <1>r, <2>1, <2>2 DEF RingAt
  <2> QED BY <2>3, <1>q
<1>11. CASE Drain_send
  <2>1. /\ npc = "send" /\ npc' = "drain" /\ head' = (head + 1) % IDX_MOD
        /\ sent' = sent \/ sent' = ring[head % AUDIO_Q_LEN].newest
        /\ UNCHANGED <<pc, tail, head_seen, ring, staging, captured>>
    BY <1>11 DEF Drain_send
  <2>2. PICK u \in Nat : u = h + 1
    OBVIOUS
  <2>3. head' = u % IDX_MOD /\ head % AUDIO_Q_LEN = h % AUDIO_Q_LEN
    BY <1>r, <2>1, <2>2, RingSlots
  <2>4. h < t /\ h \in h .. t - 1
    BY <1>r, <2>1 DEF RingAt
  <2>5. \A i \in u .. t - 1 : i \in h .. t - 1 /\ h <= i
    BY <2>2
  <2>6. /\ sent' <= staging.newest
        /\ \A i \in h .. t - 1 : sent' <= ring[i % AUDIO_Q_LEN].newest
    <3>1. CASE sent' = sent
      BY <1>r, <3>1 DEF RingAt
    <3>2. CASE sent' = ring[h % AUDIO_Q_LEN].newest
      <4>1. \A i \in h .. t - 1 : h <= i
        OBVIOUS
      <4> QED BY <1>r, <2>4, <3>2, <4>1 DEF RingAt
    <3> QED BY <2>1, <2>3, <3>1, <3>2
  <2>7. s <= u /\ u <= t /\ t <= u + AUDIO_Q_LEN
    BY <1>r, <1>0, <2>2, <2>4 DEF RingAt
  <2>8. RingAt(u, t, s)'
    BY <1>r, <2>1, <2>3, <2>5, <2>6, <2>7 DEF RingAt
  <2> QED BY <2>8, <1>q
<1> QED BY <1>2, <1>3, <1>4, <1>5, <1>6, <1>7, <1>8, <1>9, <1>10, <1>11
        DEF Next, AudioThread, Drain

-----------------------------------------------------------------------------
Inv == TypeInv /\ PollInv /\ PoolInv /\ RingInv

(* The invariant holds when the threads start.                             *)
LEMMA InvInit == Init => Inv
<1> SUFFICES ASSUME Init PROVE Inv
  OBVIOUS
<1>1. TypeInv
  BY TypeInit
<1>2. PollInv
  BY DEF PollInv, Init
<1>3. PoolInv
  <2>1. Cardinality(pool) = BUF_COUNT
    BY FS_Interval DEF Init, Buf
  <2>2. Given = 0
    BY DEF Given, Init
  <2>3. buf \notin pool \cup taken
    BY DEF Init, Buf, None
  <2>4. Len(queue) = 0 /\ pc \in {"poll", "ready"} /\ sem = BUF_COUNT
        /\ taken = {} /\ (audio_kcp => pc = "ready")
    BY DEF Init
  <2> QED BY <2>1, <2>2, <2>3, <2>4 DEF PoolInv
<1>4. RingInv
  <2>1. 0 % IDX_MOD = 0
    OBVIOUS
  <2>2. /\ head = 0 /\ tail = 0 /\ head_seen = 0 /\ npc = "idle" /\ sent = 0
        /\ captured = 0 /\ staging.newest = 0 /\ pc # "store"
    BY DEF Init, NoPacket, Silence
  <2>3. RingAt(0, 0, 0)
    BY <2>1, <2>2 DEF RingAt
  <2> QED BY <2>3 DEF RingInv
<1> QED BY <1>1, <1>2, <1>3, <1>4 DEF Inv

(* The invariant, for any number of frames mixed during a pass.            *)
LEMMA InvAlways == Spec => []Inv
<1>1. Inv /\ [Next]_vars => Inv'
  BY TypeStep, PollStep, PoolStep, RingStep DEF Inv
<1> QED BY InvInit, <1>1, PTL DEF Spec

(* The variables of the audio threads keep their types.                    *)
THEOREM AudioTypes == Spec => []TypeOK
<1>1. Inv => TypeOK
  BY DEF Inv, TypeInv
<1> QED BY <1>1, InvAlways, PTL

(* rp_audio_data_buf_malloc: whoever has a permit finds a buffer, though   *)
(* rp_audio_data_buf_free gives back buffer and permit in two steps.       *)
THEOREM PoolAlways == Spec => []PoolSuffices
<1>1. Inv => PoolSuffices
  <2> SUFFICES ASSUME Inv, pc = "malloc" PROVE pool # {}
    BY DEF PoolSuffices
  <2>1. sem \in Nat /\ IsFiniteSet(pool) /\ Cardinality(pool) \in Nat
    BY PoolFinite DEF Inv, TypeInv, TypeOK
  <2> DEFINE F == IF freeing THEN 1 ELSE 0
  <2>2. F \in Nat /\ Given = F + 1
    BY DEF Given
  <2>3. sem + Given = Cardinality(pool)
    BY DEF Inv, PoolInv
  <2>4. Cardinality(pool) # 0
    BY <2>1, <2>2, <2>3
  <2> QED BY <2>4, FS_EmptySet
<1> QED BY <1>1, InvAlways, PTL

(* What a step may do to the packet being sent and to the frame last sent. *)
LEMMA SentStep ==
  Inv /\ [Next]_vars =>
    /\ sent' # sent => sent' > sent
    /\ npc = "send" => ring'[head % AUDIO_Q_LEN] = ring[head % AUDIO_Q_LEN]
<1> SUFFICES ASSUME Inv, [Next]_vars
             PROVE  /\ sent' # sent => sent' > sent
                    /\ npc = "send" => ring'[head % AUDIO_Q_LEN]
                                         = ring[head % AUDIO_Q_LEN]
  OBVIOUS
<1> USE DEF plain, drain
<1>0. /\ TypeInv /\ sent \in Nat /\ ring \in [Slot -> Packet]
      /\ AUDIO_Q_LEN \in Nat \ {0}
  BY DEF Inv, TypeInv, TypeOK
<1>r. PICK h \in Nat, t \in Nat, s \in Nat : RingAt(h, t, s)
  BY DEF Inv, RingInv
<1>s. h % AUDIO_Q_LEN \in Slot /\ ring[h % AUDIO_Q_LEN].newest \in Nat
  BY <1>0 DEF Slot, Packet
<1>t. npc = "send" => h < t /\ h \in h .. t - 1
  BY <1>r DEF RingAt
<1>1. CASE UNCHANGED <<sent, ring>>
  BY <1>1
<1>2. CASE Drain_send
  <2>1. /\ npc = "send" /\ ring' = ring
        /\ sent' = sent \/ sent' = ring[head % AUDIO_Q_LEN].newest
    BY <1>2 DEF Drain_send
  <2>2. head % AUDIO_Q_LEN = h % AUDIO_Q_LEN
    BY <1>r, RingSlots
  <2>3. sent <= ring[h % AUDIO_Q_LEN].newest
    BY <1>r, <1>t, <2>1 DEF RingAt
  <2> QED BY <1>0, <1>s, <2>1, <2>2, <2>3
<1>3. CASE Audio_enqueue
  <2>1. pc = "store" /\ sent' = sent
    BY <1>3 DEF Audio_enqueue
  <2>2. CASE Ring_full
    BY <1>1, <1>3, <2>1, <2>2 DEF Audio_enqueue
  <2>3. CASE ~Ring_full
    <3>1. ring' = [ring EXCEPT ![tail % AUDIO_Q_LEN] = staging]
      BY <1>3, <2>3 DEF Audio_enqueue
    <3>2. t <= s + AUDIO_Q_LEN /\ s <= h /\ h <= t
      BY <1>r, <2>1 DEF RingAt
    <3>3. Wrapping_sub(tail, head_seen, IDX_MOD) = t - s
      BY <1>r, <3>2, RingSlots
    <3>4. t < h + AUDIO_Q_LEN
      BY <1>0, <2>3, <3>2, <3>3 DEF Ring_full
    <3>5. head % AUDIO_Q_LEN = h % AUDIO_Q_LEN
          /\ tail % AUDIO_Q_LEN = t % AUDIO_Q_LEN
      BY <1>r, RingSlots
    <3>6. npc = "send" => h % AUDIO_Q_LEN # t % AUDIO_Q_LEN
      BY <1>t, <3>4, TailSlotFree, Zenon
    <3> QED BY <1>0, <1>s, <2>1, <3>1, <3>5, <3>6
  <2> QED BY <2>2, <2>3
<1>4. CASE Mix \/ Session \/ Poll \/ Choose_region \/ UNCHANGED vars
  BY <1>1, <1>4 DEF Mix, Session, Poll, Choose_region, vars
<1>5. CASE Ready \/ Malloc_sem \/ Malloc \/ Force_flush \/ Audio_enqueue_kcp
           \/ Get_audio_kcp
  BY <1>1, <1>5 DEF Ready, Malloc_sem, Malloc, Force_flush,
     Audio_enqueue_kcp, Get_audio_kcp
<1>6. CASE Free_sem \/ \E b \in Buf : Buf_free(b)
  BY <1>1, <1>6 DEF Free_sem, Buf_free
<1>7. CASE Stage \/ Assemble \/ Load_head \/ Drain_begin \/ Drain_next
  BY <1>1, <1>7 DEF Stage, Assemble, Load_head, Drain_begin, Drain_next
<1> QED BY <1>2, <1>3, <1>4, <1>5, <1>6, <1>7 DEF Next, AudioThread, Drain

(* audio_enqueue and drain_audio: frames leave the ring in the order they  *)
(* were captured in, and the packet being sent is not written to.          *)
THEOREM SentForwardAlways == Spec => SentForward
<1>1. Inv /\ [Next]_vars =>
        [/\ sent' # sent => sent' > sent
         /\ npc = "send" => ring'[head % AUDIO_Q_LEN]
                              = ring[head % AUDIO_Q_LEN]]_vars
  BY SentStep
<1> QED BY <1>1, InvAlways, PTL DEF Spec, SentForward

-----------------------------------------------------------------------------
(* fc_diff is the number of mix frames from the one captured last to the   *)
(* one in the region that was chosen, though the counters wrap.            *)
LEMMA FcDiffExact ==
  ASSUME TypeInv, PollInv, ExactInv, pc = "copy"
  PROVE  /\ Region(src) = RegionAt(mix, src) /\ Region(src) \in Nat
         /\ captured \in Nat /\ Region(src) > captured
         /\ have_last => Fc_diff = Region(src) - captured
         /\ ~have_last => Fc_diff = 1
<1>1. /\ mix \in 2 .. MAX_MIX /\ src \in {0, 1} /\ captured \in Nat
      /\ FC_MOD \in Nat \ {0} /\ have_last \in BOOLEAN
  BY DEF TypeInv, TypeOK
<1>2. /\ Region(src) = RegionAt(mix, src) /\ Region(src) \in Nat
      /\ Region(src) <= mix
  BY <1>1, RegionType DEF RegionAt
<1>3. Region(src) > captured /\ Region(src) - captured < FC_MOD
  BY <1>1, <1>2 DEF ExactInv, PollInv
<1>4. ASSUME have_last PROVE Fc_diff = Region(src) - captured
  <2>1. PICK w \in Nat \ {0}, a \in Nat, b \in Nat :
           w = FC_MOD /\ a = Region(src) /\ b = captured
    BY <1>1, <1>2
  <2>2. b <= a /\ a - b < w
    BY <1>3, <2>1
  <2>3. ((a % w) + w - (b % w)) % w = a - b
    BY <2>2, WrapSub
  <2>4. fc0 = a % w /\ last_fc = b % w
    BY <1>2, <1>4, <2>1 DEF ExactInv
  <2> QED BY <1>4, <2>1, <2>3, <2>4 DEF Fc_diff, Wrapping_sub
<1> QED BY <1>1, <1>2, <1>3, <1>4 DEF Fc_diff

(* When at most one frame is mixed during a pass, the region chosen keeps  *)
(* the frame its counter told of until it is copied.                       *)
LEMMA ExactStep ==
  ASSUME FewMixes
  PROVE  TypeInv /\ PollInv /\ ExactInv /\ [Next]_vars => ExactInv'
<1> SUFFICES ASSUME TypeInv, PollInv, ExactInv, [Next]_vars PROVE ExactInv'
  OBVIOUS
<1> USE DEF dsp, poll
<1>0. /\ mix \in 2 .. MAX_MIX /\ during \in Nat /\ during <= DELAY
      /\ captured \in Nat /\ src \in {0, 1} /\ have_last \in BOOLEAN
      /\ during <= 1 /\ during <= mix - 2
  BY DEF TypeInv, TypeOK, FewMixes
<1>1. CASE Mix
  <2>1. /\ mix' = mix + 1 /\ (pc = "copy" => during < DELAY)
        /\ (pc = "copy" => during' = during + 1)
        /\ UNCHANGED <<pc, fc0, src, captured, have_last, last_fc>>
    BY <1>1 DEF Mix
  <2>2. pc = "copy" => during = 0 /\ during' # 0
    BY <1>0, <2>1 DEF FewMixes
  <2>3. pc = "copy" => RegionAt(mix', src) = RegionAt(mix, src)
    BY <1>0, <2>1, <2>2 DEF ExactInv, RegionAt
  <2> QED BY <2>1, <2>2, <2>3 DEF ExactInv
<1>2. CASE Choose_region
  <2> DEFINE k == Newer_region(fc0, Frame_counter(1))
  <2>1. /\ pc = "fc1" /\ src' = k
        /\ fc0' = IF k = 1 THEN Frame_counter(1) ELSE fc0
        /\ pc' = "copy" => ~(have_last /\ fc0' = last_fc)
        /\ UNCHANGED <<mix, during, captured, have_last, last_fc>>
    BY <1>2 DEF Choose_region, Start
  <2>2. k \in {0, 1} /\ FC_MOD \in Nat \ {0}
    BY DEF Newer_region
  <2>3. Frame_counter(1) = RegionAt(mix, 1) % FC_MOD
    BY DEF Frame_counter, Region, RegionAt
  <2>4. /\ fc0' = RegionAt(mix, k) % FC_MOD
        /\ during = 0 => k = mix % 2
    <3>1. CASE during = 0
      <4>1. fc0 = RegionAt(mix, 0) % FC_MOD
        BY <1>0, <2>1, <3>1 DEF PollInv
      <4>2. k = mix % 2
        BY <1>0, <2>3, <4>1, NewerIsLast
      <4> QED BY <2>1, <2>2, <2>3, <4>1, <4>2
    <3>2. CASE during = 1
      <4>1. PICK m \in Nat : mix = m + 1 /\ m >= 2
        BY <1>0, <3>2
      <4>2. fc0 = RegionAt(m, 0) % FC_MOD
        BY <1>0, <2>1, <3>2, <4>1 DEF PollInv
      <4>3. k = 1
        <5>1. CASE m % 2 = 1
          <6>1. RegionAt(mix, 1) = RegionAt(m, 1)
            BY <4>1, <5>1 DEF RegionAt
          <6> QED BY <2>3, <4>1, <4>2, <5>1, <6>1, NewerIsLast
        <5>2. CASE m % 2 = 0
          <6>1. RegionAt(mix, 0) = RegionAt(m, 0) /\ mix % 2 = 1
            BY <4>1, <5>2 DEF RegionAt
          <6>2. mix \in Nat /\ mix >= 2
            BY <1>0
          <6> QED BY <2>3, <4>2, <6>1, <6>2, NewerIsLast
        <5> QED BY <4>1, <5>1, <5>2
      <4> QED BY <2>1, <2>3, <3>2, <4>3
    <3> QED BY <1>0, <3>1, <3>2
  <2>5. pc' = "copy" => RegionAt(mix, k) > captured
    <3>1. pc' = "copy" => RegionAt(mix, k) >= captured
      BY <2>1, PollStep DEF PollInv
    <3>2. RegionAt(mix, k) \in Nat \ {0}
      BY <1>0, <2>2 DEF RegionAt
    <3>3. pc' = "copy" /\ have_last => RegionAt(mix, k) # captured
      BY <2>1, <2>4 DEF ExactInv
    <3>4. ~have_last => captured = 0
      BY DEF ExactInv
    <3> QED BY <1>0, <3>1, <3>2, <3>3, <3>4
  <2> HIDE DEF k
  <2> QED BY <2>1, <2>4, <2>5 DEF ExactInv
<1>3. CASE Assemble \/ Stage
  <2>1. /\ pc = "copy" /\ pc' # "copy" /\ captured' = Region(src)
        /\ last_fc' = fc0 /\ have_last'
    BY <1>3 DEF Assemble, Stage, Capture
  <2>2. Region(src) = RegionAt(mix, src)
    BY DEF Region, RegionAt
  <2> QED BY <2>1, <2>2 DEF ExactInv
<1>4. CASE UNCHANGED <<pc, fc0, src, captured, have_last, last_fc, mix,
                       during>>
  BY <1>4 DEF ExactInv
<1>5. CASE pc' # "copy" /\ UNCHANGED <<captured, have_last, last_fc>>
  BY <1>5 DEF ExactInv
<1>6. CASE Session \/ Drain \/ Get_audio_kcp \/ Free_sem \/ UNCHANGED vars
  BY <1>4, <1>6 DEF Session, Drain, Drain_begin, Drain_next, Drain_send,
     Get_audio_kcp, Free_sem, vars
<1>7. CASE \E b \in Buf : Buf_free(b)
  BY <1>4, <1>7 DEF Buf_free
<1>8. CASE Poll \/ Load_head \/ Audio_enqueue \/ Ready \/ Malloc_sem
  BY <1>5, <1>8 DEF Poll, Load_head, Audio_enqueue, Ready, Malloc_sem
<1>9. CASE Malloc \/ Force_flush \/ Audio_enqueue_kcp
  BY <1>5, <1>9 DEF Malloc, Force_flush, Audio_enqueue_kcp
<1> QED BY <1>1, <1>2, <1>3, <1>6, <1>7, <1>8, <1>9 DEF Next, AudioThread

(* A packet is assembled from the frame captured last and the next one, or *)
(* says that there is a gap.                                               *)
LEMMA PacketStep ==
  TypeInv /\ PollInv /\ ExactInv /\ PacketInv /\ [Next]_vars => PacketInv'
<1> SUFFICES ASSUME TypeInv, PollInv, ExactInv, PacketInv, [Next]_vars
             PROVE  PacketInv'
  OBVIOUS
<1> USE DEF plain, poll
<1>1. CASE UNCHANGED <<ring, staging, captured, audio_kcp>>
  BY <1>1 DEF PacketInv, Continues
<1>2. CASE Assemble
  <2>1. /\ pc = "copy" /\ ~audio_kcp /\ ring' = ring /\ audio_kcp' = audio_kcp
        /\ captured' = Region(src)
        /\ staging' = [hdr |-> Hdr, older |-> Older, newest |-> Region(src),
                       gap |-> Fc_gap > 0]
    BY <1>2 DEF Assemble, Capture
  <2>2. /\ Region(src) \in Nat /\ captured \in Nat /\ Region(src) > captured
        /\ have_last => Fc_diff = Region(src) - captured
        /\ ~have_last => Fc_diff = 1
    BY <2>1, FcDiffExact
  <2>3. /\ staging'.older = Older /\ staging'.newest = Region(src)
        /\ staging'.gap = (Fc_gap > 0)
    BY <2>1
  <2>4. CASE Fc_gap > 0
    <3>1. Older = Silence
      BY <2>4 DEF Older
    <3>2. Continues(staging')
      BY <2>3, <3>1 DEF Continues
    <3> QED BY <2>1, <2>3, <3>2 DEF PacketInv, Continues
  <2>5. CASE ~(Fc_gap > 0)
    <3>1. Older = captured
      BY <2>1, <2>5 DEF Older, PacketInv
    <3>2. have_last => Region(src) = captured + 1
      BY <2>2, <2>5 DEF Fc_gap, AUDIO_REDUNDANCY
    <3>3. ~have_last => captured = Silence
      BY DEF ExactInv, Silence
    <3>4. captured # Silence => captured = Region(src) - 1
      BY <2>2, <3>2, <3>3
    <3>5. Continues(staging')
      BY <2>3, <2>5, <3>1, <3>4 DEF Continues
    <3> QED BY <2>1, <2>3, <3>5 DEF PacketInv, Continues
  <2> QED BY <2>4, <2>5
<1>3. CASE Audio_enqueue
  <2>1. /\ UNCHANGED <<staging, captured, audio_kcp>>
        /\ \/ ring' = ring
           \/ ring' = [ring EXCEPT ![tail % AUDIO_Q_LEN] = staging]
    BY <1>3 DEF Audio_enqueue
  <2>2. \A i \in Slot : ring'[i] = ring[i] \/ ring'[i] = staging
    BY <2>1 DEF TypeInv, TypeOK
  <2> QED BY <2>1, <2>2 DEF PacketInv, Continues
<1>4. CASE Stage
  BY <1>4 DEF Stage, PacketInv, Continues
<1>5. CASE Mix \/ Session \/ Poll \/ Choose_region \/ UNCHANGED vars
  BY <1>1, <1>5 DEF Mix, Session, Poll, Choose_region, vars
<1>6. CASE Ready \/ Malloc_sem \/ Malloc \/ Force_flush \/ Audio_enqueue_kcp
           \/ Get_audio_kcp
  BY <1>1, <1>6 DEF Ready, Malloc_sem, Malloc, Force_flush,
     Audio_enqueue_kcp, Get_audio_kcp
<1>7. CASE Free_sem \/ \E b \in Buf : Buf_free(b)
  BY <1>1, <1>7 DEF Free_sem, Buf_free
<1>8. CASE Load_head \/ Drain
  BY <1>1, <1>8 DEF Load_head, Drain, Drain_begin, Drain_next, Drain_send
<1> QED BY <1>2, <1>3, <1>4, <1>5, <1>6, <1>7, <1>8 DEF Next, AudioThread

(* A frame is staged behind another only when it follows it, and the first *)
(* of a packet is marked exactly when it does not follow the packet before.*)
LEMMA StreamStep ==
  TypeInv /\ PollInv /\ ExactInv /\ StreamInv /\ [Next]_vars => StreamInv'
<1> SUFFICES ASSUME TypeInv, PollInv, ExactInv, StreamInv, [Next]_vars
             PROVE  StreamInv'
  OBVIOUS
<1> USE DEF poll, kcp
<1>0. /\ frames \in Seq(1 .. MAX_MIX) /\ captured \in 0 .. MAX_MIX
      /\ queued \in 0 .. MAX_MIX /\ src \in {0, 1}
      /\ Len(frames) \in Nat
  BY DEF TypeInv, TypeOK
<1>1. CASE UNCHANGED <<frames, reprime, queued, captured, have_last,
                       audio_kcp>>
  BY <1>1 DEF StreamInv
<1>2. CASE Stage
  <2>1. /\ pc = "copy" /\ audio_kcp /\ ~Must_flush /\ have_last'
        /\ frames' = Append(frames, Region(src))
        /\ reprime' = (reprime \/ Fc_reprime)
        /\ captured' = Region(src) /\ UNCHANGED <<audio_kcp, queued>>
    BY <1>2 DEF Stage, Capture
  <2>2. /\ Region(src) \in Nat /\ captured \in Nat /\ Region(src) > captured
        /\ have_last => Fc_diff = Region(src) - captured
    BY <2>1, FcDiffExact
  <2>3. Region(src) \in 1 .. MAX_MIX
    BY <1>0, RegionType
  <2>4. /\ frames' # << >> /\ Len(frames') = Len(frames) + 1
        /\ \A i \in 1 .. Len(frames) : frames'[i] = frames[i]
        /\ frames'[Len(frames) + 1] = Region(src)
    BY <1>0, <2>1, <2>3, AppendProperties
  <2>5. CASE frames = << >>
    <3>1. Len(frames) = 0
      BY <2>5
    <3>2. Len(frames') = 1 /\ frames'[1] = Region(src)
      BY <2>4, <3>1
    <3>3. ~reprime
      BY <2>5 DEF StreamInv
    <3>4. queued # 0 => queued = captured /\ have_last
      BY <2>5 DEF StreamInv
    <3>5. queued # 0 => (reprime' <=> frames'[1] # queued + 1)
      <4>1. reprime' <=> Fc_reprime
        BY <2>1, <3>3, Zenon
      <4>2. queued # 0 => (Fc_reprime <=> Region(src) # queued + 1)
        BY <2>2, <3>4 DEF Fc_reprime
      <4> QED BY <3>2, <4>1, <4>2
    <3>6. \A j \in 2 .. Len(frames') : frames'[j] = frames'[j - 1] + 1
      BY <3>2
    <3>7. frames'[Len(frames')] = captured'
      BY <2>1, <3>2
    <3>8. queued' # 0 => have_last' /\ audio_kcp'
      BY <2>1
    <3> QED BY <2>1, <2>4, <3>5, <3>6, <3>7, <3>8 DEF StreamInv
  <2>6. CASE frames # << >>
    <3>1. have_last /\ frames[Len(frames)] = captured
      BY <2>6 DEF StreamInv
    <3>2. Len(frames) >= 1
      BY <1>0, <2>6, EmptySeq
    <3>3. ~Fc_reprime
      BY <2>1, <2>6 DEF Must_flush
    <3>4. Region(src) = captured + 1
      BY <2>2, <3>1, <3>3 DEF Fc_reprime
    <3>5. \A j \in 2 .. Len(frames') : frames'[j] = frames'[j - 1] + 1
      <4> TAKE j \in 2 .. Len(frames')
      <4>1. CASE j = Len(frames) + 1
        <5>1. j - 1 = Len(frames) /\ j - 1 \in 1 .. Len(frames)
          BY <1>0, <3>2, <4>1
        <5> QED BY <2>4, <3>1, <3>4, <4>1, <5>1
      <4>2. CASE j # Len(frames) + 1
        <5>1. j \in 2 .. Len(frames) /\ j - 1 \in 1 .. Len(frames)
              /\ j \in 1 .. Len(frames)
          BY <1>0, <2>4, <4>2
        <5> QED BY <2>4, <5>1 DEF StreamInv
      <4> QED BY <4>1, <4>2
    <3>6. frames'[1] = frames[1]
      BY <1>0, <2>4, <3>2
    <3>7. reprime' <=> reprime
      BY <2>1, <3>3
    <3>8. frames'[Len(frames')] = captured'
      BY <2>1, <2>4
    <3>9. queued' # 0 => (reprime' <=> frames'[1] # queued' + 1)
      BY <2>1, <2>6, <3>6, <3>7 DEF StreamInv
    <3>10. queued' # 0 => have_last' /\ audio_kcp'
      BY <2>1
    <3> QED BY <2>1, <2>4, <3>5, <3>8, <3>9, <3>10 DEF StreamInv
  <2> QED BY <2>5, <2>6
<1>3. CASE Audio_enqueue_kcp
  <2>1. /\ pc = "flush" /\ frames' = << >> /\ ~reprime' /\ pc' = "ready"
        /\ queued' = frames[Len(frames)]
        /\ UNCHANGED <<captured, have_last, audio_kcp>>
    BY <1>3 DEF Audio_enqueue_kcp
  <2>2. frames # << >> /\ audio_kcp
    BY <2>1 DEF TypeInv
  <2>3. queued' = captured' /\ have_last'
    BY <2>1, <2>2 DEF StreamInv
  <2>4. Len(frames') = 0
    BY <2>1
  <2> QED BY <2>1, <2>2, <2>3, <2>4 DEF StreamInv
<1>4. CASE Assemble
  <2>1. ~audio_kcp
    BY <1>4 DEF Assemble
  <2>2. queued = 0
    BY <2>1 DEF StreamInv
  <2>3. frames = << >> /\ Len(frames) = 0 /\ ~reprime
    BY <2>1 DEF StreamInv
  <2>4. UNCHANGED <<audio_kcp, queued, frames, reprime>>
    BY <1>4 DEF Assemble
  <2> QED BY <2>2, <2>3, <2>4 DEF StreamInv
<1>5. CASE Mix \/ Session \/ Poll \/ Choose_region \/ UNCHANGED vars
  BY <1>1, <1>5 DEF Mix, Session, Poll, Choose_region, vars
<1>6. CASE Ready \/ Malloc_sem \/ Malloc \/ Force_flush \/ Get_audio_kcp
  BY <1>1, <1>6 DEF Ready, Malloc_sem, Malloc, Force_flush, Get_audio_kcp
<1>7. CASE Free_sem \/ \E b \in Buf : Buf_free(b)
  BY <1>1, <1>7 DEF Free_sem, Buf_free
<1>8. CASE Load_head \/ Audio_enqueue \/ Drain
  BY <1>1, <1>8 DEF Load_head, Audio_enqueue, Drain, Drain_begin, Drain_next,
     Drain_send
<1> QED BY <1>2, <1>3, <1>4, <1>5, <1>6, <1>7, <1>8 DEF Next, AudioThread

-----------------------------------------------------------------------------
ExactAll == Inv /\ ExactInv /\ PacketInv /\ StreamInv

(* With at most one mix frame during a pass, all the invariants hold.      *)
LEMMA ExactAlways ==
  ASSUME FewMixes
  PROVE  Spec => []ExactAll
<1>1. Init => ExactAll
  <2> SUFFICES ASSUME Init PROVE ExactAll
    OBVIOUS
  <2>1. Inv
    BY InvInit
  <2>2. /\ ~have_last /\ captured = 0 /\ pc \in {"poll", "ready"}
        /\ frames = << >> /\ Len(frames) = 0 /\ ~reprime /\ queued = 0
    BY DEF Init
  <2>3. ExactInv
    BY <2>2 DEF ExactInv
  <2>4. StreamInv
    BY <2>2 DEF StreamInv
  <2>5. /\ \A i \in Slot : ring[i] = NoPacket
        /\ staging = NoPacket
    BY DEF Init
  <2>6. PacketInv
    BY <2>2, <2>5 DEF PacketInv, Continues, NoPacket, Silence
  <2> QED BY <2>1, <2>3, <2>4, <2>6 DEF ExactAll
<1>2. ExactAll /\ [Next]_vars => ExactAll'
  <2>1. Inv /\ [Next]_vars => Inv'
    BY TypeStep, PollStep, PoolStep, RingStep DEF Inv
  <2>2. ExactAll /\ [Next]_vars => ExactInv' /\ PacketInv' /\ StreamInv'
    BY ExactStep, PacketStep, StreamStep DEF ExactAll, Inv
  <2> QED BY <2>1, <2>2 DEF ExactAll
<1> QED BY <1>1, <1>2, PTL DEF Spec

(* thread_audio: the older slot of every packet that waits has the mix     *)
(* frame just before the newest one, or silence after a gap - wherever the *)
(* counters wrap, provided at most one frame is mixed during a pass.       *)
THEOREM PacketAlways ==
  ASSUME FewMixes
  PROVE  Spec => []PacketContinues
<1>1. ExactAll => PacketContinues
  <2> SUFFICES ASSUME ExactAll, NEW p \in Pending \cup {staging}
               PROVE  Continues(p)
    BY DEF PacketContinues, Continues
  <2>1. /\ AUDIO_Q_LEN \in Nat \ {0} /\ IDX_MOD \in Nat \ {0}
        /\ head \in Nat /\ tail \in Nat
    BY DEF ExactAll, Inv, TypeInv, TypeOK
  <2>2. CASE p = staging
    BY <2>2 DEF ExactAll, PacketInv
  <2>3. CASE p \in Pending
    <3>1. PICK i \in 0 .. Wrapping_sub(tail, head, IDX_MOD) - 1 :
             p = ring[(head + i) % AUDIO_Q_LEN]
      BY <2>3 DEF Pending
    <3>2. (head + i) % AUDIO_Q_LEN \in Slot
      BY <2>1 DEF Slot
    <3> QED BY <3>1, <3>2 DEF ExactAll, PacketInv
  <2> QED BY <2>2, <2>3
<1> QED BY <1>1, ExactAlways, PTL

(* What a packet of the reliable stream holds when it is queued.           *)
LEMMA StreamQueued ==
  ExactAll /\ [Next]_vars =>
    \A i \in 1 .. Len(queue') : i > Len(queue) =>
      LET p == queue'[i] IN
      /\ p.frames # << >>
      /\ \A j \in 2 .. Len(p.frames) : p.frames[j] = p.frames[j - 1] + 1
      /\ queued # 0 => (p.reprime <=> p.frames[1] # queued + 1)
<1> SUFFICES ASSUME ExactAll, [Next]_vars,
                    NEW i \in 1 .. Len(queue'), i > Len(queue)
             PROVE  LET p == queue'[i] IN
                    /\ p.frames # << >>
                    /\ \A j \in 2 .. Len(p.frames) :
                         p.frames[j] = p.frames[j - 1] + 1
                    /\ queued # 0 =>
                         (p.reprime <=> p.frames[1] # queued + 1)
  OBVIOUS
<1> DEFINE Item == [buf : Buf, frames : Seq(1 .. MAX_MIX), reprime : BOOLEAN]
<1>0. TypeInv /\ PoolInv /\ queue \in Seq(Item) /\ Len(queue) \in Nat
  BY DEF ExactAll, Inv, TypeInv, TypeOK
<1>1. CASE queue' = queue
  BY <1>0, <1>1
<1>2. CASE Get_audio_kcp
  <2>1. queue # << >> /\ queue' = Tail(queue)
    BY <1>2 DEF Get_audio_kcp
  <2> HIDE DEF Item
  <2>2. Len(queue') = Len(queue) - 1
    BY <1>0, <2>1, HeadTailProperties
  <2> QED BY <1>0, <2>2
<1>3. CASE Audio_enqueue_kcp
  <2> DEFINE e == [buf |-> buf, frames |-> frames, reprime |-> reprime]
  <2>1. pc = "flush" /\ queue' = Append(queue, e)
    BY <1>3 DEF Audio_enqueue_kcp
  <2>2. frames # << >> /\ audio_kcp /\ buf \in Buf
    BY <1>0, <2>1 DEF TypeInv, TypeOK, PoolInv
  <2>3. e \in Item
    BY <1>0, <2>2 DEF TypeInv, TypeOK
  <2>4. e.frames = frames /\ e.reprime = reprime
    OBVIOUS
  <2> HIDE DEF e, Item
  <2>5. Len(queue') = Len(queue) + 1 /\ queue'[Len(queue) + 1] = e
    BY <1>0, <2>1, <2>3, AppendProperties
  <2>6. i = Len(queue) + 1
    BY <1>0, <2>5
  <2>7. queue'[i].frames = frames /\ queue'[i].reprime = reprime
    BY <2>4, <2>5, <2>6
  <2>8. StreamInv
    BY DEF ExactAll
  <2> QED BY <2>2, <2>7, <2>8 DEF StreamInv
<1>4. CASE Mix \/ Session \/ Poll \/ Choose_region \/ UNCHANGED vars
  BY <1>1, <1>4 DEF Mix, Session, Poll, Choose_region, vars
<1>5. CASE Ready \/ Malloc_sem \/ Malloc \/ Force_flush \/ Stage
  BY <1>1, <1>5 DEF Ready, Malloc_sem, Malloc, Force_flush, Stage
<1>6. CASE Free_sem \/ \E b \in Buf : Buf_free(b)
  BY <1>1, <1>6 DEF Free_sem, Buf_free
<1>7. CASE Assemble \/ Load_head \/ Audio_enqueue \/ Drain
  BY <1>1, <1>7 DEF Assemble, Load_head, Audio_enqueue, Drain, Drain_begin,
     Drain_next, Drain_send
<1> QED BY <1>2, <1>3, <1>4, <1>5, <1>6, <1>7 DEF Next, AudioThread

(* thread_audio_kcp: a packet of the reliable stream holds consecutive     *)
(* frames and continues the packet before, or says that it does not,       *)
(* provided at most one frame is mixed during a pass.                      *)
THEOREM StreamAlways ==
  ASSUME FewMixes
  PROVE  Spec => StreamContinues
<1>1. ExactAll /\ [Next]_vars =>
        [\A i \in 1 .. Len(queue') : i > Len(queue) =>
           LET p == queue'[i] IN
           /\ p.frames # << >>
           /\ \A j \in 2 .. Len(p.frames) : p.frames[j] = p.frames[j - 1] + 1
           /\ queued # 0 => (p.reprime <=> p.frames[1] # queued + 1)]_vars
  BY StreamQueued
<1> QED BY <1>1, ExactAlways, PTL DEF Spec, StreamContinues

=============================================================================
