-------------------------------- MODULE Audio --------------------------------
(***************************************************************************)
(* The audio thread.  It polls the two regions the DSP mixes into in turn, *)
(* tells by their frame counters whether there is a new mix frame, and     *)
(* hands packets to the thread that sends: either through a ring of fixed  *)
(* packets, each with the previous and the current frame (thread_audio),   *)
(* or in buffers of a pool through the audio queue of the reliable stream  *)
(* (thread_audio_kcp).                                                     *)
(*                                                                         *)
(* A mix frame is abstracted to its number, 0 is silence.  The DSP, the    *)
(* session and what the reliable stream does with a buffer until it frees  *)
(* it are external.  The audio queue is a sequence here; SynQueue has its  *)
(* implementation.                                                         *)
(***************************************************************************)
EXTENDS Naturals, Sequences

CONSTANTS
  FC_MOD,      \* the width of the frame counters (2^16)
  SEQ_MOD,     \* the width of hdr[0] (2^8)
  IDX_MOD,     \* the width of head and tail (2^32)
  AUDIO_Q_LEN,
  SEQ_GAP_SAFE,
  BUF_COUNT,   \* RP_ARQ_AUDIO_COUNT
  STAGING_MAX, \* frames that fit a packet of the reliable stream
  DELAY,       \* mix frames completed during one pass of the polling loop
  MAX_MIX      \* bound: mix frames in all

ASSUME AudioAssumption ==
  /\ FC_MOD \in Nat /\ FC_MOD % 2 = 0 /\ FC_MOD >= 4
  /\ SEQ_MOD \in Nat /\ SEQ_MOD % 2 = 0 /\ SEQ_MOD >= 2
  /\ AUDIO_Q_LEN \in Nat \ {0}
  /\ IDX_MOD \in Nat /\ IDX_MOD % AUDIO_Q_LEN = 0 /\ IDX_MOD > AUDIO_Q_LEN
  /\ SEQ_GAP_SAFE \in Nat /\ BUF_COUNT \in Nat \ {0}
  /\ STAGING_MAX \in Nat \ {0}
  /\ DELAY \in Nat /\ MAX_MIX \in Nat /\ MAX_MIX >= 2

AUDIO_REDUNDANCY == 2
Silence == 0
Slot    == 0 .. AUDIO_Q_LEN - 1
Buf     == 1 .. BUF_COUNT
None    == 0

VARIABLES
  audio_kcp,      \* AUDIO_KCP, which thread runs
  mix,            \* DSP: number of the last frame mixed
  during,         \* frames mixed since the pass read its first counter
  ready,          \* nwm_send_ready and nwm_session_alive
  (* the audio thread: control; fc0 and the chosen region; last_fc         *)
  pc, fc0, src, last_fc, have_last,
  captured,       \* the frame number last_fc stands for (history)
  (* thread_audio: the staging packet, and the head loaded by audio_enqueue*)
  seq, staging, head_seen,
  (* AudioWorkArea: bufs, head, tail *)
  ring, head, tail,
  (* drain_audio: control, ready at its start, the packet it sends; the    *)
  (* frame last sent (history)                                             *)
  npc, drain_ready, sent,
  (* thread_audio_kcp: buffer, frames in it, staging_reprime; pool, sem    *)
  (* and the queue; the last frame queued (history)                        *)
  buf, frames, reprime, pool, sem, queue, queued,
  (* buffers the kcp thread has, and its release of one, given back but    *)
  (* for the permit                                                        *)
  taken, freeing

dsp   == <<mix, during>>
poll  == <<fc0, src, last_fc, have_last, captured>>
plain == <<seq, staging, head_seen, ring, tail>>
drain == <<head, npc, drain_ready, sent>>
kcp   == <<buf, frames, reprime>>
mem   == <<pool, sem, taken, freeing>>

vars == <<audio_kcp, ready, pc, dsp, poll, plain, drain, kcp, mem, queue,
          queued>>

Packet == [hdr : 0 .. SEQ_MOD - 1, older : 0 .. MAX_MIX,
           newest : 0 .. MAX_MIX, gap : BOOLEAN]

NoPacket == [hdr |-> 0, older |-> Silence, newest |-> Silence, gap |-> FALSE]

TypeOK ==
  /\ audio_kcp \in BOOLEAN /\ ready \in BOOLEAN
  /\ mix \in 0 .. MAX_MIX /\ during \in 0 .. DELAY
  /\ pc \in {"ready", "sem", "malloc", "poll", "fc1", "copy", "load", "store",
             "flush", "reset"}
  /\ fc0 \in 0 .. FC_MOD - 1 /\ last_fc \in 0 .. FC_MOD - 1
  /\ src \in {0, 1} /\ have_last \in BOOLEAN /\ captured \in 0 .. MAX_MIX
  /\ seq \in 0 .. SEQ_MOD - 1 /\ staging \in Packet
  /\ ring \in [Slot -> Packet]
  /\ {head, tail, head_seen} \subseteq 0 .. IDX_MOD - 1
  /\ npc \in {"idle", "drain", "send"}
  /\ drain_ready \in BOOLEAN /\ sent \in 0 .. MAX_MIX
  /\ buf \in Buf \cup {None} /\ reprime \in BOOLEAN
  /\ frames \in Seq(1 .. MAX_MIX) /\ Len(frames) <= STAGING_MAX
  /\ pool \subseteq Buf /\ sem \in 0 .. BUF_COUNT
  /\ queue \in Seq([buf : Buf, frames : Seq(1 .. MAX_MIX), reprime : BOOLEAN])
  /\ queued \in 0 .. MAX_MIX
  /\ taken \subseteq Buf /\ freeing \in BOOLEAN

-----------------------------------------------------------------------------
(* once_audio, init and the start of the thread. *)
Init ==
  /\ audio_kcp \in BOOLEAN
  /\ mix = 2 /\ during = 0 /\ ready = FALSE
  /\ pc = IF audio_kcp THEN "ready" ELSE "poll"
  /\ fc0 = 0 /\ src = 0 /\ last_fc = 0 /\ have_last = FALSE /\ captured = 0
  /\ seq = 0 /\ staging = NoPacket /\ head_seen = 0
  /\ ring = [i \in Slot |-> NoPacket] /\ head = 0 /\ tail = 0
  /\ npc = "idle" /\ drain_ready = FALSE /\ sent = 0
  /\ buf = None /\ frames = << >> /\ reprime = FALSE
  /\ pool = Buf /\ sem = BUF_COUNT
  /\ queue = << >> /\ queued = 0
  /\ taken = {} /\ freeing = FALSE

(* The DSP mixes the next frame into the region of the older one.  A pause *)
(* of the stream may miss frames, fewer than the counters can tell apart.  *)
Mix ==
  /\ mix < MAX_MIX
  /\ pc \in {"fc1", "copy"} => during < DELAY
  /\ mix + 1 - captured < FC_MOD
  /\ mix' = mix + 1
  /\ during' = IF pc \in {"fc1", "copy"} THEN during + 1 ELSE during
  /\ UNCHANGED <<audio_kcp, ready, pc, poll, plain, drain, kcp, mem, queue,
                 queued>>

Region(k)        == IF mix % 2 = k THEN mix ELSE mix - 1
Frame_counter(k) == Region(k) % FC_MOD

(* The session comes up and goes away. *)
Session ==
  /\ ready' = ~ready
  /\ UNCHANGED <<audio_kcp, pc, dsp, poll, plain, drain, kcp, mem, queue,
                 queued>>

-----------------------------------------------------------------------------
(* One pass of the loop: the counters, the fresher region, the frame.      *)
Wrapping_sub(a, b, m) == (a + m - b) % m

Newer_region(c0, c1) ==
  IF c1 # c0 /\ Wrapping_sub(c1, c0, FC_MOD) < FC_MOD \div 2 THEN 1 ELSE 0

Poll ==
  /\ pc = "poll"
  /\ pc' = "fc1"
  /\ fc0' = Frame_counter(0)
  /\ during' = 0
  /\ UNCHANGED <<audio_kcp, ready, mix, src, last_fc, have_last, captured,
                 plain, drain, kcp, mem, queue, queued>>

Start == IF audio_kcp THEN "ready" ELSE "poll"

(* The value of fc is kept in fc0 from here on. *)
Choose_region ==
  LET k == Newer_region(fc0, Frame_counter(1))
      fc == IF k = 1 THEN Frame_counter(1) ELSE fc0 IN
  /\ pc = "fc1"
  /\ src' = k
  /\ fc0' = fc
  /\ pc' = IF have_last /\ fc = last_fc THEN Start ELSE "copy"
  /\ UNCHANGED <<audio_kcp, ready, dsp, last_fc, have_last, captured, plain,
                 drain, kcp, mem, queue, queued>>

Fc_diff == IF have_last THEN Wrapping_sub(fc0, last_fc, FC_MOD) ELSE 1

Capture ==
  /\ last_fc' = fc0
  /\ have_last' = TRUE
  /\ captured' = Region(src)
  /\ UNCHANGED <<fc0, src>>

(***************************************************************************)
(* thread_audio                                                            *)
(***************************************************************************)
Fc_gap == (IF Fc_diff < AUDIO_REDUNDANCY THEN Fc_diff ELSE AUDIO_REDUNDANCY)
            - 1

(* The frame before moves to the older slot, unless frames were missed. *)
Older_kept == staging.newest
Older == IF Fc_gap > 0 THEN Silence ELSE staging.newest

Hdr == (seq + (IF Fc_diff < SEQ_GAP_SAFE THEN Fc_gap
               ELSE (SEQ_MOD - 1) \div 2)) % SEQ_MOD

Assemble ==
  /\ pc = "copy" /\ ~audio_kcp
  /\ staging' = [hdr |-> Hdr, older |-> Older, newest |-> Region(src),
                 gap |-> Fc_gap > 0]
  /\ Capture
  /\ pc' = "load"
  /\ UNCHANGED <<audio_kcp, ready, dsp, seq, head_seen, ring, tail, drain,
                 kcp, mem, queue, queued>>

(* audio_enqueue: drop the packet when the ring is full. *)
Load_head ==
  /\ pc = "load"
  /\ head_seen' = head
  /\ pc' = "store"
  /\ UNCHANGED <<audio_kcp, ready, dsp, poll, seq, staging, ring, tail, drain,
                 kcp, mem, queue, queued>>

Ring_full_late == Wrapping_sub(tail, head_seen, IDX_MOD) > AUDIO_Q_LEN
Ring_full == Wrapping_sub(tail, head_seen, IDX_MOD) >= AUDIO_Q_LEN

Audio_enqueue ==
  /\ pc = "store"
  /\ IF Ring_full THEN UNCHANGED <<ring, tail>>
     ELSE /\ ring' = [ring EXCEPT ![tail % AUDIO_Q_LEN] = staging]
          /\ tail' = (tail + 1) % IDX_MOD
  /\ seq' = (seq + 1) % SEQ_MOD
  /\ pc' = "poll"
  /\ UNCHANGED <<audio_kcp, ready, dsp, poll, staging, head_seen, drain, kcp,
                 mem, queue, queued>>

(* drain_audio, called by the sending thread all the time; it may sleep    *)
(* before it sends, and keeps the packet in the ring until it has.         *)
Drain_begin ==
  /\ npc = "idle"
  /\ drain_ready' = ready
  /\ npc' = "drain"
  /\ UNCHANGED <<audio_kcp, ready, pc, dsp, poll, plain, head, sent, kcp, mem,
                 queue, queued>>

Drain_next ==
  /\ npc = "drain"
  /\ npc' = IF head = tail THEN "idle" ELSE "send"
  /\ UNCHANGED <<audio_kcp, ready, pc, dsp, poll, plain, head, drain_ready,
                 sent, kcp, mem, queue, queued>>

Drain_send_kept ==
  /\ npc = "send"
  /\ sent' = IF drain_ready THEN ring[head % AUDIO_Q_LEN].newest ELSE sent
  /\ head' = IF drain_ready THEN (head + 1) % IDX_MOD ELSE head
  /\ npc' = IF drain_ready THEN "drain" ELSE "idle"
  /\ UNCHANGED <<audio_kcp, ready, pc, dsp, poll, plain, drain_ready, kcp,
                 mem, queue, queued>>
Drain_send ==
  /\ npc = "send"
  /\ sent' = IF drain_ready THEN ring[head % AUDIO_Q_LEN].newest ELSE sent
  /\ head' = (head + 1) % IDX_MOD
  /\ npc' = "drain"
  /\ UNCHANGED <<audio_kcp, ready, pc, dsp, poll, plain, drain_ready, kcp,
                 mem, queue, queued>>

-----------------------------------------------------------------------------
(***************************************************************************)
(* thread_audio_kcp                                                        *)
(***************************************************************************)
Ready ==
  /\ pc = "ready" /\ audio_kcp
  /\ ready
  /\ pc' = IF buf = None THEN "sem" ELSE "poll"
  /\ UNCHANGED <<audio_kcp, ready, dsp, poll, plain, drain, kcp, mem, queue,
                 queued>>

(* rp_audio_data_buf_malloc: a permit, then a buffer under the lock. *)
Malloc_sem ==
  /\ pc = "sem"
  /\ sem > 0
  /\ sem' = sem - 1
  /\ pc' = "malloc"
  /\ UNCHANGED <<audio_kcp, ready, dsp, poll, plain, drain, kcp, pool, taken,
                 freeing, queue, queued>>

Malloc ==
  /\ pc = "malloc"
  /\ IF pool = {}
     THEN pc' = "reset" /\ UNCHANGED <<buf, pool>>
     ELSE \E b \in pool : buf' = b /\ pool' = pool \ {b} /\ pc' = "poll"
  /\ UNCHANGED <<audio_kcp, ready, dsp, poll, plain, drain, frames, reprime,
                 sem, taken, freeing, queue, queued>>

Fc_reprime == Fc_diff > 1

(* A frame that does not continue the ones staged is left for the next     *)
(* pass, which finds an empty buffer.                                      *)
Must_flush_ignored == FALSE
Must_flush == Fc_reprime /\ frames # << >>

Stage ==
  /\ pc = "copy" /\ audio_kcp
  /\ ~Must_flush
  /\ frames' = Append(frames, Region(src))
  /\ reprime' = (reprime \/ Fc_reprime)
  /\ Capture
  /\ pc' = IF Len(frames) + 1 = STAGING_MAX THEN "flush" ELSE "ready"
  /\ UNCHANGED <<audio_kcp, ready, dsp, plain, drain, buf, mem, queue, queued>>

Force_flush ==
  /\ pc = "copy" /\ audio_kcp
  /\ Must_flush
  /\ pc' = "flush"
  /\ UNCHANGED <<audio_kcp, ready, dsp, poll, plain, drain, kcp, mem, queue,
                 queued>>

(* audio_enqueue_kcp: the queue has room for every buffer. *)
Audio_enqueue_kcp ==
  /\ pc = "flush"
  /\ queue' = Append(queue, [buf |-> buf, frames |-> frames,
                             reprime |-> reprime])
  /\ queued' = frames[Len(frames)]
  /\ buf' = None /\ frames' = << >> /\ reprime' = FALSE
  /\ pc' = "ready"
  /\ UNCHANGED <<audio_kcp, ready, dsp, poll, plain, drain, mem>>

(* get_audio_kcp, by the kcp thread ... *)
Get_audio_kcp ==
  /\ queue # << >>
  /\ taken' = taken \cup {Head(queue).buf}
  /\ queue' = Tail(queue)
  /\ UNCHANGED <<audio_kcp, ready, pc, dsp, poll, plain, drain, kcp, pool,
                 sem, freeing, queued>>

(* ... which frees the buffer once it is acknowledged: rp_audio_data_buf_  *)
(* free gives it back under the pool's lock, then the permit.  The lock of *)
(* the reliable stream is held throughout, so releases do not overlap.     *)
Buf_free_permit(b) ==
  /\ ~freeing /\ b \in taken
  /\ sem' = sem + 1
  /\ taken' = taken \ {b}
  /\ freeing' = TRUE
  /\ UNCHANGED <<audio_kcp, ready, pc, dsp, poll, plain, drain, kcp, pool,
                 queue, queued>>
Buf_free(b) ==
  /\ ~freeing /\ b \in taken
  /\ pool' = pool \cup {b}
  /\ taken' = taken \ {b}
  /\ freeing' = TRUE
  /\ UNCHANGED <<audio_kcp, ready, pc, dsp, poll, plain, drain, kcp, sem,
                 queue, queued>>

Free_sem ==
  /\ freeing
  /\ sem' = sem + 1
  /\ freeing' = FALSE
  /\ UNCHANGED <<audio_kcp, ready, pc, dsp, poll, plain, drain, kcp, pool,
                 taken, queue, queued>>

AudioThread ==
  \/ Poll \/ Choose_region
  \/ Assemble \/ Load_head \/ Audio_enqueue
  \/ Ready \/ Malloc_sem \/ Malloc \/ Stage \/ Force_flush
  \/ Audio_enqueue_kcp

Drain == Drain_begin \/ Drain_next \/ Drain_send

Next ==
  \/ Mix \/ Session
  \/ AudioThread
  \/ Drain
  \/ Get_audio_kcp
  \/ \E b \in Buf : Buf_free(b)
  \/ Free_sem

Spec == Init /\ [][Next]_vars

(* drain_audio is called from every wait of the sending thread, and the    *)
(* audio thread sleeps between passes only.                                *)
FairSpec == Spec /\ WF_vars(Drain) /\ WF_vars(AudioThread)

-----------------------------------------------------------------------------
(* The packets between head and tail.  *)
Pending == {ring[(head + i) % AUDIO_Q_LEN] :
              i \in 0 .. Wrapping_sub(tail, head, IDX_MOD) - 1}

(* thread_audio.rs:19-20, "each packet carries the previous and current    *)
(* frame so one lost packet leaves no gap": the older slot has the mix     *)
(* frame just before the newest one, or silence after a gap, whatever the  *)
(* counters' wrap and the writes of the DSP during the pass.               *)
PacketContinues ==
  \A p \in Pending \cup {staging} :
    /\ p.older # Silence => p.older = p.newest - 1
    /\ p.gap => p.older = Silence

(* audio_enqueue and drain_audio: the ring neither repeats, reorders nor   *)
(* overwrites a packet that is waiting or being sent.                      *)
SentForward ==
  [][/\ sent' # sent => sent' > sent
     /\ npc = "send" => ring'[head % AUDIO_Q_LEN] = ring[head % AUDIO_Q_LEN]
    ]_vars

(* thread_audio_kcp: a packet of the reliable stream holds consecutive mix *)
(* frames and continues the packet before, or says that it does not        *)
(* (reprime) - and says so only then.                                      *)
StreamContinues ==
  [][\A i \in 1 .. Len(queue') : i > Len(queue) =>
       LET p == queue'[i] IN
       /\ p.frames # << >>
       /\ \A j \in 2 .. Len(p.frames) : p.frames[j] = p.frames[j - 1] + 1
       /\ queued # 0 => (p.reprime <=> p.frames[1] # queued + 1)]_vars

(* A permit of the semaphore is a free buffer: the pool is never found     *)
(* empty, though buffer and permit are given back in two steps.            *)
PoolSuffices == pc = "malloc" => pool # {}

(* drain_audio: "a dead session drains without sending so the ring cannot  *)
(* back up forever" (thread_audio.rs:160).                                 *)
RingDrains == \A i \in 0 .. IDX_MOD - 1 : (head = i /\ tail # i) ~> head # i
=============================================================================
