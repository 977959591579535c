--------------------------- MODULE FramePipeline ---------------------------
(***************************************************************************)
(* The frame pipeline of the streaming payload (nwm_rs/src/entries): the   *)
(* screen thread captures a screen by DMA, CORE_COUNT work threads encode  *)
(* each captured frame together, and, over plain UDP, the nwm thread sends *)
(* the encoded rows.  WORK_COUNT frames may be in flight; frame contexts   *)
(* ("works") are reused round robin.  Every thread keeps its own index     *)
(* into the ring of works; nothing but the semaphores and flags below      *)
(* keeps the threads on the same frame.                                    *)
(*                                                                         *)
(* Each step reads or writes shared state once, so two steps of a thread   *)
(* are separated wherever another thread can touch that state in between;  *)
(* LeaderAlone and ScreenOwnsWork are what makes the grouping sound.       *)
(* Definitions marked by a second form above them (Claims_anyway, ...) are *)
(* followed by the form the code has; the first is the slip it avoids.     *)
(* A kernel wait (wait_syn) is a guard; once RESET_THREADS is set a wait   *)
(* may also give up, which ends its thread.                                *)
(***************************************************************************)
EXTENDS Naturals, FiniteSets

CONSTANTS
  CORE_COUNT,      \* RP_CONFIG.core_count: number of work threads
  WORK_COUNT,      \* frames in flight (NWM_WORK_COUNT)
  IMG_WORK_COUNT,  \* image buffers per screen
  FRAME_ID_COUNT,  \* values of a frame id (2^8 in the code, a u8)
  CAPTURED,        \* the screens the priority settings let through
  RELIABLE,        \* TRUE: KCP stream, FALSE: plain UDP (nwm handshake)
  DMA_TIMEOUT,     \* TRUE: a DMA may outlast the 100 ms of dma_sync
  UPDATES,         \* bound on the quality updates made while streaming
  RESETS           \* TRUE: somebody may call set_reset_threads

ASSUME ConstantsAssumption ==
  /\ CORE_COUNT \in Nat \ {0}
  /\ WORK_COUNT \in Nat \ {0}
  /\ IMG_WORK_COUNT \in Nat \ {0}
  /\ FRAME_ID_COUNT \in Nat \ {0}
  /\ CAPTURED \subseteq {"top", "bot"} /\ CAPTURED # {}
  /\ UPDATES \in Nat
  /\ RELIABLE \in BOOLEAN /\ DMA_TIMEOUT \in BOOLEAN /\ RESETS \in BOOLEAN

Thread == 0 .. CORE_COUNT - 1
Work   == 0 .. WORK_COUNT - 1
Screen == {"top", "bot"}
Img    == 0 .. IMG_WORK_COUNT - 1
Id     == 0 .. FRAME_ID_COUNT - 1

Buffer  == [screen : Screen, img : Img]
Frame   == [screen : Screen, img : Img, id : Id]
NoDma   == [screen |-> "none", img |-> 0]
NoFrame == [screen |-> "none", img |-> 0, id |-> 0]

LastThread == CORE_COUNT - 1

(* next_wrapped of a ranged index; a u8 frame id wraps the same way.       *)
Next_unwrapped(i, n) == i + 1
Next_wrapped(i, n) == IF i + 1 = n THEN 0 ELSE i + 1

VARIABLES
  reset,                \* RESET_THREADS
  (* kernel semaphores of SYN_HANDLES, by their count *)
  screen_ready, work_done, nwm_done, nwm_ready, thread_ready, work_ready,
  (* per work: SYN_HANDLES.works and BLIT_CTXES *)
  work_ready_flag, work_done_count, work_done_flag, bctx, should_capture,
  (* PARAMS of the screen thread *)
  work_index, thread_index, skip_frames, work_params,
  (* IMG_INFOS, CURRENT_FRAME_IDS, and the DMA in flight for each work *)
  img_index, frame_ids, dma,
  (* work threads: control, work index, loop cursor, frame being encoded *)
  pc, wi, cursor, job,
  (* screen thread: control, work, buffer captured into, threads to release *)
  spc, sw, sbuf, srel,
  (* nwm thread: control, NWM_WORK_INDEX, NWM_THREAD_INDEX, its event, and  *)
  (* per work DATA_BUF_HDRS and the rows in NWM_INFOS; last id sent         *)
  npc, nw, nt, nwm_event, hdr, data, sent,
  (* quality updates: the port thread, its permits, and JpegShared *)
  upc, updates, taken, quality_can_update, quality_need_update, quality_done_update

sems    == <<screen_ready, work_done, nwm_done, nwm_ready, thread_ready,
             work_ready>>
works   == <<work_ready_flag, work_done_count, work_done_flag, bctx,
             should_capture>>
params  == <<work_index, thread_index, skip_frames, work_params>>
imgs    == <<img_index, frame_ids, dma>>
worker  == <<pc, wi, cursor, job>>
screen  == <<spc, sw, sbuf, srel>>
nwm     == <<npc, nw, nt, nwm_event, hdr, data, sent>>
quality == <<upc, updates, taken, quality_can_update, quality_need_update,
             quality_done_update>>

vars == <<reset, sems, works, params, imgs, worker, screen, nwm, quality>>

(* Control points of a work thread, named after the call about to be made. *)
Leading  == {"init_bctx", "dma_sync", "skip_frame", "skip_release",
             "skip_wait", "nwm_done", "nwm_ready", "frame", "flags",
             "quality_flag", "quality_done", "quality", "work_ready"}
Encoding == {"pre_progress", "index_next", "screen_ready", "term",
             "signal"}
Dropping == {"encoded", "count", "drop_count", "drop_flag", "drop_quality",
             "drop_done"}
Control  == {"thread_ready", "claim", "other", "start", "exited"}
              \cup Leading \cup Encoding \cup Dropping

ScreenControl == {"screen_ready", "work_index", "work_done", "done_flag",
                  "capture", "params", "release", "exited"}
NwmControl    == {"acquire", "send", "event", "done", "exited"}
UpdateControl == {"idle", "need", "take", "write", "clear", "signal"}

TypeOK ==
  /\ reset \in BOOLEAN
  /\ screen_ready \in 0 .. 1
  /\ work_done \in [Work -> 0 .. 1]
  /\ nwm_done \in [Work -> 0 .. 1]
  /\ nwm_ready \in [Work -> 0 .. 1]
  /\ thread_ready \in [Thread -> 0 .. WORK_COUNT]
  /\ work_ready \in [Thread -> 0 .. WORK_COUNT]
  /\ work_ready_flag \in [Work -> BOOLEAN]
  /\ work_done_count \in [Work -> Nat]
  /\ work_done_flag \in [Work -> BOOLEAN]
  /\ bctx \in [Work -> Frame]
  /\ should_capture \in [Work -> BOOLEAN]
  /\ work_index \in Work
  /\ thread_index \in Thread
  /\ skip_frames \in [Work -> BOOLEAN]
  /\ work_params \in [Work -> Buffer]
  /\ img_index \in [Screen -> Img]
  /\ frame_ids \in [Screen -> Id]
  /\ dma \in [Work -> Buffer \cup {NoDma}]
  /\ pc \in [Thread -> Control]
  /\ wi \in [Thread -> Work]
  /\ cursor \in [Thread -> Thread]
  /\ job \in [Thread -> Frame \cup {NoFrame}]
  /\ spc \in ScreenControl
  /\ sw \in Work
  /\ sbuf \in Buffer
  /\ srel \in SUBSET Thread
  /\ npc \in NwmControl
  /\ nw \in Work
  /\ nt \in Thread
  /\ nwm_event \in BOOLEAN
  /\ hdr \in [Work -> Frame \cup {NoFrame}]
  /\ data \in [Work -> [Thread -> Frame \cup {NoFrame}]]
  /\ sent \in [Screen -> Id]
  /\ upc \in UpdateControl
  /\ updates \in 0 .. UPDATES
  /\ taken \in Nat
  /\ quality_can_update \in 0 .. WORK_COUNT
  /\ quality_need_update \in BOOLEAN
  /\ quality_done_update \in BOOLEAN

(***************************************************************************)
(* Semaphores.  Releasing a full semaphore fails in the kernel; release_sem*)
(* only logs the error, so the permit is lost.                             *)
(***************************************************************************)
Released(count, n, max) == IF count + n <= max THEN count + n ELSE count

Goto(t, l) == pc' = [pc EXCEPT ![t] = l]

(***************************************************************************)
(* init_syn_handles, the init functions of the threads' modules, and the   *)
(* quality tables written once by the encoder's own init.                  *)
(***************************************************************************)
Init ==
  /\ reset = FALSE
  /\ screen_ready = 1
  /\ work_done = [w \in Work |-> 1]
  /\ nwm_done = [w \in Work |-> 1]
  /\ nwm_ready = [w \in Work |-> 0]
  /\ thread_ready = [t \in Thread |-> 0]
  /\ work_ready = [t \in Thread |-> 0]
  /\ work_ready_flag = [w \in Work |-> FALSE]
  /\ work_done_count = [w \in Work |-> 0]
  /\ work_done_flag = [w \in Work |-> FALSE]
  /\ bctx = [w \in Work |-> [screen |-> "bot", img |-> 0, id |-> 0]]
  /\ should_capture = [w \in Work |-> FALSE]
  /\ work_index = 0
  /\ thread_index = 0
  /\ skip_frames = [w \in Work |-> FALSE]
  /\ work_params = [w \in Work |-> [screen |-> "bot", img |-> 0]]
  /\ img_index = [s \in Screen |-> 0]
  /\ frame_ids = [s \in Screen |-> 0]
  /\ dma = [w \in Work |-> NoDma]
  /\ pc = [t \in Thread |-> "thread_ready"]
  /\ wi = [t \in Thread |-> 0]
  /\ cursor = [t \in Thread |-> 0]
  /\ job = [t \in Thread |-> NoFrame]
  /\ spc = "screen_ready" /\ sw = 0 /\ srel = {}
  /\ sbuf = [screen |-> "bot", img |-> 0]
  /\ npc = (IF RELIABLE THEN "exited" ELSE "acquire")
  /\ nw = 0 /\ nt = 0 /\ nwm_event = FALSE
  /\ hdr = [w \in Work |-> NoFrame]
  /\ data = [w \in Work |-> [t \in Thread |-> NoFrame]]
  /\ sent = [s \in Screen |-> FRAME_ID_COUNT - 1]
  /\ upc = "idle" /\ updates = 0 /\ taken = 0
  /\ quality_can_update = WORK_COUNT
  /\ quality_need_update = FALSE
  /\ quality_done_update = TRUE

-----------------------------------------------------------------------------
(***************************************************************************)
(* The work threads: work_thread_loop.  The first thread to claim a work   *)
(* leads its frame: it reads the captured parameters, decides whether the  *)
(* frame is worth sending, sets the frame up and wakes the others.         *)
(***************************************************************************)

(* Waits of a work thread; each may give up once reset is set.             *)
Waiting_not_nwm == {"thread_ready", "skip_wait", "other", "quality_done",
                    "quality"}
Waiting == {"thread_ready", "skip_wait", "other", "nwm_done", "quality_done",
            "quality"}

Thread_ready_acquire(t) ==
  /\ pc[t] \in {"thread_ready", "skip_wait"}
  /\ thread_ready[t] > 0
  /\ thread_ready' = [thread_ready EXCEPT ![t] = @ - 1]
  /\ Goto(t, IF pc[t] = "thread_ready" THEN "claim" ELSE "init_bctx")
  /\ UNCHANGED <<reset, screen_ready, work_done, nwm_done, nwm_ready,
                 work_ready, works, params, imgs, wi, cursor, job, screen,
                 nwm, quality>>

(* A single work thread claims without touching the flag.                  *)
Claims_anyway(w) == TRUE
Claims(w) == CORE_COUNT = 1 \/ ~work_ready_flag[w]

Work_ready_acquire(t) ==
  LET w == wi[t] IN
  /\ pc[t] = "claim"
  /\ work_ready_flag' = [work_ready_flag EXCEPT
                           ![w] = IF CORE_COUNT = 1 THEN @ ELSE TRUE]
  /\ Goto(t, IF Claims(w) THEN "init_bctx" ELSE "other")
  /\ UNCHANGED <<reset, sems, work_done_count, work_done_flag, bctx,
                 should_capture, params, imgs, wi, cursor, job, screen, nwm,
                 quality>>

(* The context names the buffer of img_info now, not the one captured.     *)
Init_bctx(t) ==
  LET w == wi[t]
      s == work_params[w].screen IN
  /\ pc[t] = "init_bctx"
  /\ bctx' = [bctx EXCEPT ![w] = [screen |-> s, img |-> img_index[s],
                                  id |-> frame_ids[s]]]
  /\ should_capture' = [should_capture EXCEPT ![w] = FALSE]
  /\ Goto(t, "dma_sync")
  /\ UNCHANGED <<reset, sems, work_ready_flag, work_done_count,
                 work_done_flag, params, imgs, wi, cursor, job, screen, nwm,
                 quality>>

(* dma_sync ignores the time-out of its single wait.                       *)
Dma_ended_unchecked(w) == TRUE
Dma_ended(w) == dma[w] = NoDma \/ DMA_TIMEOUT

Dma_sync(t) ==
  /\ pc[t] = "dma_sync"
  /\ Dma_ended(wi[t])
  /\ Goto(t, "skip_frame")
  /\ UNCHANGED <<reset, sems, works, params, imgs, wi, cursor, job, screen,
                 nwm, quality>>

(* skip_frame: too early for the frame rate limit, or nothing changed.  The*)
(* leader asks for another capture into the same work, for itself alone.   *)
Skip_frame(t) ==
  /\ pc[t] = "skip_frame"
  /\ skip_frames' = [skip_frames EXCEPT ![wi[t]] = TRUE]
  /\ thread_index' = t
  /\ Goto(t, "skip_release")
  /\ UNCHANGED <<reset, sems, works, work_index, work_params, imgs, wi,
                 cursor, job, screen, nwm, quality>>

Skip_frame_release(t) ==
  /\ pc[t] = "skip_release"
  /\ screen_ready' = Released(screen_ready, 1, 1)
  /\ Goto(t, "skip_wait")
  /\ UNCHANGED <<reset, work_done, nwm_done, nwm_ready, thread_ready,
                 work_ready, works, params, imgs, wi, cursor, job, screen,
                 nwm, quality>>

(* skip_frame: the frame is to be sent.                                    *)
Encode_frame(t) ==
  /\ pc[t] = "skip_frame"
  /\ Goto(t, IF RELIABLE THEN "frame" ELSE "nwm_done")
  /\ UNCHANGED <<reset, sems, works, params, imgs, wi, cursor, job, screen,
                 nwm, quality>>

(* Wait until the nwm thread has sent the work's last frame, then empty the*)
(* rows and write the packet header of the new one.                        *)
Emptied_not(w) == data[w]
Emptied(w) == [j \in Thread |-> NoFrame]

Nwm_done_acquire(t) ==
  LET w == wi[t] IN
  /\ pc[t] = "nwm_done"
  /\ nwm_done[w] > 0
  /\ nwm_done' = [nwm_done EXCEPT ![w] = @ - 1]
  /\ data' = [data EXCEPT ![w] = Emptied(w)]
  /\ hdr' = [hdr EXCEPT ![w] = bctx[w]]
  /\ Goto(t, "nwm_ready")
  /\ UNCHANGED <<reset, screen_ready, work_done, nwm_ready, thread_ready,
                 work_ready, works, params, imgs, wi, cursor, job, screen,
                 npc, nw, nt, nwm_event, sent, quality>>

Nwm_ready_release(t) ==
  /\ pc[t] = "nwm_ready"
  /\ nwm_ready' = [nwm_ready EXCEPT ![wi[t]] = Released(@, 1, 1)]
  /\ Goto(t, "frame")
  /\ UNCHANGED <<reset, screen_ready, work_done, nwm_done, thread_ready,
                 work_ready, works, params, imgs, wi, cursor, job, screen,
                 nwm, quality>>

(* img_info_next and the frame id; init_work only touches what the leader  *)
(* owns (the split of the rows is abstracted).                             *)
Frame_release(t) ==
  LET s == bctx[wi[t]].screen IN
  /\ pc[t] = "frame"
  /\ img_index' = [img_index EXCEPT ![s] = Next_wrapped(@, IMG_WORK_COUNT)]
  /\ frame_ids' = [frame_ids EXCEPT ![s] = Next_wrapped(@, FRAME_ID_COUNT)]
  /\ Goto(t, "flags")
  /\ UNCHANGED <<reset, sems, works, params, dma, wi, cursor, job, screen,
                 nwm, quality>>

Flags_release_not_done(t) ==
  /\ pc[t] = "flags"
  /\ skip_frames' = [skip_frames EXCEPT ![wi[t]] = FALSE]
  /\ Goto(t, "quality_flag")
  /\ UNCHANGED <<reset, sems, works, work_index, thread_index, work_params,
                 imgs, wi, cursor, job, screen, nwm, quality>>

Flags_release(t) ==
  LET w == wi[t] IN
  /\ pc[t] = "flags"
  /\ skip_frames' = [skip_frames EXCEPT ![w] = FALSE]
  /\ work_done_flag' = [work_done_flag EXCEPT ![w] = FALSE]
  /\ Goto(t, "quality_flag")
  /\ UNCHANGED <<reset, sems, work_ready_flag, work_done_count, bctx,
                 should_capture, work_index, thread_index, work_params, imgs,
                 wi, cursor, job, screen, nwm, quality>>

(* jpeg_quality_work_acquire: give way to an update that has announced     *)
(* itself, then take one of the WORK_COUNT permits.                        *)
Gives_way == quality_need_update

Quality_flag(t) ==
  /\ pc[t] = "quality_flag"
  /\ Goto(t, IF Gives_way THEN "quality_done" ELSE "quality")
  /\ UNCHANGED <<reset, sems, works, params, imgs, wi, cursor, job, screen,
                 nwm, quality>>

Quality_done(t) ==
  /\ pc[t] = "quality_done"
  /\ quality_done_update
  /\ Goto(t, "quality")
  /\ UNCHANGED <<reset, sems, works, params, imgs, wi, cursor, job, screen,
                 nwm, quality>>

Quality_work_acquire(t) ==
  /\ pc[t] = "quality"
  /\ quality_can_update > 0
  /\ quality_can_update' = quality_can_update - 1
  /\ Goto(t, "work_ready")
  /\ cursor' = [cursor EXCEPT ![t] = 0]
  /\ UNCHANGED <<reset, sems, works, params, imgs, wi, job, screen, nwm, upc,
                 updates, taken, quality_need_update, quality_done_update>>

(* Wake the other work threads, one per step.                              *)
Work_ready_release(t) ==
  LET j == cursor[t] IN
  /\ pc[t] = "work_ready"
  /\ work_ready' = [work_ready EXCEPT
                      ![j] = IF j = t THEN @ ELSE Released(@, 1, WORK_COUNT)]
  /\ cursor' = [cursor EXCEPT ![t] = Next_wrapped(@, CORE_COUNT)]
  /\ Goto(t, IF j = LastThread THEN "start" ELSE "work_ready")
  /\ UNCHANGED <<reset, screen_ready, work_done, nwm_done, nwm_ready,
                 thread_ready, works, params, imgs, wi, job, screen, nwm,
                 quality>>

(* A thread that does not lead waits for the leader.                       *)
Other_acquire(t) ==
  /\ pc[t] = "other"
  /\ work_ready[t] > 0
  /\ work_ready' = [work_ready EXCEPT ![t] = @ - 1]
  /\ Goto(t, "start")
  /\ UNCHANGED <<reset, screen_ready, work_done, nwm_done, nwm_ready,
                 thread_ready, works, params, imgs, wi, cursor, job, screen,
                 nwm, quality>>

(* WorkAcquire::send_frame: from here until "encoded" the thread reads the *)
(* work's context and encodes its rows of the frame found there.           *)
Send_frame(t) ==
  /\ pc[t] = "start"
  /\ IF reset
       THEN Goto(t, "exited") /\ UNCHANGED job
       ELSE /\ Goto(t, "pre_progress")
            /\ job' = [job EXCEPT ![t] = bctx[wi[t]]]
  /\ UNCHANGED <<reset, sems, works, params, imgs, wi, cursor, screen, nwm,
                 quality>>

(* Half way through its rows every thread runs pre_progress; the first one *)
(* to do so starts the capture of the next frame.                          *)
First_to_progress_always(w) == TRUE
First_to_progress(w) == ~should_capture[w]

Pre_progress(t) ==
  LET w == wi[t] IN
  /\ pc[t] = "pre_progress"
  /\ should_capture' = [should_capture EXCEPT ![w] = TRUE]
  /\ Goto(t, IF First_to_progress(w) THEN "index_next" ELSE "term")
  /\ UNCHANGED <<reset, sems, work_ready_flag, work_done_count,
                 work_done_flag, bctx, params, imgs, wi, cursor, job, screen,
                 nwm, quality>>

Work_index_kept(t) ==
  /\ pc[t] = "index_next"
  /\ Goto(t, "screen_ready")
  /\ UNCHANGED <<reset, sems, works, params, imgs, wi, cursor, job, screen,
                 nwm, quality>>

Work_index_next_wrapped(t) ==
  /\ pc[t] = "index_next"
  /\ work_index' = Next_wrapped(work_index, WORK_COUNT)
  /\ Goto(t, "screen_ready")
  /\ UNCHANGED <<reset, sems, works, thread_index, skip_frames, work_params,
                 imgs, wi, cursor, job, screen, nwm, quality>>

Screen_ready_release(t) ==
  /\ pc[t] = "screen_ready"
  /\ screen_ready' = Released(screen_ready, 1, 1)
  /\ Goto(t, "term")
  /\ UNCHANGED <<reset, work_done, nwm_done, nwm_ready, thread_ready,
                 work_ready, works, params, imgs, wi, cursor, job, screen,
                 nwm, quality>>

(* The thread's last rows.  Over UDP, rp_send_buffer(term) publishes them  *)
(* and then signals the nwm thread's event.                                *)
Term(t) ==
  /\ pc[t] = "term"
  /\ data' = IF RELIABLE THEN data
             ELSE [data EXCEPT ![wi[t]][t] = job[t]]
  /\ Goto(t, IF RELIABLE THEN "encoded" ELSE "signal")
  /\ UNCHANGED <<reset, sems, works, params, imgs, wi, cursor, job, screen,
                 npc, nw, nt, nwm_event, hdr, sent, quality>>

Term_signal(t) ==
  /\ pc[t] = "signal"
  /\ nwm_event' = TRUE
  /\ Goto(t, "encoded")
  /\ UNCHANGED <<reset, sems, works, params, imgs, wi, cursor, job, screen,
                 npc, nw, nt, hdr, data, sent, quality>>

Encoded(t) ==
  /\ pc[t] = "encoded"
  /\ Goto(t, IF reset THEN "exited" ELSE "count")
  /\ UNCHANGED <<reset, sems, works, params, imgs, wi, cursor, job, screen,
                 nwm, quality>>

(* The thread is through with its work: back to the head of the loop, with *)
(* the next work.                                                          *)
Next_work(t) ==
  /\ wi' = [wi EXCEPT ![t] = Next_wrapped(@, WORK_COUNT)]
  /\ job' = [job EXCEPT ![t] = NoFrame]
  /\ Goto(t, "thread_ready")

(* Drop of WorkRet: the last thread to arrive frees the work.              *)
Last_done(w) == work_done_count[w] = CORE_COUNT - 1

Drop_count(t) ==
  LET w == wi[t] IN
  /\ pc[t] = "count"
  /\ work_done_count' = [work_done_count EXCEPT ![w] = @ + 1]
  /\ IF Last_done(w)
       THEN Goto(t, "drop_count") /\ UNCHANGED <<wi, job>>
       ELSE Next_work(t)
  /\ UNCHANGED <<reset, sems, work_ready_flag, work_done_flag, bctx,
                 should_capture, params, imgs, cursor, screen, nwm, quality>>

(* send_term_dsts, of the reliable stream only, resets everything when it  *)
(* fails; the drop goes on all the same.                                   *)
Drop_term_dsts(t) ==
  /\ pc[t] = "drop_count"
  /\ reset' \in {reset, reset \/ (RELIABLE /\ RESETS)}
  /\ work_done_count' = [work_done_count EXCEPT ![wi[t]] = 0]
  /\ Goto(t, "drop_flag")
  /\ UNCHANGED <<sems, work_ready_flag, work_done_flag, bctx, should_capture,
                 params, imgs, wi, cursor, job, screen, nwm, quality>>

Drop_flag(t) ==
  /\ pc[t] = "drop_flag"
  /\ work_ready_flag' = [work_ready_flag EXCEPT ![wi[t]] = FALSE]
  /\ Goto(t, "drop_quality")
  /\ UNCHANGED <<reset, sems, work_done_count, work_done_flag, bctx,
                 should_capture, params, imgs, wi, cursor, job, screen, nwm,
                 quality>>

Quality_work_release(t) ==
  /\ pc[t] = "drop_quality"
  /\ quality_can_update' = Released(quality_can_update, 1, WORK_COUNT)
  /\ Goto(t, "drop_done")
  /\ UNCHANGED <<reset, sems, works, params, imgs, wi, cursor, job, screen,
                 nwm, upc, updates, taken, quality_need_update,
                 quality_done_update>>

Drop_work_done(t) ==
  /\ pc[t] = "drop_done"
  /\ work_done' = [work_done EXCEPT ![wi[t]] = Released(@, 1, 1)]
  /\ Next_work(t)
  /\ UNCHANGED <<reset, screen_ready, nwm_done, nwm_ready, thread_ready,
                 work_ready, works, params, imgs, cursor, screen, nwm,
                 quality>>

(* wait_syn returns None once reset is set; so does an encoder that waits  *)
(* for a packet buffer of the reliable stream.                             *)
Give_up(t) ==
  /\ reset
  /\ pc[t] \in (IF RELIABLE THEN Waiting \cup Encoding ELSE Waiting)
  /\ Goto(t, "exited")
  /\ UNCHANGED <<reset, sems, works, params, imgs, wi, cursor, job, screen,
                 nwm, quality>>

Worker(t) ==
  \/ Thread_ready_acquire(t) \/ Work_ready_acquire(t) \/ Init_bctx(t)
  \/ Dma_sync(t) \/ Skip_frame(t) \/ Skip_frame_release(t)
  \/ Encode_frame(t) \/ Nwm_done_acquire(t) \/ Nwm_ready_release(t)
  \/ Frame_release(t) \/ Flags_release(t) \/ Quality_flag(t)
  \/ Quality_done(t) \/ Quality_work_acquire(t) \/ Work_ready_release(t)
  \/ Other_acquire(t) \/ Send_frame(t) \/ Pre_progress(t)
  \/ Work_index_next_wrapped(t) \/ Screen_ready_release(t) \/ Term(t)
  \/ Term_signal(t) \/ Encoded(t) \/ Drop_count(t) \/ Drop_term_dsts(t)
  \/ Drop_flag(t) \/ Quality_work_release(t) \/ Drop_work_done(t)
  \/ Give_up(t)

-----------------------------------------------------------------------------
(***************************************************************************)
(* The screen thread: thread_screen_loop.                                  *)
(***************************************************************************)
workers_unchanged == UNCHANGED <<works, imgs, worker, nwm, quality>>

Screen_ready_acquire ==
  /\ spc = "screen_ready"
  /\ screen_ready > 0
  /\ screen_ready' = screen_ready - 1
  /\ spc' = "work_index"
  /\ UNCHANGED <<reset, work_done, nwm_done, nwm_ready, thread_ready,
                 work_ready, params, sw, sbuf, srel>>
  /\ workers_unchanged

(* work_done_acquire: the flag says that the work was waited for before and*)
(* that no frame has been started in it since.                             *)
Work_done_flag ==
  /\ spc = "work_index"
  /\ sw' = work_index
  /\ spc' = IF work_done_flag[work_index] THEN "capture" ELSE "work_done"
  /\ UNCHANGED <<reset, sems, params, sbuf, srel>>
  /\ workers_unchanged

Work_done_acquire ==
  /\ spc = "work_done"
  /\ work_done[sw] > 0
  /\ work_done' = [work_done EXCEPT ![sw] = @ - 1]
  /\ spc' = "done_flag"
  /\ UNCHANGED <<reset, screen_ready, nwm_done, nwm_ready, thread_ready,
                 work_ready, params, sw, sbuf, srel>>
  /\ workers_unchanged

Work_done_flag_set ==
  /\ spc = "done_flag"
  /\ work_done_flag' = [work_done_flag EXCEPT ![sw] = TRUE]
  /\ spc' = "capture"
  /\ UNCHANGED <<reset, sems, params, imgs, worker, sw, sbuf, srel, nwm,
                 quality, work_ready_flag, work_done_count, bctx,
                 should_capture>>

(* do_screen, once a screen is chosen and its DMA could be started: the    *)
(* work index and the image buffer are read again here.  Attempts that fail*)
(* change nothing and are left out.                                        *)
Capture_screen(s) ==
  LET b == [screen |-> s, img |-> img_index[s]] IN
  /\ spc = "capture"
  /\ ~reset
  /\ sw' = work_index
  /\ sbuf' = b
  /\ dma' = [dma EXCEPT ![work_index] = b]
  /\ spc' = "params"
  /\ UNCHANGED <<reset, sems, works, params, img_index, frame_ids, worker,
                 srel, nwm, quality>>

(* thread_ready_release: the skipping thread alone, or all of them.        *)
Ready_threads_swapped(w) == IF skip_frames[w] THEN Thread ELSE {thread_index}
Ready_threads(w) == IF skip_frames[w] THEN {thread_index} ELSE Thread

Work_params ==
  /\ spc = "params"
  /\ work_params' = [work_params EXCEPT ![sw] = sbuf]
  /\ srel' = Ready_threads(sw)
  /\ spc' = "release"
  /\ UNCHANGED <<reset, sems, work_index, thread_index, skip_frames, sw,
                 sbuf>>
  /\ workers_unchanged

Thread_ready_release ==
  \E j \in srel :
    /\ spc = "release"
    /\ \A i \in srel : j <= i
    /\ thread_ready' = [thread_ready EXCEPT ![j] = Released(@, 1, WORK_COUNT)]
    /\ srel' = srel \ {j}
    /\ spc' = IF srel = {j} THEN "screen_ready" ELSE "release"
    /\ UNCHANGED <<reset, screen_ready, work_done, nwm_done, nwm_ready,
                   work_ready, params, sw, sbuf>>
    /\ workers_unchanged

Screen_give_up ==
  /\ reset
  /\ spc \in {"screen_ready", "work_done", "capture"}
  /\ spc' = "exited"
  /\ UNCHANGED <<reset, sems, params, sw, sbuf, srel>>
  /\ workers_unchanged

Screen_thread ==
  \/ Screen_ready_acquire \/ Work_done_flag \/ Work_done_acquire
  \/ Work_done_flag_set \/ (\E s \in CAPTURED : Capture_screen(s))
  \/ Work_params \/ Thread_ready_release \/ Screen_give_up

(* The DMA engine (external).                                              *)
Dma_done(w) ==
  /\ dma[w] # NoDma
  /\ dma' = [dma EXCEPT ![w] = NoDma]
  /\ UNCHANGED <<reset, sems, works, params, img_index, frame_ids, worker,
                 screen, nwm, quality>>

-----------------------------------------------------------------------------
(***************************************************************************)
(* The nwm thread over UDP: send_next_buffer.  The rows of a frame go out  *)
(* in thread order; packets and their pacing are abstracted.               *)
(***************************************************************************)
nwm_frame == UNCHANGED <<reset, screen_ready, work_done, thread_ready,
                         work_ready, works, params, imgs, worker, screen,
                         quality, hdr, data>>

Nwm_ready_acquire ==
  /\ npc = "acquire"
  /\ nwm_ready[nw] > 0
  /\ nwm_ready' = [nwm_ready EXCEPT ![nw] = @ - 1]
  /\ npc' = "send"
  /\ UNCHANGED <<nwm_done, nw, nt, nwm_event, sent>>
  /\ nwm_frame

Send_next_buffer ==
  /\ npc = "send"
  /\ data[nw][nt] # NoFrame
  /\ nt' = Next_wrapped(nt, CORE_COUNT)
  /\ npc' = IF nt = LastThread THEN "done" ELSE "send"
  /\ UNCHANGED <<nwm_done, nwm_ready, nw, nwm_event, sent>>
  /\ nwm_frame

(* Nothing to send yet: wait for the event of rp_send_buffer.              *)
Nwm_idle ==
  /\ npc = "send"
  /\ data[nw][nt] = NoFrame
  /\ npc' = "event"
  /\ UNCHANGED <<nwm_done, nwm_ready, nw, nt, nwm_event, sent>>
  /\ nwm_frame

Nwm_event ==
  /\ npc = "event"
  /\ nwm_event
  /\ nwm_event' = FALSE
  /\ npc' = "send"
  /\ UNCHANGED <<nwm_done, nwm_ready, nw, nt, sent>>
  /\ nwm_frame

(* NWM_NEED_SYN of the work just sent is set again.                        *)
Need_syn_lost == "send"
Need_syn == "acquire"

Nwm_done_release ==
  /\ npc = "done"
  /\ nwm_done' = [nwm_done EXCEPT ![nw] = Released(@, 1, 1)]
  /\ sent' = [sent EXCEPT ![hdr[nw].screen] = hdr[nw].id]
  /\ nw' = Next_wrapped(nw, WORK_COUNT)
  /\ npc' = Need_syn
  /\ UNCHANGED <<nwm_ready, nt, nwm_event>>
  /\ nwm_frame

Nwm_give_up ==
  /\ reset
  /\ npc \in {"acquire", "event"}
  /\ npc' = "exited"
  /\ UNCHANGED <<nwm_done, nwm_ready, nw, nt, nwm_event, sent>>
  /\ nwm_frame

Nwm_thread ==
  \/ Nwm_ready_acquire \/ Send_next_buffer \/ Nwm_idle \/ Nwm_event
  \/ Nwm_done_release \/ Nwm_give_up

-----------------------------------------------------------------------------
(***************************************************************************)
(* The port thread updating the JPEG quality: jpeg_update_quality.         *)
(***************************************************************************)
quality_frame == UNCHANGED <<reset, sems, works, params, imgs, worker, screen,
                             nwm>>

Update_quality ==
  /\ upc = "idle"
  /\ updates < UPDATES
  /\ updates' = updates + 1
  /\ taken' = 0
  /\ quality_done_update' = FALSE
  /\ upc' = "need"
  /\ UNCHANGED <<quality_can_update, quality_need_update>>
  /\ quality_frame

Update_need ==
  /\ upc = "need"
  /\ quality_need_update' = TRUE
  /\ upc' = "take"
  /\ UNCHANGED <<updates, taken, quality_can_update, quality_done_update>>
  /\ quality_frame

All_taken_one(n) == n = 1
All_taken_more(n) == n > WORK_COUNT
All_taken(n) == n = WORK_COUNT

Update_take ==
  /\ upc = "take"
  /\ quality_can_update > 0
  /\ quality_can_update' = quality_can_update - 1
  /\ taken' = taken + 1
  /\ upc' = IF All_taken(taken + 1) THEN "write" ELSE "take"
  /\ UNCHANGED <<updates, quality_need_update, quality_done_update>>
  /\ quality_frame

(* The tables are written at this control point; then the permits go back. *)
Update_write ==
  /\ upc = "write"
  /\ quality_can_update' =
       Released(quality_can_update, WORK_COUNT, WORK_COUNT)
  /\ taken' = 0
  /\ upc' = "clear"
  /\ UNCHANGED <<updates, quality_need_update, quality_done_update>>
  /\ quality_frame

Update_clear ==
  /\ upc = "clear"
  /\ quality_need_update' = FALSE
  /\ upc' = "signal"
  /\ UNCHANGED <<updates, taken, quality_can_update, quality_done_update>>
  /\ quality_frame

Update_signal ==
  /\ upc = "signal"
  /\ quality_done_update' = TRUE
  /\ upc' = "idle"
  /\ UNCHANGED <<updates, taken, quality_can_update, quality_need_update>>
  /\ quality_frame

(* The permits taken so far are not given back.                            *)
Update_give_up ==
  /\ reset
  /\ upc = "take"
  /\ upc' = "idle"
  /\ UNCHANGED <<updates, taken, quality_can_update, quality_need_update,
                 quality_done_update>>
  /\ quality_frame

Update_rest ==
  \/ Update_need \/ Update_take \/ Update_write \/ Update_clear
  \/ Update_signal \/ Update_give_up

(* set_reset_threads, by the port thread or by any failing kernel call.    *)
Set_reset_threads ==
  /\ RESETS /\ ~reset
  /\ reset' = TRUE
  /\ UNCHANGED <<sems, works, params, imgs, worker, screen, nwm, quality>>

Next ==
  \/ \E t \in Thread : Worker(t)
  \/ Screen_thread
  \/ \E w \in Work : Dma_done(w)
  \/ Nwm_thread
  \/ Update_quality
  \/ Update_rest
  \/ Set_reset_threads

(***************************************************************************)
(* Fairness: the kernel runs every thread that is ready and every DMA ends;*)
(* nobody has to update the quality or reset.                              *)
(***************************************************************************)
KernelFairness ==
  /\ \A t \in Thread : WF_vars(Worker(t))
  /\ WF_vars(Screen_thread)
  /\ WF_vars(Nwm_thread)
  /\ WF_vars(Update_rest)
  /\ WF_vars(\E w \in Work : Dma_done(w))

Spec == Init /\ [][Next]_vars
KernelSpec == Spec /\ KernelFairness

(* skip_frame sends a frame at the latest frame_timing_allowance (one      *)
(* second) after the last one, so a leader that is asked again and again   *)
(* does not skip for ever.                                                 *)
SkipEnds == SF_vars(\E t \in Thread : Encode_frame(t))

-----------------------------------------------------------------------------
(***************************************************************************)
(* Safety.                                                                 *)
(***************************************************************************)
Frame_buffer(f) == [screen |-> f.screen, img |-> f.img]

(* While a leader prepares a frame no other thread is past the leader's    *)
(* hand-over (work_ready) on the same work: the context, the rows and the  *)
(* header it rewrites belong to nobody else.                               *)
LeaderAlone ==
  \A t, u \in Thread :
    /\ t # u
    /\ pc[t] \in Leading \ {"work_ready"}
    /\ wi[u] = wi[t]
    => pc[u] \in {"thread_ready", "claim", "other", "exited"}

(* A thread encodes the frame its leader prepared until it has counted     *)
(* itself out: the context is not recycled under a slow thread, although   *)
(* the works go round and each thread keeps its own index.                 *)
SameFrame ==
  \A t \in Thread :
    pc[t] \in Encoding \cup {"encoded", "count", "drop_count"}
      => bctx[wi[t]] = job[t]

(* init_bctx takes the image buffer from img_info, the screen thread took  *)
(* the DMA's target from img_info earlier: both mean the same buffer.      *)
SourceIsCaptured ==
  \A t \in Thread :
    pc[t] \in (Leading \ {"init_bctx", "skip_release", "skip_wait"})
                \cup {"start"} \cup Encoding
      => work_params[wi[t]] = Frame_buffer(bctx[wi[t]])

(* While work and screen thread keep to their protocol no DMA writes into  *)
(* a buffer that is being encoded, nor into either of the two buffers that *)
(* frame_changed compares.  Holds when every DMA ends within dma_sync's    *)
(* wait.                                                                   *)
NoTearing ==
  ~DMA_TIMEOUT =>
    \A t \in Thread, w \in Work :
      /\ pc[t] \in Encoding => dma[w] # Frame_buffer(job[t])
      /\ pc[t] = "skip_frame" => dma[w].screen # bctx[wi[t]].screen

(* From the end of work_done_acquire until the threads are released the    *)
(* screen thread alone uses its work, and the work index it reads a second *)
(* time in try_capture_screen is the one whose end it waited for.          *)
ScreenOwnsWork ==
  spc \in {"done_flag", "capture", "params"} =>
    /\ work_index = sw
    /\ \A t \in Thread :
         wi[t] = sw => pc[t] \in {"thread_ready", "claim", "other",
                                  "skip_wait", "exited"}

(* Nobody releases a full semaphore: release_sem only logs the failure, and*)
(* a lost permit would stop the pipeline for good.                         *)
NoLostPermit ==
  /\ \A t \in Thread :
       /\ pc[t] \in {"skip_release", "screen_ready"} => screen_ready = 0
       /\ pc[t] = "nwm_ready" => nwm_ready[wi[t]] = 0
       /\ pc[t] = "work_ready" =>
            \A j \in cursor[t] .. LastThread :
              j # t => work_ready[j] < WORK_COUNT
       /\ pc[t] = "drop_quality" => quality_can_update < WORK_COUNT
       /\ pc[t] = "drop_done" => work_done[wi[t]] = 0
  /\ spc = "release" => \A j \in srel : thread_ready[j] < WORK_COUNT
  /\ npc = "done" => nwm_done[nw] = 0
  /\ upc = "write" => quality_can_update = 0

(* The rows the nwm thread finds under a work's packet header are rows of  *)
(* that header's frame.                                                    *)
RowsMatchHeader ==
  \A w \in Work, t \in Thread : data[w][t] \in {NoFrame, hdr[w]}

(* While the port thread rewrites the quantisation tables no thread is     *)
(* between taking and giving back its work's permit.                       *)
TablesStable ==
  upc = "write" =>
    \A t \in Thread : pc[t] \notin {"work_ready", "start", "drop_flag"}
                                     \cup Encoding

(* Frames of a screen are completed on the network in the order of their   *)
(* ids, none missing and none twice.                                       *)
SentInOrder ==
  [][ (npc = "done" /\ npc' # "done") =>
        LET s == hdr[nw].screen IN
        sent'[s] = Next_wrapped(sent[s], FRAME_ID_COUNT) ]_vars

(***************************************************************************)
(* Liveness, under KernelSpec.                                             *)
(***************************************************************************)

(* Until a reset, and if leaders do not skip for ever, frames keep coming: *)
(* over UDP they keep being sent, over the reliable stream they keep being *)
(* encoded.  No wait of the pipeline waits for ever.                       *)
FramesKeepFlowing ==
  SkipEnds => []<>(\/ reset
                   \/ ~RELIABLE /\ npc = "done"
                   \/ RELIABLE /\ \E t \in Thread : pc[t] = "drop_done")

(* A quality update gets all permits while frames keep being encoded.      *)
UpdateCompletes == (upc = "need") ~> (upc = "idle")

Stopped ==
  /\ \A t \in Thread : pc[t] = "exited"
  /\ spc = "exited" /\ npc = "exited"

(* set_reset_threads ends every thread that the main thread then joins.    *)
ResetStops == reset ~> Stopped
=============================================================================
