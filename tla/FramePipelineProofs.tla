------------------------ MODULE FramePipelineProofs -------------------------
(***************************************************************************)
(* Machine-checked facts about FramePipeline, for every number of cores,   *)
(* works, image buffers and frame ids: the types; who may touch what, from *)
(* ROUNDS; and what is in the buffers, from the rounds.                    *)
(***************************************************************************)
EXTENDS FramePipeline, FiniteSetTheorems, NumberTheorems, TLAPS

-----------------------------------------------------------------------------
(***************************************************************************)
(* The types.                                                              *)
(***************************************************************************)

(* next_wrapped stays within the range of a ranged index.                  *)
LEMMA NextWrappedType ==
  ASSUME NEW n \in Nat \ {0}, NEW i \in 0 .. n - 1
  PROVE  Next_wrapped(i, n) \in 0 .. n - 1
BY DEF Next_wrapped

(* A release never overfills a semaphore.                                  *)
LEMMA ReleasedType ==
  ASSUME NEW max \in Nat, NEW count \in 0 .. max, NEW n \in Nat
  PROVE  Released(count, n, max) \in 0 .. max
BY DEF Released

(* Taking a permit that is there leaves the count in range.                *)
LEMMA TakenType ==
  ASSUME NEW max \in Nat, NEW count \in 0 .. max, count > 0
  PROVE  count - 1 \in 0 .. max
OBVIOUS

(* The initial values are in range.                                        *)
LEMMA Zeros ==
  /\ 0 \in Thread /\ 0 \in Work /\ 0 \in Img /\ 0 \in Id
  /\ FRAME_ID_COUNT - 1 \in Id
  /\ 0 \in 0 .. 1 /\ 1 \in 0 .. 1 /\ 0 \in Nat /\ 0 \in 0 .. UPDATES
  /\ 0 \in 0 .. WORK_COUNT /\ WORK_COUNT \in 0 .. WORK_COUNT
  /\ [screen |-> "bot", img |-> 0] \in Buffer
  /\ [screen |-> "bot", img |-> 0, id |-> 0] \in Frame
BY ConstantsAssumption DEF Thread, Work, Img, Id, Buffer, Frame, Screen

(* init_syn_handles and the init functions set every variable in range.    *)
LEMMA InitTypeOK == Init => TypeOK
<1> SUFFICES ASSUME Init PROVE TypeOK
  OBVIOUS
<1> USE Zeros, ConstantsAssumption
<1>1. /\ reset \in BOOLEAN
      /\ screen_ready \in 0 .. 1
      /\ work_done \in [Work -> 0 .. 1]
      /\ nwm_done \in [Work -> 0 .. 1]
      /\ nwm_ready \in [Work -> 0 .. 1]
      /\ thread_ready \in [Thread -> 0 .. WORK_COUNT]
      /\ work_ready \in [Thread -> 0 .. WORK_COUNT]
  BY DEF Init
<1>2. /\ work_ready_flag \in [Work -> BOOLEAN]
      /\ work_done_count \in [Work -> Nat]
      /\ work_done_flag \in [Work -> BOOLEAN]
      /\ bctx \in [Work -> Frame]
      /\ should_capture \in [Work -> BOOLEAN]
  BY DEF Init
<1>3. /\ work_index \in Work
      /\ thread_index \in Thread
      /\ skip_frames \in [Work -> BOOLEAN]
      /\ work_params \in [Work -> Buffer]
      /\ img_index \in [Screen -> Img]
      /\ frame_ids \in [Screen -> Id]
      /\ dma \in [Work -> Buffer \cup {NoDma}]
  BY DEF Init
<1>4. /\ pc \in [Thread -> Control]
      /\ wi \in [Thread -> Work]
      /\ cursor \in [Thread -> Thread]
      /\ job \in [Thread -> Frame \cup {NoFrame}]
  BY DEF Init, Control
<1>5. /\ spc \in ScreenControl /\ sw \in Work /\ sbuf \in Buffer
      /\ srel \in SUBSET Thread
      /\ npc \in NwmControl /\ nw \in Work /\ nt \in Thread
      /\ nwm_event \in BOOLEAN
      /\ hdr \in [Work -> Frame \cup {NoFrame}]
      /\ data \in [Work -> [Thread -> Frame \cup {NoFrame}]]
      /\ sent \in [Screen -> Id]
  BY DEF Init, ScreenControl, NwmControl
<1>6. /\ upc \in UpdateControl /\ updates \in 0 .. UPDATES /\ taken \in Nat
      /\ quality_can_update \in 0 .. WORK_COUNT
      /\ quality_need_update \in BOOLEAN /\ quality_done_update \in BOOLEAN
  BY DEF Init, UpdateControl
<1> QED BY <1>1, <1>2, <1>3, <1>4, <1>5, <1>6 DEF TypeOK

(* Each step of a work thread keeps the types: the control points it names *)
(* are members of Control and its indices wrap.                            *)
LEMMA WorkerTypeOK ==
  ASSUME TypeOK, NEW t \in Thread, Worker(t)
  PROVE  TypeOK'
<1> USE ConstantsAssumption, NextWrappedType, ReleasedType
        DEF TypeOK, vars, sems, works, params, imgs, worker, screen, nwm,
            quality, Goto, Thread, Work, Img, Id
<1>1. CASE Thread_ready_acquire(t)
  <2>1. thread_ready' \in [Thread -> 0 .. WORK_COUNT]
    BY <1>1, TakenType DEF Thread_ready_acquire
  <2> QED BY <1>1, <2>1 DEF Thread_ready_acquire, Control, Leading, Encoding, Dropping
<1>2. CASE Work_ready_acquire(t)
  BY <1>2 DEF Work_ready_acquire, Control, Leading, Encoding, Dropping
<1>3. CASE Init_bctx(t)
  <2>1. bctx' \in [Work -> Frame]
    BY <1>3 DEF Init_bctx, Frame, Buffer
  <2> QED BY <1>3, <2>1 DEF Init_bctx, Control, Leading, Encoding, Dropping
<1>4. CASE Dma_sync(t)
  BY <1>4 DEF Dma_sync, Control, Leading, Encoding, Dropping
<1>5. CASE Skip_frame(t)
  BY <1>5 DEF Skip_frame, Control, Leading, Encoding, Dropping
<1>6. CASE Skip_frame_release(t)
  BY <1>6 DEF Skip_frame_release, Control, Leading, Encoding, Dropping
<1>7. CASE Encode_frame(t)
  BY <1>7 DEF Encode_frame, Control, Leading, Encoding, Dropping
<1>8. CASE Nwm_done_acquire(t)
  <2>1. nwm_done' \in [Work -> 0 .. 1]
    BY <1>8, TakenType DEF Nwm_done_acquire
  <2>2. /\ data' \in [Work -> [Thread -> Frame \cup {NoFrame}]]
        /\ hdr' \in [Work -> Frame \cup {NoFrame}]
    BY <1>8 DEF Nwm_done_acquire, Emptied
  <2> QED BY <1>8, <2>1, <2>2 DEF Nwm_done_acquire, Control, Leading, Encoding, Dropping
<1>9. CASE Nwm_ready_release(t)
  BY <1>9 DEF Nwm_ready_release, Control, Leading, Encoding, Dropping
<1>10. CASE Frame_release(t)
  BY <1>10 DEF Frame_release, Control, Leading, Encoding, Dropping
<1>11. CASE Flags_release(t)
  BY <1>11 DEF Flags_release, Control, Leading, Encoding, Dropping
<1>12. CASE Quality_flag(t)
  BY <1>12 DEF Quality_flag, Control, Leading, Encoding, Dropping
<1>13. CASE Quality_done(t)
  BY <1>13 DEF Quality_done, Control, Leading, Encoding, Dropping
<1>14. CASE Quality_work_acquire(t)
  <2>1. quality_can_update' \in 0 .. WORK_COUNT
    BY <1>14, TakenType DEF Quality_work_acquire
  <2> QED BY <1>14, <2>1, Zeros DEF Quality_work_acquire, Control, Leading, Encoding, Dropping
<1>15. CASE Work_ready_release(t)
  BY <1>15 DEF Work_ready_release, Control, Leading, Encoding, Dropping
<1>16. CASE Other_acquire(t)
  <2>1. work_ready' \in [Thread -> 0 .. WORK_COUNT]
    BY <1>16, TakenType DEF Other_acquire
  <2> QED BY <1>16, <2>1 DEF Other_acquire, Control, Leading, Encoding, Dropping
<1>17. CASE Send_frame(t)
  <2>1. job' \in [Thread -> Frame \cup {NoFrame}]
    <3>1. CASE reset
      BY <1>17, <3>1 DEF Send_frame
    <3>2. CASE ~reset
      <4>1. bctx[wi[t]] \in Frame
        OBVIOUS
      <4> QED BY <1>17, <3>2, <4>1 DEF Send_frame
    <3> QED BY <3>1, <3>2
  <2> QED BY <1>17, <2>1 DEF Send_frame, Control, Leading, Encoding, Dropping
<1>18. CASE Pre_progress(t)
  BY <1>18 DEF Pre_progress, Control, Leading, Encoding, Dropping
<1>19. CASE Work_index_next_wrapped(t)
  BY <1>19 DEF Work_index_next_wrapped, Control, Leading, Encoding, Dropping
<1>20. CASE Screen_ready_release(t)
  BY <1>20 DEF Screen_ready_release, Control, Leading, Encoding, Dropping
<1>21. CASE Term(t)
  BY <1>21 DEF Term, Control, Leading, Encoding, Dropping
<1>22. CASE Term_signal(t)
  BY <1>22 DEF Term_signal, Control, Leading, Encoding, Dropping
<1>23. CASE Encoded(t)
  BY <1>23 DEF Encoded, Control, Leading, Encoding, Dropping
<1>24. CASE Drop_count(t)
  <2>1. work_done_count' \in [Work -> Nat]
    <3>1. work_done_count' = [work_done_count EXCEPT
                                ![wi[t]] = work_done_count[wi[t]] + 1]
      BY <1>24 DEF Drop_count
    <3>2. work_done_count[wi[t]] \in Nat
      OBVIOUS
    <3>3. work_done_count[wi[t]] + 1 \in Nat
      BY ONLY <3>2
    <3> QED BY <3>1, <3>3
  <2>2. CASE Last_done(wi[t])
    <3>1. Goto(t, "drop_count") /\ UNCHANGED <<wi, job>>
      BY <1>24, <2>2 DEF Drop_count
    <3> QED BY <1>24, <2>1, <3>1 DEF Drop_count, Control, Dropping
  <2>3. CASE ~Last_done(wi[t])
    <3>1. Next_work(t)
      BY <1>24, <2>3 DEF Drop_count
    <3>2. /\ wi' \in [Thread -> Work]
          /\ job' \in [Thread -> Frame \cup {NoFrame}]
          /\ pc' \in [Thread -> Control]
      BY <3>1 DEF Next_work, Control
    <3> QED BY <1>24, <2>1, <3>2 DEF Drop_count
  <2> QED BY <2>2, <2>3
<1>25. CASE Drop_term_dsts(t)
  BY <1>25 DEF Drop_term_dsts, Control, Leading, Encoding, Dropping
<1>26. CASE Drop_flag(t)
  BY <1>26 DEF Drop_flag, Control, Leading, Encoding, Dropping
<1>27. CASE Quality_work_release(t)
  BY <1>27 DEF Quality_work_release, Control, Leading, Encoding, Dropping
<1>28. CASE Drop_work_done(t)
  <2>1. /\ wi' \in [Thread -> Work]
        /\ job' \in [Thread -> Frame \cup {NoFrame}]
        /\ work_done' \in [Work -> 0 .. 1]
    BY <1>28 DEF Drop_work_done, Next_work
  <2> QED BY <1>28, <2>1 DEF Drop_work_done, Next_work, Control, Leading, Encoding, Dropping
<1>29. CASE Give_up(t)
  BY <1>29 DEF Give_up, Control, Leading, Encoding, Dropping
<1> QED BY <1>1, <1>2, <1>3, <1>4, <1>5, <1>6, <1>7, <1>8, <1>9, <1>10, <1>11, <1>12, <1>13, <1>14, <1>15, <1>16, <1>17, <1>18, <1>19, <1>20, <1>21, <1>22, <1>23, <1>24, <1>25, <1>26, <1>27, <1>28, <1>29 DEF Worker

(* Each step of the screen thread keeps the types.                         *)
LEMMA ScreenTypeOK ==
  ASSUME TypeOK, Screen_thread
  PROVE  TypeOK'
<1> USE ConstantsAssumption, NextWrappedType, ReleasedType, TakenType
        DEF TypeOK, vars, sems, works, params, imgs, worker, screen, nwm,
            quality, Thread, Work, Img, Id
<1>1. CASE Screen_ready_acquire
  BY <1>1 DEF Screen_ready_acquire, ScreenControl, workers_unchanged
<1>2. CASE Work_done_flag
  BY <1>2 DEF Work_done_flag, ScreenControl, workers_unchanged
<1>3. CASE Work_done_acquire
  BY <1>3 DEF Work_done_acquire, ScreenControl, workers_unchanged
<1>4. CASE Work_done_flag_set
  BY <1>4 DEF Work_done_flag_set, ScreenControl, workers_unchanged
<1>5. ASSUME NEW s \in CAPTURED, Capture_screen(s)
      PROVE  TypeOK'
  <2>1. [screen |-> s, img |-> img_index[s]] \in Buffer
    BY DEF Buffer, Screen
  <2> QED BY <1>5, <2>1 DEF Capture_screen, ScreenControl, workers_unchanged
<1>6. CASE Work_params
  <2>1. srel' \in SUBSET Thread
    BY <1>6 DEF Work_params, Ready_threads
  <2>2. work_params' \in [Work -> Buffer]
    BY <1>6 DEF Work_params
  <2> QED BY <1>6, <2>1, <2>2 DEF Work_params, ScreenControl,
                                  workers_unchanged
<1>7. CASE Thread_ready_release
  <2>1. PICK j \in srel : Thread_ready_release!(j)
    BY <1>7 DEF Thread_ready_release
  <2>2. j \in Thread
    BY <2>1
  <2>3. thread_ready' \in [Thread -> 0 .. WORK_COUNT]
    BY <2>1, <2>2
  <2> QED BY <2>1, <2>3 DEF ScreenControl, workers_unchanged
<1>8. CASE Screen_give_up
  BY <1>8 DEF Screen_give_up, ScreenControl, workers_unchanged
<1> QED BY <1>1, <1>2, <1>3, <1>4, <1>5, <1>6, <1>7, <1>8 DEF Screen_thread

(* Each step of the nwm thread keeps the types.                            *)
LEMMA NwmTypeOK ==
  ASSUME TypeOK, Nwm_thread
  PROVE  TypeOK'
<1> USE ConstantsAssumption, NextWrappedType, ReleasedType, TakenType
        DEF TypeOK, vars, sems, works, params, imgs, worker, screen, nwm,
            quality, Thread, Work, Img, Id
<1>1. CASE Nwm_ready_acquire
  BY <1>1 DEF Nwm_ready_acquire, NwmControl, nwm_frame
<1>2. CASE Send_next_buffer
  BY <1>2 DEF Send_next_buffer, NwmControl, nwm_frame
<1>3. CASE Nwm_idle
  BY <1>3 DEF Nwm_idle, NwmControl, nwm_frame
<1>4. CASE Nwm_event
  BY <1>4 DEF Nwm_event, NwmControl, nwm_frame
<1>5. CASE Nwm_done_release
  <2>1. nwm_done' \in [Work -> 0 .. 1] /\ nw' \in Work
    BY <1>5 DEF Nwm_done_release
  <2>2. hdr[nw].id \in Id
    <3>1. CASE hdr[nw] \in Frame
      BY <3>1 DEF Frame
    <3>2. CASE hdr[nw] = NoFrame
      BY <3>2, Zeros DEF NoFrame
    <3> QED BY <3>1, <3>2
  <2>3. sent' \in [Screen -> Id]
    BY <1>5, <2>2 DEF Nwm_done_release
  <2> QED BY <1>5, <2>1, <2>3 DEF Nwm_done_release, Need_syn, NwmControl,
                                  nwm_frame
<1>6. CASE Nwm_give_up
  BY <1>6 DEF Nwm_give_up, NwmControl, nwm_frame
<1> QED BY <1>1, <1>2, <1>3, <1>4, <1>5, <1>6 DEF Nwm_thread

(* Each step of jpeg_update_quality keeps the types.                       *)
LEMMA UpdateTypeOK ==
  ASSUME TypeOK, Update_quality \/ Update_rest
  PROVE  TypeOK'
<1> USE ConstantsAssumption, NextWrappedType, ReleasedType, TakenType
        DEF TypeOK, vars, sems, works, params, imgs, worker, screen, nwm,
            quality, Thread, Work, Img, Id
<1>1. CASE Update_quality
  <2>1. updates' \in 0 .. UPDATES
    BY <1>1 DEF Update_quality
  <2> QED BY <1>1, <2>1 DEF Update_quality, UpdateControl, quality_frame
<1>2. CASE Update_need
  BY <1>2 DEF Update_need, UpdateControl, quality_frame
<1>3. CASE Update_take
  <2>1. quality_can_update' \in 0 .. WORK_COUNT /\ taken' \in Nat
    BY <1>3 DEF Update_take
  <2> QED BY <1>3, <2>1 DEF Update_take, UpdateControl, quality_frame
<1>4. CASE Update_write
  BY <1>4 DEF Update_write, UpdateControl, quality_frame
<1>5. CASE Update_clear
  BY <1>5 DEF Update_clear, UpdateControl, quality_frame
<1>6. CASE Update_signal
  BY <1>6 DEF Update_signal, UpdateControl, quality_frame
<1>7. CASE Update_give_up
  BY <1>7 DEF Update_give_up, UpdateControl, quality_frame
<1> QED BY <1>1, <1>2, <1>3, <1>4, <1>5, <1>6, <1>7 DEF Update_rest

(* Each step of the pipeline, and each stuttering step, keeps the types.   *)
LEMMA NextTypeOK == TypeOK /\ [Next]_vars => TypeOK'
<1> SUFFICES ASSUME TypeOK, [Next]_vars PROVE TypeOK'
  OBVIOUS
<1>1. ASSUME NEW w \in Work, Dma_done(w) PROVE TypeOK'
  BY <1>1 DEF TypeOK, Dma_done, sems, works, params, worker, screen, nwm,
              quality
<1>2. CASE Set_reset_threads
  BY <1>2 DEF TypeOK, Set_reset_threads, sems, works, params, imgs, worker,
              screen, nwm, quality
<1>3. CASE UNCHANGED vars
  BY <1>3 DEF TypeOK, vars, sems, works, params, imgs, worker, screen, nwm,
              quality
<1> QED
  BY <1>1, <1>2, <1>3, WorkerTypeOK, ScreenTypeOK, NwmTypeOK, UpdateTypeOK
     DEF Next

(* Every index stays in its range and every count within its semaphore, for*)
(* all numbers of cores, works, image buffers and frame ids.               *)
THEOREM TypeCorrect == Spec => []TypeOK
BY InitTypeOK, NextTypeOK, PTL DEF Spec

-----------------------------------------------------------------------------
(***************************************************************************)
(* Who may touch what in the frame pipeline, for every number of work      *)
(* threads and works.  The threads know works by an index that wraps and   *)
(* is reused; the argument is about ROUNDS: the capture of a new frame is  *)
(* a round, its work is the round modulo WORK_COUNT.  The rounds are not   *)
(* part of the state.  The inductive invariant says that there are values  *)
(* for them that fit the state:                                            *)
(*   cap   the round work_index stands for, the latest one;                *)
(*   prep  rounds below prep have been prepared by their leader;           *)
(*   rel   rounds below rel have been released to the work threads;        *)
(*   rnd   the round each work thread is in, or waits for;                 *)
(*   tok   who may act on round cap: "post", the thread that advanced      *)
(*         work_index; "sem", screen_ready; "screen", the screen thread;   *)
(*         "lead", its leader, if it has one yet; "enc", the thread first  *)
(*         half way through it;                                            *)
(*   lead  the thread that prepares round cap, or NoThread;                *)
(*   held  the rounds that hold a permit of the quality update.            *)
(* Rounds start at WORK_COUNT: the works begin as if used once.            *)
(***************************************************************************)

Slot(n)  == n % WORK_COUNT
NoThread == CORE_COUNT
Token    == {"post", "sem", "screen", "lead", "enc"}

(* Preparing a frame; encoding it or about to; counted out of it.          *)
Preparing == Leading \ {"work_ready"}
Doing     == {"work_ready", "start"} \cup Encoding \cup Dropping
Dropped   == {"drop_count", "drop_flag", "drop_quality", "drop_done"}
Capturing == {"work_index", "work_done", "done_flag", "capture", "params"}

Ghosts(cap, prep, rel, rnd, tok, lead) ==
  /\ cap \in Nat /\ prep \in Nat /\ rel \in Nat
  /\ rnd \in [Thread -> Nat]
  /\ tok \in Token
  /\ lead \in Thread \cup {NoThread}

(* The one permission to act on round cap, and what is done of the round.  *)
Phase(cap, prep, rel, tok, lead) ==
  /\ prep \in {cap, cap + 1} /\ rel \in {cap, cap + 1}
  /\ cap >= WORK_COUNT
  /\ tok = "enc" <=> prep = cap + 1
  /\ tok \in {"lead", "enc"} => rel = cap + 1
  /\ tok = "post" => rel = cap
  /\ (rel = cap \/ prep = cap + 1) => lead = NoThread
  /\ (tok \in {"sem", "screen"} /\ rel = cap + 1) => lead # NoThread
  /\ work_index = Slot(cap)
  /\ screen_ready = 1 => tok = "sem"
  /\ spc \in Capturing => tok = "screen"

(* Where the threads are: within WORK_COUNT rounds of the released ones.   *)
Rounds(cap, prep, rel, rnd, tok, lead) ==
  /\ \A t \in Thread :
       /\ wi[t] = Slot(rnd[t])
       /\ rel <= rnd[t] + WORK_COUNT /\ rnd[t] <= prep
       /\ rnd[t] = rel => pc[t] \in {"thread_ready", "exited"}
       /\ pc[t] \in Doing => rnd[t] < prep
       /\ pc[t] \in Preparing => t = lead
       /\ pc[t] \in Preparing \ {"skip_wait"} => tok = "lead"
       /\ pc[t] = "index_next" =>
            rnd[t] = cap /\ tok = "enc" /\ should_capture[wi[t]]
       /\ pc[t] = "screen_ready" => tok = "post"
       /\ pc[t] \in Dropped =>
            \A u \in Thread : u # t => rnd[u] > rnd[t]
  /\ \A t, u \in Thread :
       /\ pc[t] \in {"index_next", "screen_ready"}
       /\ pc[u] \in {"index_next", "screen_ready"}
       => t = u
  /\ lead # NoThread =>
       rnd[lead] = cap /\ pc[lead] \in Preparing \cup {"exited"}

(* A round that has a leader is claimed until its last thread drops it.    *)
Claimed(cap, prep, rnd, lead) ==
  /\ CORE_COUNT > 1 =>
       \A t \in Thread, n \in 0 .. cap :
         /\ rnd[t] <= n
         /\ n < prep \/ (n = cap /\ lead # NoThread)
         /\ ~(rnd[t] = n /\ pc[t] \in {"drop_quality", "drop_done"})
         => work_ready_flag[Slot(n)]
  /\ CORE_COUNT = 1 =>
       \A t \in Thread :
         /\ rnd[t] + 1 >= prep
         /\ pc[t] \in {"thread_ready", "claim"} => rnd[t] = prep

(* Everybody is through with the work that round cap takes over.           *)
Freed(cap, rnd) ==
  /\ work_done[Slot(cap)] = 0
  /\ \A t \in Thread : rnd[t] + WORK_COUNT > cap

(* What the semaphores and flags of the works say of the rounds.           *)
Works(cap, prep, rel, rnd, tok, lead) ==
  /\ \A t \in Thread, n \in 0 .. cap :
       rnd[t] <= n /\ n < rel => work_done[Slot(n)] = 0
  /\ \A t \in Thread, n \in 0 .. cap :
       rnd[t] <= n /\ n < cap => should_capture[Slot(n)]
  /\ \A w \in Work :
       work_done_flag[w] => w = Slot(cap) /\ prep = cap /\ Freed(cap, rnd)
  /\ spc \in Capturing \ {"work_index"} => sw = Slot(cap)
  /\ spc \in {"done_flag", "capture", "params"} => Freed(cap, rnd)

(* A leader that skips has another capture made for itself alone.          *)
Skips(cap, prep, tok, lead) ==
  /\ \A w \in Work :
       skip_frames[w] => w = Slot(cap) /\ prep = cap /\ lead # NoThread
  /\ tok \in {"sem", "screen"} /\ lead # NoThread =>
       skip_frames[Slot(cap)] /\ thread_index = lead
  /\ \A t \in Thread :
       /\ pc[t] = "skip_release" =>
            skip_frames[Slot(cap)] /\ thread_index = lead
       /\ pc[t] \in {"quality_flag", "quality_done", "quality"} =>
            ~skip_frames[Slot(cap)] /\ ~work_done_flag[Slot(cap)]

(* The threads that have counted themselves out of round n, and the count. *)
Counted(rnd, n) ==
  {u \in Thread : rnd[u] > n \/ (rnd[u] = n /\ pc[u] \in Dropped)}

(* Nobody is left in round n but, perhaps, the thread that is freeing it.  *)
Finished(rnd, n) ==
  \/ \A u \in Thread : rnd[u] > n
  \/ \E u \in Thread : rnd[u] = n /\ pc[u] \in Dropped \ {"drop_count"}

Counts(cap, rel, rnd) ==
  \A n \in 0 .. cap :
    rel <= n + WORK_COUNT /\ n < rel =>
      work_done_count[Slot(n)] =
        IF Finished(rnd, n) THEN 0 ELSE Cardinality(Counted(rnd, n))

(* Permits given to a thread, and still to be given, against its rounds:   *)
(* Owed is what the screen thread is about to give, Took whether the       *)
(* thread has taken its round's, Again the extra one of a skipped frame.   *)
Owed(t) == IF t \in srel THEN 1 ELSE 0
Took(t, lead) ==
  IF t = lead \/ pc[t] \notin {"thread_ready", "exited"} THEN 1 ELSE 0
Again(t, tok, lead) ==
  IF t = lead /\ tok = "lead" /\ pc[t] \in {"skip_wait", "exited"}
  THEN 1 ELSE 0

Readied(rel, rnd, tok, lead) ==
  \A t \in Thread :
    thread_ready[t] + Owed(t) + Took(t, lead) + rnd[t]
      <= rel + Again(t, tok, lead)

(* Those about to wake thread t, and whether it needs no more waking.      *)
Waking(t) ==
  {u \in Thread : u # t /\ pc[u] = "work_ready" /\ cursor[u] <= t}
Awake(t) == IF pc[t] \in Doing THEN 1 ELSE 0

Woken(prep, rnd) ==
  \A t \in Thread :
    work_ready[t] + Cardinality(Waking(t)) + Awake(t) + rnd[t] <= prep

(* Every round that is prepared and not dropped holds a permit.            *)
Permits(prep, rnd, held) ==
  /\ held \subseteq 0 .. prep - 1
  /\ Cardinality(held) + quality_can_update + taken <= WORK_COUNT
  /\ upc = "write" => taken = WORK_COUNT
  /\ \A t \in Thread, n \in 0 .. prep - 1 :
       rnd[t] <= n /\ ~(rnd[t] = n /\ pc[t] = "drop_done") => n \in held

RoundsInv(cap, prep, rel, rnd, tok, lead, held) ==
  /\ Ghosts(cap, prep, rel, rnd, tok, lead)
  /\ Phase(cap, prep, rel, tok, lead)
  /\ Rounds(cap, prep, rel, rnd, tok, lead)
  /\ Claimed(cap, prep, rnd, lead)
  /\ Works(cap, prep, rel, rnd, tok, lead)
  /\ Skips(cap, prep, tok, lead)
  /\ Counts(cap, rel, rnd)
  /\ Readied(rel, rnd, tok, lead)
  /\ Woken(prep, rnd)
  /\ Permits(prep, rnd, held)

-----------------------------------------------------------------------------
(* Works by their rounds.                                                  *)
LEMMA SlotType ==
  ASSUME NEW n \in Nat
  PROVE  Slot(n) \in Work
BY ConstantsAssumption, DivMod DEF Slot, Work

LEMMA SlotNext ==
  ASSUME NEW n \in Nat
  PROVE  Slot(n + 1) = Next_wrapped(Slot(n), WORK_COUNT)
BY ConstantsAssumption, ModNext DEF Slot, Next_wrapped

LEMMA SlotWrap ==
  ASSUME NEW n \in Nat
  PROVE  Slot(n + WORK_COUNT) = Slot(n)
BY ConstantsAssumption, ModWrap DEF Slot

LEMMA SlotInjective ==
  ASSUME NEW a \in Nat, NEW b \in Nat,
         a <= b, b < a + WORK_COUNT, Slot(a) = Slot(b)
  PROVE  a = b
BY ConstantsAssumption, ModInjective DEF Slot

(* The threads are finitely many.                                          *)
LEMMA ThreadFinite ==
  /\ IsFiniteSet(Thread)
  /\ Cardinality(Thread) = CORE_COUNT
  /\ NoThread \notin Thread
<1>1. CORE_COUNT \in Nat \ {0}
  BY ConstantsAssumption
<1>2. IsFiniteSet(Thread) /\ Cardinality(Thread) = CORE_COUNT
  BY <1>1, FS_Interval DEF Thread
<1>3. NoThread \notin Thread
  BY <1>1 DEF Thread, NoThread
<1> QED BY <1>2, <1>3

(* So are those that wake a thread.                                        *)
LEMMA WakingFinite ==
  \A t : IsFiniteSet(Waking(t)) /\ Cardinality(Waking(t)) \in Nat
<1> SUFFICES ASSUME NEW t
             PROVE  IsFiniteSet(Waking(t)) /\ Cardinality(Waking(t)) \in Nat
  OBVIOUS
<1>1. Waking(t) \subseteq Thread
  BY DEF Waking
<1> QED BY <1>1, ThreadFinite, FS_Subset, FS_CardinalityType

(* And the rounds that hold a permit.                                      *)
LEMMA HeldFinite ==
  ASSUME NEW n \in Nat, NEW held, held \subseteq 0 .. n - 1
  PROVE  IsFiniteSet(held) /\ Cardinality(held) \in Nat
<1>1. 0 \in Int /\ n - 1 \in Int
  OBVIOUS
<1>2. IsFiniteSet(0 .. n - 1)
  BY <1>1, FS_Interval
<1>3. IsFiniteSet(held)
  BY <1>2, FS_Subset
<1> QED BY <1>3, FS_CardinalityType

-----------------------------------------------------------------------------
(***************************************************************************)
(* A thread moves from one control point to another: what that leaves of   *)
(* each part of the invariant when nothing else the part is about changes. *)
(***************************************************************************)
LEMMA ClaimedMove ==
  ASSUME NEW cap, NEW prep, NEW rnd, NEW lead,
         pc \in [Thread -> Control], NEW t \in Thread, NEW b, Goto(t, b),
         pc[t] \notin {"drop_quality", "drop_done"},
         b \notin {"thread_ready", "claim"} \/ pc[t] = "thread_ready",
         UNCHANGED work_ready_flag,
         Claimed(cap, prep, rnd, lead)
  PROVE  Claimed(cap, prep, rnd, lead)'
BY DEF Goto, Claimed

LEMMA SkipsMove ==
  ASSUME NEW cap, NEW prep, NEW tok, NEW lead,
         pc \in [Thread -> Control], NEW t \in Thread, NEW b, Goto(t, b),
         b \notin {"skip_release", "quality_flag", "quality_done", "quality"},
         UNCHANGED <<skip_frames, thread_index, work_done_flag>>,
         Skips(cap, prep, tok, lead)
  PROVE  Skips(cap, prep, tok, lead)'
BY DEF Goto, Skips

LEMMA CountsMove ==
  ASSUME NEW cap, NEW rel, NEW rnd,
         pc \in [Thread -> Control], NEW t \in Thread, NEW b, Goto(t, b),
         pc[t] \notin Dropped, b \notin Dropped,
         UNCHANGED work_done_count,
         Counts(cap, rel, rnd)
  PROVE  Counts(cap, rel, rnd)'
<1>1. \A n : Counted(rnd, n)' = Counted(rnd, n)
  BY DEF Goto, Counted, Dropped
<1>2. \A n : Finished(rnd, n)' <=> Finished(rnd, n)
  BY DEF Goto, Finished, Dropped
<1> QED BY <1>1, <1>2 DEF Counts

LEMMA ReadiedMove ==
  ASSUME NEW rel \in Nat, NEW rnd \in [Thread -> Nat], NEW tok, NEW lead,
         pc \in [Thread -> Control], thread_ready \in [Thread -> Nat],
         NEW t \in Thread, NEW b, Goto(t, b),
         pc[t] \in {"thread_ready", "exited"} => b = "exited",
         pc[t] = "skip_wait" => b = "exited",
         b # "thread_ready",
         UNCHANGED <<thread_ready, srel>>,
         Readied(rel, rnd, tok, lead)
  PROVE  Readied(rel, rnd, tok, lead)'
<1> SUFFICES ASSUME NEW u \in Thread
             PROVE  (thread_ready[u] + Owed(u) + Took(u, lead) + rnd[u]
                       <= rel + Again(u, tok, lead))'
  BY DEF Readied
<1>1. /\ Took(u, lead)' <= Took(u, lead)
      /\ Took(u, lead) \in Nat /\ Took(u, lead)' \in Nat
  BY DEF Took, Goto
<1>2. /\ Again(u, tok, lead) <= Again(u, tok, lead)'
      /\ Again(u, tok, lead) \in Nat /\ Again(u, tok, lead)' \in Nat
  BY DEF Again, Goto
<1>3. Owed(u)' = Owed(u) /\ Owed(u) \in Nat
  BY DEF Owed
<1>4. thread_ready[u] + Owed(u) + Took(u, lead) + rnd[u]
        <= rel + Again(u, tok, lead)
  BY DEF Readied
<1> QED BY <1>1, <1>2, <1>3, <1>4

LEMMA WokenMove ==
  ASSUME NEW prep \in Nat, NEW rnd \in [Thread -> Nat],
         pc \in [Thread -> Control], work_ready \in [Thread -> Nat],
         NEW t \in Thread, NEW b, Goto(t, b),
         pc[t] # "work_ready", b # "work_ready",
         b \in Doing => pc[t] \in Doing,
         UNCHANGED <<work_ready, cursor>>,
         Woken(prep, rnd)
  PROVE  Woken(prep, rnd)'
<1> SUFFICES ASSUME NEW u \in Thread
             PROVE  (work_ready[u] + Cardinality(Waking(u)) + Awake(u)
                       + rnd[u] <= prep)'
  BY DEF Woken
<1>1. Waking(u)' = Waking(u)
  BY DEF Waking, Goto
<1>2. /\ Awake(u)' <= Awake(u)
      /\ Awake(u) \in Nat /\ Awake(u)' \in Nat
  BY DEF Awake, Doing, Encoding, Dropping, Goto
<1>3. work_ready[u] + Cardinality(Waking(u)) + Awake(u) + rnd[u] <= prep
  BY DEF Woken
<1>4. Cardinality(Waking(u)) \in Nat
  BY WakingFinite
<1> QED BY <1>1, <1>2, <1>3, <1>4

LEMMA PermitsMove ==
  ASSUME NEW prep, NEW rnd, NEW held,
         pc \in [Thread -> Control], NEW t \in Thread, NEW b, Goto(t, b),
         pc[t] # "drop_done",
         UNCHANGED <<quality_can_update, taken, upc>>,
         Permits(prep, rnd, held)
  PROVE  Permits(prep, rnd, held)'
BY DEF Goto, Permits

(* Moves that change nothing but a thread's control: while it prepares,    *)
(* while it encodes, or when it gives up.                                  *)
Plain_move(a, b) ==
  \/ {a, b} \subseteq {"init_bctx", "dma_sync", "skip_frame", "nwm_done",
                       "nwm_ready", "frame"}
  \/ a = "frame" /\ b = "flags"
  \/ {a, b} \subseteq {"quality_flag", "quality_done", "quality"}
  \/ {a, b} \subseteq {"start", "pre_progress", "term", "signal", "encoded",
                       "count"}
  \/ a \in Waiting \cup Encoding \cup {"start", "encoded"} /\ b = "exited"

LEMMA PlainMove ==
  ASSUME TypeOK, NEW t \in Thread, NEW b, Goto(t, b), Plain_move(pc[t], b),
         UNCHANGED <<screen_ready, work_done, thread_ready, work_ready,
                     work_ready_flag, work_done_count, work_done_flag,
                     should_capture, params, wi, cursor, screen,
                     quality_can_update, taken, upc>>,
         NEW cap, NEW prep, NEW rel, NEW rnd, NEW tok, NEW lead, NEW held,
         RoundsInv(cap, prep, rel, rnd, tok, lead, held)
  PROVE  RoundsInv(cap, prep, rel, rnd, tok, lead, held)'
<1> USE DEF Plain_move, params, screen
<1>a. /\ pc \in [Thread -> Control]
      /\ thread_ready \in [Thread -> Nat] /\ work_ready \in [Thread -> Nat]
  BY ConstantsAssumption DEF TypeOK
<1>b. Ghosts(cap, prep, rel, rnd, tok, lead)
  BY DEF RoundsInv
<1>1. Phase(cap, prep, rel, tok, lead)'
  BY DEF RoundsInv, Phase, Capturing
<1>2. Rounds(cap, prep, rel, rnd, tok, lead)'
  BY <1>a DEF RoundsInv, Ghosts, Rounds, Preparing, Leading, Doing, Dropped,
              Encoding, Dropping, Goto
<1>3. Claimed(cap, prep, rnd, lead)'
  BY <1>a, ClaimedMove DEF RoundsInv, Waiting, Encoding
<1>4. Works(cap, prep, rel, rnd, tok, lead)'
  BY DEF RoundsInv, Works, Freed, Capturing
<1>5. Skips(cap, prep, tok, lead)'
  BY <1>a DEF RoundsInv, Skips, Goto
<1>6. Counts(cap, rel, rnd)'
  BY <1>a, CountsMove DEF RoundsInv, Dropped, Waiting, Encoding
<1>7. Readied(rel, rnd, tok, lead)'
  BY <1>a, <1>b, ReadiedMove DEF RoundsInv, Ghosts
<1>8. Woken(prep, rnd)'
  BY <1>a, <1>b, WokenMove
     DEF RoundsInv, Ghosts, Doing, Encoding, Dropping, Waiting
<1>9. Permits(prep, rnd, held)'
  BY <1>a, PermitsMove DEF RoundsInv, Waiting, Encoding
<1> QED BY <1>b, <1>1, <1>2, <1>3, <1>4, <1>5, <1>6, <1>7, <1>8, <1>9
        DEF RoundsInv, Ghosts

(* A thread takes its permit of a round, or the one of its skipped frame.  *)
LEMMA ThreadReadyAcquire ==
  ASSUME TypeOK, NEW t \in Thread, Thread_ready_acquire(t),
         NEW cap, NEW prep, NEW rel, NEW rnd, NEW tok, NEW lead, NEW held,
         RoundsInv(cap, prep, rel, rnd, tok, lead, held)
  PROVE  RoundsInv(cap, prep, rel, rnd, tok, lead, held)'
<1> DEFINE b == IF pc[t] = "thread_ready" THEN "claim" ELSE "init_bctx"
<1>a. /\ pc \in [Thread -> Control]
      /\ thread_ready \in [Thread -> Nat] /\ work_ready \in [Thread -> Nat]
  BY ConstantsAssumption DEF TypeOK
<1>b. Ghosts(cap, prep, rel, rnd, tok, lead)
  BY DEF RoundsInv
<1>c. /\ pc[t] \in {"thread_ready", "skip_wait"} /\ thread_ready[t] > 0
      /\ thread_ready' = [thread_ready EXCEPT ![t] = @ - 1]
      /\ Goto(t, b)
      /\ UNCHANGED <<screen_ready, work_done, work_ready, work_ready_flag,
                     work_done_count, work_done_flag, should_capture,
                     work_index, thread_index, skip_frames, wi, cursor, spc,
                     sw, srel, quality_can_update, taken, upc>>
  BY DEF Thread_ready_acquire, works, params, screen, quality
<1>d. thread_ready[t] + Owed(t) + Took(t, lead) + rnd[t]
        <= rel + Again(t, tok, lead)
  BY DEF RoundsInv, Readied
<1>e. /\ Owed(t) \in Nat /\ Took(t, lead) \in Nat
      /\ rnd[t] \in Nat /\ rel \in Nat /\ thread_ready[t] \in Nat
  BY <1>a, <1>b DEF Owed, Took, Ghosts
<1>f. ASSUME pc[t] = "thread_ready" PROVE rnd[t] < rel /\ t # lead
  <2>1. t # lead
    BY <1>b, <1>f, ThreadFinite
       DEF RoundsInv, Rounds, Preparing, Leading, Ghosts
  <2>2. Again(t, tok, lead) = 0
    BY <2>1, <1>f DEF Again
  <2> QED BY <2>1, <2>2, <1>c, <1>d, <1>e
<1>g. ASSUME pc[t] = "skip_wait" PROVE tok = "lead"
  <2>1. t = lead /\ rnd[t] = cap /\ rel <= cap + 1
    BY <1>b, <1>g, ThreadFinite
       DEF RoundsInv, Rounds, Phase, Preparing, Leading, Ghosts
  <2>2. Took(t, lead) = 1
    BY <2>1 DEF Took
  <2>3. Again(t, tok, lead) > 0
    BY <2>1, <2>2, <1>b, <1>c, <1>d, <1>e DEF Ghosts, Again
  <2> QED BY <2>3 DEF Again
<1>1. Phase(cap, prep, rel, tok, lead)'
  BY <1>c DEF RoundsInv, Phase, Capturing
<1>2. Rounds(cap, prep, rel, rnd, tok, lead)'
  BY <1>a, <1>b, <1>c, <1>f, <1>g DEF RoundsInv, Ghosts, Rounds, Preparing, Leading, Doing, Dropped,
              Encoding, Dropping, Goto
<1>3. Claimed(cap, prep, rnd, lead)'
  BY <1>a, <1>c, ClaimedMove DEF RoundsInv
<1>4. Works(cap, prep, rel, rnd, tok, lead)'
  BY <1>c DEF RoundsInv, Works, Freed, Capturing
<1>5. Skips(cap, prep, tok, lead)'
  BY <1>a, <1>c, SkipsMove DEF RoundsInv
<1>6. Counts(cap, rel, rnd)'
  BY <1>a, <1>c, CountsMove DEF RoundsInv, Dropped
<1>7. Readied(rel, rnd, tok, lead)'
  <2> SUFFICES ASSUME NEW u \in Thread
               PROVE  (thread_ready[u] + Owed(u) + Took(u, lead) + rnd[u]
                         <= rel + Again(u, tok, lead))'
    BY DEF Readied
  <2>1. thread_ready[u] + Owed(u) + Took(u, lead) + rnd[u]
          <= rel + Again(u, tok, lead)
    BY DEF RoundsInv, Readied
  <2>2. CASE u # t
    <3>1. /\ thread_ready'[u] = thread_ready[u] /\ Owed(u)' = Owed(u)
          /\ Took(u, lead)' = Took(u, lead)
          /\ Again(u, tok, lead)' = Again(u, tok, lead)
      BY <2>2, <1>a, <1>c DEF Owed, Took, Again, Goto
    <3> QED BY <2>1, <3>1
  <2>3. CASE u = t
    <3>1. thread_ready'[t] = thread_ready[t] - 1 /\ Owed(t)' = Owed(t)
      BY <1>a, <1>c DEF Owed
    <3>2. Took(t, lead)' = 1 /\ Again(t, tok, lead)' = 0
      BY <1>a, <1>c DEF Took, Again, Goto
    <3>3. CASE pc[t] = "thread_ready"
      <4>1. Took(t, lead) = 0 /\ Again(t, tok, lead) = 0
        BY <1>f, <3>3 DEF Took, Again
      <4> QED BY <1>d, <1>e, <2>3, <3>1, <3>2, <4>1
    <3>4. CASE pc[t] = "skip_wait"
      <4>1. Took(t, lead) = 1 /\ Again(t, tok, lead) \in {0, 1}
        BY <3>4 DEF Took, Again
      <4> QED BY <1>d, <1>e, <2>3, <3>1, <3>2, <4>1
    <3> QED BY <3>3, <3>4, <1>c
  <2> QED BY <2>2, <2>3
<1>8. Woken(prep, rnd)'
  BY <1>a, <1>b, <1>c, WokenMove
     DEF RoundsInv, Ghosts, Doing, Encoding, Dropping
<1>9. Permits(prep, rnd, held)'
  BY <1>a, <1>c, PermitsMove DEF RoundsInv
<1> QED BY <1>b, <1>1, <1>2, <1>3, <1>4, <1>5, <1>6, <1>7, <1>8, <1>9
        DEF RoundsInv, Ghosts

(* The first thread to claim a released round becomes its leader.          *)
LEMMA WorkReadyAcquireFirst ==
  ASSUME TypeOK, NEW t \in Thread, Work_ready_acquire(t), Claims(wi[t]),
         NEW cap, NEW prep, NEW rel, NEW rnd, NEW tok, NEW lead, NEW held,
         RoundsInv(cap, prep, rel, rnd, tok, lead, held)
  PROVE  /\ lead = NoThread /\ tok = "lead" /\ rnd[t] = cap
         /\ RoundsInv(cap, prep, rel, rnd, tok, t, held)'
<1>a. /\ pc \in [Thread -> Control] /\ work_ready_flag \in [Work -> BOOLEAN]
      /\ thread_ready \in [Thread -> Nat] /\ work_ready \in [Thread -> Nat]
  BY ConstantsAssumption DEF TypeOK
<1>b. Ghosts(cap, prep, rel, rnd, tok, lead)
  BY DEF RoundsInv
<1>c. /\ pc[t] = "claim" /\ Goto(t, "init_bctx")
      /\ work_ready_flag' = [work_ready_flag EXCEPT
                               ![wi[t]] = IF CORE_COUNT = 1 THEN @ ELSE TRUE]
      /\ UNCHANGED <<screen_ready, work_done, thread_ready, work_ready,
                     work_done_count, work_done_flag, should_capture,
                     work_index, thread_index, skip_frames, wi, cursor, spc,
                     sw, srel, quality_can_update, taken, upc>>
  BY DEF Work_ready_acquire, sems, params, screen, quality
<1>d. wi[t] = Slot(rnd[t]) /\ rnd[t] <= prep /\ rnd[t] # rel /\ rnd[t] \in Nat
  BY <1>b, <1>c DEF RoundsInv, Rounds, Ghosts
<1>e. rnd[t] = prep
  <2>1. CASE CORE_COUNT = 1
    BY <1>c, <2>1 DEF RoundsInv, Claimed
  <2>2. CASE CORE_COUNT # 1
    <3>1. ~work_ready_flag[Slot(rnd[t])] /\ CORE_COUNT > 1
      BY <1>d, <2>2, ConstantsAssumption DEF Claims
    <3>2. rnd[t] < prep => rnd[t] \in 0 .. cap
      BY <1>b, <1>d DEF RoundsInv, Phase, Ghosts
    <3> QED BY <1>b, <1>c, <1>d, <3>1, <3>2 DEF RoundsInv, Claimed, Ghosts
  <2> QED BY <2>1, <2>2
<1>f. prep = cap /\ rel = cap + 1
  BY <1>b, <1>d, <1>e DEF RoundsInv, Phase, Ghosts
<1>g. lead = NoThread
  <2>1. CASE CORE_COUNT = 1
    <3>1. lead # NoThread => lead = t
      BY <1>b, <2>1 DEF Ghosts, Thread
    <3> QED BY <1>c, <3>1 DEF RoundsInv, Rounds, Preparing, Leading
  <2>2. CASE CORE_COUNT # 1
    <3>1. ~work_ready_flag[Slot(cap)] /\ CORE_COUNT > 1
      BY <1>d, <1>e, <1>f, <2>2, ConstantsAssumption DEF Claims
    <3>2. cap \in 0 .. cap
      BY <1>b DEF Ghosts
    <3> QED BY <1>c, <1>e, <1>f, <3>1, <3>2 DEF RoundsInv, Claimed
  <2> QED BY <2>1, <2>2
<1>h. tok = "lead"
  BY <1>b, <1>f, <1>g DEF RoundsInv, Phase, Ghosts, Token
<1>0. Ghosts(cap, prep, rel, rnd, tok, t)
  BY <1>b DEF Ghosts
<1>1. Phase(cap, prep, rel, tok, t)'
  BY <1>b, <1>c, <1>f, <1>h DEF RoundsInv, Phase, Capturing, Ghosts
<1>2. Rounds(cap, prep, rel, rnd, tok, t)'
  BY <1>a, <1>b, <1>c, <1>d, <1>e, <1>f, <1>g, <1>h, ThreadFinite
     DEF RoundsInv, Ghosts, Rounds, Preparing, Leading, Doing, Dropped,
         Encoding, Dropping, Goto
<1>3. Claimed(cap, prep, rnd, t)'
  <2>1. CASE CORE_COUNT = 1
    BY <1>a, <1>c, <2>1 DEF RoundsInv, Claimed, Goto
  <2>2. CASE CORE_COUNT > 1
    <3>1. work_ready_flag'[Slot(cap)]
      BY <1>a, <1>b, <1>c, <1>d, <1>e, <1>f, <2>2, SlotType DEF Ghosts
    <3>2. \A w \in Work : work_ready_flag[w] => work_ready_flag'[w]
      BY <1>a, <1>c
    <3>3. \A n \in 0 .. cap : Slot(n) \in Work
      BY <1>b, SlotType DEF Ghosts
    <3> QED BY <1>a, <1>b, <1>c, <2>2, <3>1, <3>2, <3>3
            DEF RoundsInv, Claimed, Goto, Ghosts
  <2> QED BY <2>1, <2>2, ConstantsAssumption
<1>4. Works(cap, prep, rel, rnd, tok, t)'
  BY <1>c DEF RoundsInv, Works, Freed, Capturing
<1>5. Skips(cap, prep, tok, t)'
  <2>1. \A u \in Thread : pc[u] # "skip_release"
    BY <1>g, ThreadFinite DEF RoundsInv, Rounds, Preparing, Leading
  <2> QED BY <1>a, <1>c, <1>g, <1>h, <2>1, ThreadFinite
          DEF RoundsInv, Skips, Goto
<1>6. Counts(cap, rel, rnd)'
  BY <1>a, <1>c, CountsMove DEF RoundsInv, Dropped
<1>7. Readied(rel, rnd, tok, t)'
  <2>1. Readied(rel, rnd, tok, t)
    <3> SUFFICES ASSUME NEW u \in Thread
                 PROVE  thread_ready[u] + Owed(u) + Took(u, t) + rnd[u]
                           <= rel + Again(u, tok, t)
      BY DEF Readied
    <3>1. Took(u, t) = Took(u, lead) /\ Again(u, tok, t) = Again(u, tok, lead)
      BY <1>c, <1>g, ThreadFinite DEF Took, Again
    <3> QED BY <3>1 DEF RoundsInv, Readied
  <2> QED BY <1>a, <1>b, <1>c, <2>1, ReadiedMove DEF Ghosts
<1>8. Woken(prep, rnd)'
  BY <1>a, <1>b, <1>c, WokenMove
     DEF RoundsInv, Ghosts, Doing, Encoding, Dropping
<1>9. Permits(prep, rnd, held)'
  BY <1>a, <1>c, PermitsMove DEF RoundsInv
<1> QED BY <1>0, <1>e, <1>f, <1>g, <1>h, <1>1, <1>2, <1>3, <1>4, <1>5, <1>6,
           <1>7, <1>8, <1>9 DEF RoundsInv, Ghosts

(* A thread that finds the round claimed waits for its leader.             *)
LEMMA WorkReadyAcquireOther ==
  ASSUME TypeOK, NEW t \in Thread, Work_ready_acquire(t), ~Claims(wi[t]),
         NEW cap, NEW prep, NEW rel, NEW rnd, NEW tok, NEW lead, NEW held,
         RoundsInv(cap, prep, rel, rnd, tok, lead, held)
  PROVE  RoundsInv(cap, prep, rel, rnd, tok, lead, held)'
<1>a. /\ pc \in [Thread -> Control] /\ work_ready_flag \in [Work -> BOOLEAN]
      /\ thread_ready \in [Thread -> Nat] /\ work_ready \in [Thread -> Nat]
  BY ConstantsAssumption DEF TypeOK
<1>b. Ghosts(cap, prep, rel, rnd, tok, lead)
  BY DEF RoundsInv
<1>c. /\ pc[t] = "claim" /\ Goto(t, "other")
      /\ UNCHANGED <<screen_ready, work_done, thread_ready, work_ready,
                     work_done_count, work_done_flag, should_capture,
                     work_index, thread_index, skip_frames, wi, cursor, spc,
                     sw, srel, quality_can_update, taken, upc>>
  BY DEF Work_ready_acquire, sems, params, screen, quality
<1>d. UNCHANGED work_ready_flag
  <2>1. /\ work_ready_flag[wi[t]] = TRUE
        /\ work_ready_flag' = [work_ready_flag EXCEPT ![wi[t]] = TRUE]
    BY <1>a DEF Work_ready_acquire, Claims, TypeOK
  <2> QED BY <1>a, <2>1
<1>1. Phase(cap, prep, rel, tok, lead)'
  BY <1>c DEF RoundsInv, Phase, Capturing
<1>2. Rounds(cap, prep, rel, rnd, tok, lead)'
  BY <1>a, <1>b, <1>c
     DEF RoundsInv, Ghosts, Rounds, Preparing, Leading, Doing, Dropped,
         Encoding, Dropping, Goto
<1>3. Claimed(cap, prep, rnd, lead)'
  BY <1>a, <1>c, <1>d, ClaimedMove DEF RoundsInv
<1>4. Works(cap, prep, rel, rnd, tok, lead)'
  BY <1>c DEF RoundsInv, Works, Freed, Capturing
<1>5. Skips(cap, prep, tok, lead)'
  BY <1>a, <1>c, SkipsMove DEF RoundsInv
<1>6. Counts(cap, rel, rnd)'
  BY <1>a, <1>c, CountsMove DEF RoundsInv, Dropped
<1>7. Readied(rel, rnd, tok, lead)'
  BY <1>a, <1>b, <1>c, ReadiedMove DEF RoundsInv, Ghosts
<1>8. Woken(prep, rnd)'
  BY <1>a, <1>b, <1>c, WokenMove
     DEF RoundsInv, Ghosts, Doing, Encoding, Dropping
<1>9. Permits(prep, rnd, held)'
  BY <1>a, <1>c, PermitsMove DEF RoundsInv
<1> QED BY <1>b, <1>1, <1>2, <1>3, <1>4, <1>5, <1>6, <1>7, <1>8, <1>9
        DEF RoundsInv, Ghosts

(* What is known while a thread prepares a frame.                          *)
LEMMA Leader ==
  ASSUME NEW t \in Thread, pc[t] \in Preparing,
         NEW cap, NEW prep, NEW rel, NEW rnd, NEW tok, NEW lead, NEW held,
         RoundsInv(cap, prep, rel, rnd, tok, lead, held)
  PROVE  /\ t = lead /\ rnd[t] = cap /\ wi[t] = Slot(cap)
         /\ prep = cap /\ rel = cap + 1
         /\ pc[t] # "skip_wait" => tok = "lead" /\ spc \notin Capturing
         /\ Slot(cap) \in Work
         /\ \A u \in Thread : pc[u] \in Preparing => u = t
<1>1. Ghosts(cap, prep, rel, rnd, tok, lead)
  BY DEF RoundsInv
<1>2. t = lead /\ wi[t] = Slot(rnd[t]) /\ rnd[t] = cap
  BY ThreadFinite DEF RoundsInv, Rounds
<1>3. pc[t] # "skip_wait" => tok = "lead"
  BY DEF RoundsInv, Rounds
<1>4. prep = cap /\ rel = cap + 1 /\ (tok = "lead" => spc \notin Capturing)
  BY <1>1, <1>2, ThreadFinite DEF RoundsInv, Phase, Ghosts
<1>5. \A u \in Thread : pc[u] \in Preparing => u = t
  BY <1>2 DEF RoundsInv, Rounds
<1> QED BY <1>1, <1>2, <1>3, <1>4, <1>5, SlotType DEF Ghosts

(* The leader fills in the context and rearms pre_progress.                 *)
LEMMA InitBctx ==
  ASSUME TypeOK, NEW t \in Thread, Init_bctx(t),
         NEW cap, NEW prep, NEW rel, NEW rnd, NEW tok, NEW lead, NEW held,
         RoundsInv(cap, prep, rel, rnd, tok, lead, held)
  PROVE  RoundsInv(cap, prep, rel, rnd, tok, lead, held)'
<1>a. /\ pc \in [Thread -> Control]
      /\ thread_ready \in [Thread -> Nat] /\ work_ready \in [Thread -> Nat]
      /\ should_capture \in [Work -> BOOLEAN]
  BY ConstantsAssumption DEF TypeOK
<1>b. Ghosts(cap, prep, rel, rnd, tok, lead)
  BY DEF RoundsInv
<1>c. /\ pc[t] = "init_bctx" /\ Goto(t, "dma_sync")
      /\ should_capture' = [should_capture EXCEPT ![wi[t]] = FALSE]
      /\ UNCHANGED <<screen_ready, work_done, thread_ready, work_ready,
                     work_ready_flag, work_done_count, work_done_flag,
                     work_index, thread_index, skip_frames, wi, cursor,
                     spc, sw, srel, quality_can_update, taken, upc>>
  BY DEF Init_bctx, sems, params, screen, quality
<1>d. /\ t = lead /\ rnd[t] = cap /\ wi[t] = Slot(cap)
      /\ prep = cap /\ rel = cap + 1 /\ tok = "lead"
      /\ spc \notin Capturing /\ Slot(cap) \in Work
      /\ \A u \in Thread : pc[u] \in Preparing => u = t
  BY <1>c, Leader DEF Preparing, Leading
<1>1. Phase(cap, prep, rel, tok, lead)'
  BY <1>c DEF RoundsInv, Phase, Capturing
<1>2. Rounds(cap, prep, rel, rnd, tok, lead)'
  <2>1. \A u \in Thread : pc[u] # "index_next"
    BY <1>d DEF RoundsInv, Rounds
  <2> QED BY <1>a, <1>b, <1>c, <1>d, <2>1
          DEF RoundsInv, Ghosts, Rounds, Preparing, Leading, Doing, Dropped,
              Encoding, Dropping, Goto
<1>3. Claimed(cap, prep, rnd, lead)'
  BY <1>a, <1>c, ClaimedMove DEF RoundsInv
<1>4. Works(cap, prep, rel, rnd, tok, lead)'
  <2>1. ASSUME NEW u \in Thread, NEW n \in 0 .. cap, rnd[u] <= n, n < cap
        PROVE  should_capture'[Slot(n)]
    <3>1. rel <= rnd[u] + WORK_COUNT
      BY DEF RoundsInv, Rounds
    <3>2. n \in Nat /\ cap \in Nat /\ n <= cap /\ cap < n + WORK_COUNT
      BY <1>b, <1>d, <2>1, <3>1, ConstantsAssumption DEF Ghosts
    <3>3. Slot(n) # Slot(cap) /\ Slot(n) \in Work
      BY <2>1, <3>2, SlotInjective, SlotType
    <3>4. should_capture[Slot(n)]
      BY <2>1 DEF RoundsInv, Works
    <3> QED BY <1>a, <1>c, <1>d, <3>3, <3>4
  <2> QED BY <1>c, <2>1 DEF RoundsInv, Works, Freed, Capturing
<1>5. Skips(cap, prep, tok, lead)'
  BY <1>a, <1>c, SkipsMove DEF RoundsInv
<1>6. Counts(cap, rel, rnd)'
  BY <1>a, <1>c, CountsMove DEF RoundsInv, Dropped
<1>7. Readied(rel, rnd, tok, lead)'
  BY <1>a, <1>b, <1>c, ReadiedMove DEF RoundsInv, Ghosts
<1>8. Woken(prep, rnd)'
  BY <1>a, <1>b, <1>c, WokenMove
     DEF RoundsInv, Ghosts, Doing, Encoding, Dropping
<1>9. Permits(prep, rnd, held)'
  BY <1>a, <1>c, PermitsMove DEF RoundsInv
<1> QED BY <1>b, <1>1, <1>2, <1>3, <1>4, <1>5, <1>6, <1>7, <1>8,
           <1>9 DEF RoundsInv, Ghosts

(* The leader skips a frame: the next capture is for it alone.              *)
LEMMA SkipFrame ==
  ASSUME TypeOK, NEW t \in Thread, Skip_frame(t),
         NEW cap, NEW prep, NEW rel, NEW rnd, NEW tok, NEW lead, NEW held,
         RoundsInv(cap, prep, rel, rnd, tok, lead, held)
  PROVE  RoundsInv(cap, prep, rel, rnd, tok, lead, held)'
<1>a. /\ pc \in [Thread -> Control]
      /\ thread_ready \in [Thread -> Nat] /\ work_ready \in [Thread -> Nat]
      /\ skip_frames \in [Work -> BOOLEAN]
  BY ConstantsAssumption DEF TypeOK
<1>b. Ghosts(cap, prep, rel, rnd, tok, lead)
  BY DEF RoundsInv
<1>c. /\ pc[t] = "skip_frame" /\ Goto(t, "skip_release")
      /\ skip_frames' = [skip_frames EXCEPT ![wi[t]] = TRUE]
      /\ thread_index' = t
      /\ UNCHANGED <<screen_ready, work_done, thread_ready, work_ready,
                     work_ready_flag, work_done_count, work_done_flag,
                     should_capture, work_index, wi, cursor, spc, sw, srel,
                     quality_can_update, taken, upc>>
  BY DEF Skip_frame, sems, works, screen, quality
<1>d. /\ t = lead /\ rnd[t] = cap /\ wi[t] = Slot(cap)
      /\ prep = cap /\ rel = cap + 1 /\ tok = "lead"
      /\ spc \notin Capturing /\ Slot(cap) \in Work
      /\ \A u \in Thread : pc[u] \in Preparing => u = t
  BY <1>c, Leader DEF Preparing, Leading
<1>1. Phase(cap, prep, rel, tok, lead)'
  BY <1>c DEF RoundsInv, Phase, Capturing
<1>2. Rounds(cap, prep, rel, rnd, tok, lead)'
  BY <1>a, <1>b, <1>c
     DEF RoundsInv, Ghosts, Rounds, Preparing, Leading, Doing, Dropped,
         Encoding, Dropping, Goto
<1>3. Claimed(cap, prep, rnd, lead)'
  BY <1>a, <1>c, ClaimedMove DEF RoundsInv
<1>4. Works(cap, prep, rel, rnd, tok, lead)'
  BY <1>c DEF RoundsInv, Works, Freed, Capturing
<1>5. Skips(cap, prep, tok, lead)'
  BY <1>a, <1>c, <1>d, ThreadFinite
     DEF RoundsInv, Skips, Goto, Preparing, Leading
<1>6. Counts(cap, rel, rnd)'
  BY <1>a, <1>c, CountsMove DEF RoundsInv, Dropped
<1>7. Readied(rel, rnd, tok, lead)'
  BY <1>a, <1>b, <1>c, ReadiedMove DEF RoundsInv, Ghosts
<1>8. Woken(prep, rnd)'
  BY <1>a, <1>b, <1>c, WokenMove
     DEF RoundsInv, Ghosts, Doing, Encoding, Dropping
<1>9. Permits(prep, rnd, held)'
  BY <1>a, <1>c, PermitsMove DEF RoundsInv
<1> QED BY <1>b, <1>1, <1>2, <1>3, <1>4, <1>5, <1>6, <1>7, <1>8,
           <1>9 DEF RoundsInv, Ghosts

(* The leader asks for that capture and hands over the round.               *)
LEMMA SkipFrameRelease ==
  ASSUME TypeOK, NEW t \in Thread, Skip_frame_release(t),
         NEW cap, NEW prep, NEW rel, NEW rnd, NEW tok, NEW lead, NEW held,
         RoundsInv(cap, prep, rel, rnd, tok, lead, held)
  PROVE  RoundsInv(cap, prep, rel, rnd, "sem", lead, held)'
<1>a. /\ pc \in [Thread -> Control]
      /\ thread_ready \in [Thread -> Nat] /\ work_ready \in [Thread -> Nat]
  BY ConstantsAssumption DEF TypeOK
<1>b. Ghosts(cap, prep, rel, rnd, tok, lead)
  BY DEF RoundsInv
<1>c. /\ pc[t] = "skip_release" /\ Goto(t, "skip_wait")
      /\ screen_ready' = Released(screen_ready, 1, 1)
      /\ UNCHANGED <<work_done, thread_ready, work_ready, work_ready_flag,
                     work_done_count, work_done_flag, should_capture,
                     work_index, thread_index, skip_frames, wi, cursor,
                     spc, sw, srel, quality_can_update, taken, upc>>
  BY DEF Skip_frame_release, works, params, screen, quality
<1>d. /\ t = lead /\ rnd[t] = cap /\ wi[t] = Slot(cap)
      /\ prep = cap /\ rel = cap + 1 /\ tok = "lead"
      /\ spc \notin Capturing /\ Slot(cap) \in Work
      /\ \A u \in Thread : pc[u] \in Preparing => u = t
  BY <1>c, Leader DEF Preparing, Leading
<1>0. Ghosts(cap, prep, rel, rnd, "sem", lead)
  BY <1>b DEF Ghosts, Token
<1>1. Phase(cap, prep, rel, "sem", lead)'
  BY <1>b, <1>c, <1>d, ThreadFinite DEF RoundsInv, Phase, Ghosts
<1>2. Rounds(cap, prep, rel, rnd, "sem", lead)'
  <2>1. \A u \in Thread : pc[u] \notin {"index_next", "screen_ready"}
    BY <1>d DEF RoundsInv, Rounds
  <2> QED BY <1>a, <1>b, <1>c, <1>d, <2>1
          DEF RoundsInv, Ghosts, Rounds, Preparing, Leading, Doing, Dropped,
              Encoding, Dropping, Goto
<1>3. Claimed(cap, prep, rnd, lead)'
  BY <1>a, <1>c, ClaimedMove DEF RoundsInv
<1>4. Works(cap, prep, rel, rnd, "sem", lead)'
  BY <1>c DEF RoundsInv, Works, Freed, Capturing
<1>5. Skips(cap, prep, "sem", lead)'
  BY <1>a, <1>c, <1>d DEF RoundsInv, Skips, Goto
<1>6. Counts(cap, rel, rnd)'
  BY <1>a, <1>c, CountsMove DEF RoundsInv, Dropped
<1>7. Readied(rel, rnd, "sem", lead)'
  <2> SUFFICES ASSUME NEW u \in Thread
               PROVE  (thread_ready[u] + Owed(u) + Took(u, lead) + rnd[u]
                         <= rel + Again(u, "sem", lead))'
    BY DEF Readied
  <2>1. thread_ready[u] + Owed(u) + Took(u, lead) + rnd[u]
          <= rel + Again(u, tok, lead)
    BY DEF RoundsInv, Readied
  <2>2. /\ Owed(u)' = Owed(u) /\ Took(u, lead)' = Took(u, lead)
        /\ Again(u, "sem", lead)' = Again(u, tok, lead)
    BY <1>a, <1>c, <1>d DEF Owed, Took, Again, Goto
  <2> QED BY <1>c, <2>1, <2>2
<1>8. Woken(prep, rnd)'
  BY <1>a, <1>b, <1>c, WokenMove
     DEF RoundsInv, Ghosts, Doing, Encoding, Dropping
<1>9. Permits(prep, rnd, held)'
  BY <1>a, <1>c, PermitsMove DEF RoundsInv
<1> QED BY <1>0, <1>1, <1>2, <1>3, <1>4, <1>5, <1>6, <1>7, <1>8,
           <1>9 DEF RoundsInv, Ghosts

(* The leader sends its frame: the work is in use, no skip is pending.      *)
LEMMA FlagsRelease ==
  ASSUME TypeOK, NEW t \in Thread, Flags_release(t),
         NEW cap, NEW prep, NEW rel, NEW rnd, NEW tok, NEW lead, NEW held,
         RoundsInv(cap, prep, rel, rnd, tok, lead, held)
  PROVE  RoundsInv(cap, prep, rel, rnd, tok, lead, held)'
<1>a. /\ pc \in [Thread -> Control]
      /\ thread_ready \in [Thread -> Nat] /\ work_ready \in [Thread -> Nat]
      /\ skip_frames \in [Work -> BOOLEAN]
      /\ work_done_flag \in [Work -> BOOLEAN]
  BY ConstantsAssumption DEF TypeOK
<1>b. Ghosts(cap, prep, rel, rnd, tok, lead)
  BY DEF RoundsInv
<1>c. /\ pc[t] = "flags" /\ Goto(t, "quality_flag")
      /\ skip_frames' = [skip_frames EXCEPT ![wi[t]] = FALSE]
      /\ work_done_flag' = [work_done_flag EXCEPT ![wi[t]] = FALSE]
      /\ UNCHANGED <<screen_ready, work_done, thread_ready, work_ready,
                     work_ready_flag, work_done_count, should_capture,
                     work_index, thread_index, wi, cursor, spc, sw, srel,
                     quality_can_update, taken, upc>>
  BY DEF Flags_release, sems, screen, quality
<1>d. /\ t = lead /\ rnd[t] = cap /\ wi[t] = Slot(cap)
      /\ prep = cap /\ rel = cap + 1 /\ tok = "lead"
      /\ spc \notin Capturing /\ Slot(cap) \in Work
      /\ \A u \in Thread : pc[u] \in Preparing => u = t
  BY <1>c, Leader DEF Preparing, Leading
<1>1. Phase(cap, prep, rel, tok, lead)'
  BY <1>c DEF RoundsInv, Phase, Capturing
<1>2. Rounds(cap, prep, rel, rnd, tok, lead)'
  BY <1>a, <1>b, <1>c
     DEF RoundsInv, Ghosts, Rounds, Preparing, Leading, Doing, Dropped,
         Encoding, Dropping, Goto
<1>3. Claimed(cap, prep, rnd, lead)'
  BY <1>a, <1>c, ClaimedMove DEF RoundsInv
<1>4. Works(cap, prep, rel, rnd, tok, lead)'
  BY <1>a, <1>c, <1>d DEF RoundsInv, Works, Freed, Capturing
<1>5. Skips(cap, prep, tok, lead)'
  BY <1>a, <1>c, <1>d, ThreadFinite
     DEF RoundsInv, Skips, Goto, Preparing, Leading
<1>6. Counts(cap, rel, rnd)'
  BY <1>a, <1>c, CountsMove DEF RoundsInv, Dropped
<1>7. Readied(rel, rnd, tok, lead)'
  BY <1>a, <1>b, <1>c, ReadiedMove DEF RoundsInv, Ghosts
<1>8. Woken(prep, rnd)'
  BY <1>a, <1>b, <1>c, WokenMove
     DEF RoundsInv, Ghosts, Doing, Encoding, Dropping
<1>9. Permits(prep, rnd, held)'
  BY <1>a, <1>c, PermitsMove DEF RoundsInv
<1> QED BY <1>b, <1>1, <1>2, <1>3, <1>4, <1>5, <1>6, <1>7, <1>8,
           <1>9 DEF RoundsInv, Ghosts

(* The leader takes a permit: its frame is ready to be encoded.             *)
LEMMA QualityWorkAcquire ==
  ASSUME TypeOK, NEW t \in Thread, Quality_work_acquire(t),
         NEW cap, NEW prep, NEW rel, NEW rnd, NEW tok, NEW lead, NEW held,
         RoundsInv(cap, prep, rel, rnd, tok, lead, held)
  PROVE  /\ prep = cap /\ rel = cap + 1 /\ tok = "lead" /\ t = lead
         /\ RoundsInv(cap, cap + 1, rel, rnd, "enc", NoThread, held \cup {cap})'
<1>a. /\ pc \in [Thread -> Control]
      /\ thread_ready \in [Thread -> Nat] /\ work_ready \in [Thread -> Nat]
      /\ cursor \in [Thread -> Thread]
      /\ quality_can_update \in Nat /\ taken \in Nat
  BY ConstantsAssumption DEF TypeOK
<1>b. Ghosts(cap, prep, rel, rnd, tok, lead)
  BY DEF RoundsInv
<1>c. /\ pc[t] = "quality" /\ Goto(t, "work_ready")
      /\ quality_can_update > 0
      /\ quality_can_update' = quality_can_update - 1
      /\ cursor' = [cursor EXCEPT ![t] = 0]
      /\ UNCHANGED <<screen_ready, work_done, thread_ready, work_ready,
                     work_ready_flag, work_done_count, work_done_flag,
                     should_capture, work_index, thread_index, skip_frames,
                     wi, spc, sw, srel, taken, upc>>
  BY DEF Quality_work_acquire, sems, works, params, screen
<1>d. /\ t = lead /\ rnd[t] = cap /\ wi[t] = Slot(cap)
      /\ prep = cap /\ rel = cap + 1 /\ tok = "lead"
      /\ spc \notin Capturing /\ Slot(cap) \in Work
      /\ \A u \in Thread : pc[u] \in Preparing => u = t
  BY <1>c, Leader DEF Preparing, Leading
<1>0. Ghosts(cap, cap + 1, rel, rnd, "enc", NoThread)
  BY <1>b DEF Ghosts, Token
<1>1. Phase(cap, cap + 1, rel, "enc", NoThread)'
  BY <1>b, <1>c, <1>d DEF RoundsInv, Phase, Ghosts
<1>2. Rounds(cap, cap + 1, rel, rnd, "enc", NoThread)'
  <2>1. \A u \in Thread : pc[u] \notin {"index_next", "screen_ready"}
    BY <1>d DEF RoundsInv, Rounds
  <2> QED BY <1>a, <1>b, <1>c, <1>d, <2>1
          DEF RoundsInv, Ghosts, Rounds, Preparing, Leading, Doing, Dropped,
              Encoding, Dropping, Goto
<1>3. Claimed(cap, cap + 1, rnd, NoThread)'
  <2>1. CASE CORE_COUNT > 1
    <3> SUFFICES ASSUME NEW u \in Thread, NEW n \in 0 .. cap, rnd[u] <= n,
                        ~(rnd[u] = n /\ pc'[u] \in {"drop_quality", "drop_done"})
                 PROVE  work_ready_flag'[Slot(n)]
      BY <2>1 DEF Claimed
    <3>1. n < prep \/ (n = cap /\ lead # NoThread)
      BY <1>b, <1>d, ThreadFinite DEF Ghosts
    <3>2. ~(rnd[u] = n /\ pc[u] \in {"drop_quality", "drop_done"})
      BY <1>a, <1>c DEF Goto
    <3> QED BY <1>c, <2>1, <3>1, <3>2 DEF RoundsInv, Claimed
  <2>2. CASE CORE_COUNT = 1
    <3>1. \A u \in Thread : u = t
      BY <2>2 DEF Thread
    <3> QED BY <1>a, <1>b, <1>c, <1>d, <2>2, <3>1 DEF Claimed, Goto, Ghosts
  <2> QED BY <2>1, <2>2, ConstantsAssumption
<1>4. Works(cap, cap + 1, rel, rnd, "enc", NoThread)'
  <2>1. \A w \in Work : ~work_done_flag[w]
    BY <1>c, <1>d DEF RoundsInv, Works, Skips
  <2> QED BY <1>c, <1>d, <2>1 DEF RoundsInv, Works, Freed, Capturing
<1>5. Skips(cap, cap + 1, "enc", NoThread)'
  <2>1. \A w \in Work : ~skip_frames[w]
    BY <1>c, <1>d DEF RoundsInv, Skips
  <2>2. \A u \in Thread : pc'[u] \notin Preparing
    BY <1>a, <1>c, <1>d DEF Goto, Preparing, Leading
  <2> QED BY <1>c, <2>1, <2>2 DEF Skips, Preparing, Leading
<1>6. Counts(cap, rel, rnd)'
  BY <1>a, <1>c, CountsMove DEF RoundsInv, Dropped
<1>7. Readied(rel, rnd, "enc", NoThread)'
  <2> SUFFICES ASSUME NEW u \in Thread
               PROVE  (thread_ready[u] + Owed(u) + Took(u, NoThread) + rnd[u]
                         <= rel + Again(u, "enc", NoThread))'
    BY DEF Readied
  <2>1. thread_ready[u] + Owed(u) + Took(u, lead) + rnd[u]
          <= rel + Again(u, tok, lead)
    BY DEF RoundsInv, Readied
  <2>2. /\ Owed(u)' = Owed(u) /\ Took(u, NoThread)' = Took(u, lead)
        /\ Again(u, "enc", NoThread)' = Again(u, tok, lead)
    BY <1>a, <1>c, <1>d, ThreadFinite DEF Owed, Took, Again, Goto
  <2> QED BY <1>c, <2>1, <2>2
<1>8. Woken(cap + 1, rnd)'
  <2> SUFFICES ASSUME NEW u \in Thread
               PROVE  (work_ready[u] + Cardinality(Waking(u)) + Awake(u)
                         + rnd[u] <= cap + 1)'
    BY DEF Woken
  <2>1. work_ready[u] + Cardinality(Waking(u)) + Awake(u) + rnd[u] <= cap
    BY <1>d DEF RoundsInv, Woken
  <2>2. /\ Cardinality(Waking(u)) \in Nat /\ IsFiniteSet(Waking(u))
        /\ work_ready[u] \in Nat /\ rnd[u] \in Nat /\ cap \in Nat
        /\ Awake(u) \in Nat
    BY <1>a, <1>b, WakingFinite DEF Ghosts, Awake
  <2>3. CASE u = t
    <3>1. Waking(u)' = Waking(u)
      BY <1>a, <1>c, <2>3 DEF Waking, Goto
    <3>2. Awake(u)' = 1 /\ Awake(u) = 0
      BY <1>a, <1>c, <2>3 DEF Awake, Doing, Encoding, Dropping, Goto
    <3> QED BY <1>c, <2>1, <2>2, <3>1, <3>2
  <2>4. CASE u # t
    <3>1. Waking(u)' = Waking(u) \cup {t} /\ t \notin Waking(u)
      BY <1>a, <1>c, <2>4 DEF Waking, Goto, Thread
    <3>2. Cardinality(Waking(u)') = Cardinality(Waking(u)) + 1
      BY <2>2, <3>1, FS_AddElement
    <3>3. Awake(u)' = Awake(u)
      BY <1>a, <1>c, <2>4 DEF Awake, Goto
    <3> QED BY <1>c, <2>1, <2>2, <3>2, <3>3
  <2> QED BY <2>3, <2>4
<1>9. Permits(cap + 1, rnd, held \cup {cap})'
  <2>1. /\ held \subseteq 0 .. cap - 1 /\ cap \in Nat
        /\ Cardinality(held) + quality_can_update + taken <= WORK_COUNT
    BY <1>b, <1>d DEF RoundsInv, Permits, Ghosts
  <2>2. IsFiniteSet(held) /\ Cardinality(held) \in Nat
    BY <2>1, HeldFinite
  <2>n. cap \notin held
    BY <2>1
  <2>3. Cardinality(held \cup {cap}) = Cardinality(held) + 1
    BY <2>2, <2>n, FS_AddElement
  <2>4. Cardinality(held \cup {cap}) + quality_can_update' + taken' <= WORK_COUNT
    BY <1>a, <1>c, <2>1, <2>2, <2>3, ConstantsAssumption
  <2>5. upc' = "write" => taken' = WORK_COUNT
    BY <1>c DEF RoundsInv, Permits
  <2>6. held \cup {cap} \subseteq 0 .. cap + 1 - 1
    BY <2>1
  <2>7. \A u \in Thread, n \in 0 .. cap + 1 - 1 :
          rnd[u] <= n /\ ~(rnd[u] = n /\ pc'[u] = "drop_done")
            => n \in held \cup {cap}
    BY <1>a, <1>b, <1>c, <1>d, <2>1 DEF RoundsInv, Permits, Goto, Ghosts
  <2> QED BY <2>4, <2>5, <2>6, <2>7 DEF Permits
<1> QED BY <1>0, <1>d, <1>1, <1>2, <1>3, <1>4, <1>5, <1>6, <1>7, <1>8,
           <1>9 DEF RoundsInv, Ghosts

(* The leader wakes the next thread, or is through with waking.             *)
LEMMA WorkReadyRelease ==
  ASSUME TypeOK, NEW t \in Thread, Work_ready_release(t),
         NEW cap, NEW prep, NEW rel, NEW rnd, NEW tok, NEW lead, NEW held,
         RoundsInv(cap, prep, rel, rnd, tok, lead, held)
  PROVE  RoundsInv(cap, prep, rel, rnd, tok, lead, held)'
<1> DEFINE b == IF cursor[t] = LastThread THEN "start" ELSE "work_ready"
<1>a. /\ pc \in [Thread -> Control]
      /\ thread_ready \in [Thread -> Nat] /\ work_ready \in [Thread -> Nat]
      /\ cursor \in [Thread -> Thread]
  BY ConstantsAssumption DEF TypeOK
<1>b. Ghosts(cap, prep, rel, rnd, tok, lead)
  BY DEF RoundsInv
<1>c. /\ pc[t] = "work_ready" /\ Goto(t, b)
      /\ work_ready' = [work_ready EXCEPT ![cursor[t]] =
           IF cursor[t] = t THEN @ ELSE Released(@, 1, WORK_COUNT)]
      /\ cursor' = [cursor EXCEPT ![t] = Next_wrapped(@, CORE_COUNT)]
      /\ UNCHANGED <<screen_ready, work_done, thread_ready, work_ready_flag,
                     work_done_count, work_done_flag, should_capture,
                     work_index, thread_index, skip_frames, wi, spc, sw,
                     srel, quality_can_update, taken, upc>>
  BY DEF Work_ready_release, works, params, screen, quality
<1>1. Phase(cap, prep, rel, tok, lead)'
  BY <1>c DEF RoundsInv, Phase, Capturing
<1>2. Rounds(cap, prep, rel, rnd, tok, lead)'
  BY <1>a, <1>b, <1>c
     DEF RoundsInv, Ghosts, Rounds, Preparing, Leading, Doing, Dropped,
         Encoding, Dropping, Goto
<1>3. Claimed(cap, prep, rnd, lead)'
  BY <1>a, <1>c, ClaimedMove DEF RoundsInv
<1>4. Works(cap, prep, rel, rnd, tok, lead)'
  BY <1>c DEF RoundsInv, Works, Freed, Capturing
<1>5. Skips(cap, prep, tok, lead)'
  BY <1>a, <1>c, SkipsMove DEF RoundsInv
<1>6. Counts(cap, rel, rnd)'
  BY <1>a, <1>c, CountsMove DEF RoundsInv, Dropped
<1>7. Readied(rel, rnd, tok, lead)'
  BY <1>a, <1>b, <1>c, ReadiedMove DEF RoundsInv, Ghosts
<1>8. Woken(prep, rnd)'
  <2> SUFFICES ASSUME NEW u \in Thread
               PROVE  (work_ready[u] + Cardinality(Waking(u)) + Awake(u)
                         + rnd[u] <= prep)'
    BY DEF Woken
  <2>1. work_ready[u] + Cardinality(Waking(u)) + Awake(u) + rnd[u] <= prep
    BY DEF RoundsInv, Woken
  <2>2. /\ Cardinality(Waking(u)) \in Nat /\ IsFiniteSet(Waking(u))
        /\ work_ready[u] \in Nat /\ rnd[u] \in Nat /\ prep \in Nat
        /\ Awake(u) \in Nat
    BY <1>a, <1>b, WakingFinite DEF Ghosts, Awake
  <2>3. Awake(u)' = Awake(u)
    BY <1>a, <1>c DEF Awake, Doing, Goto
  <2>4. cursor[t] \in 0 .. CORE_COUNT - 1 /\ CORE_COUNT \in Nat /\ u \in 0 .. CORE_COUNT - 1
    BY <1>a, ConstantsAssumption DEF Thread
  <2>5. CASE u = t \/ u # cursor[t]
    <3>1. work_ready'[u] = work_ready[u]
      BY <1>a, <1>c, <2>5
    <3>2. Waking(u)' = Waking(u)
      <4>1. CASE u = t
        BY <1>a, <1>c, <4>1 DEF Waking, Goto
      <4>2. CASE u # t
        <5>1. (pc'[t] = "work_ready" /\ cursor'[t] <= u) <=> cursor[t] <= u
          BY <1>a, <1>c, <2>4, <2>5, <4>2 DEF Goto, LastThread, Next_wrapped
        <5> QED BY <1>a, <1>c, <5>1 DEF Waking, Goto
      <4> QED BY <4>1, <4>2
    <3> QED BY <2>1, <2>2, <2>3, <3>1, <3>2
  <2>6. CASE u # t /\ u = cursor[t]
    <3>1. work_ready'[u] \in {work_ready[u], work_ready[u] + 1}
      BY <1>a, <1>c, <2>6 DEF Released
    <3>2. Waking(u)' = Waking(u) \ {t} /\ t \in Waking(u)
      <4>1. ~(pc'[t] = "work_ready" /\ cursor'[t] <= u)
        BY <1>a, <1>c, <2>4, <2>6 DEF Goto, LastThread, Next_wrapped
      <4> QED BY <1>a, <1>c, <2>4, <2>6, <4>1 DEF Waking, Goto
    <3>3. Cardinality(Waking(u)') = Cardinality(Waking(u)) - 1
      BY <2>2, <3>2, FS_RemoveElement
    <3> QED BY <2>1, <2>2, <2>3, <3>1, <3>3
  <2> QED BY <2>5, <2>6
<1>9. Permits(prep, rnd, held)'
  BY <1>a, <1>c, PermitsMove DEF RoundsInv
<1> QED BY <1>b, <1>1, <1>2, <1>3, <1>4, <1>5, <1>6, <1>7, <1>8,
           <1>9 DEF RoundsInv, Ghosts

(* A thread that has been woken finds its round prepared.                   *)
LEMMA OtherAcquire ==
  ASSUME TypeOK, NEW t \in Thread, Other_acquire(t),
         NEW cap, NEW prep, NEW rel, NEW rnd, NEW tok, NEW lead, NEW held,
         RoundsInv(cap, prep, rel, rnd, tok, lead, held)
  PROVE  RoundsInv(cap, prep, rel, rnd, tok, lead, held)'
<1>a. /\ pc \in [Thread -> Control]
      /\ thread_ready \in [Thread -> Nat] /\ work_ready \in [Thread -> Nat]
  BY ConstantsAssumption DEF TypeOK
<1>b. Ghosts(cap, prep, rel, rnd, tok, lead)
  BY DEF RoundsInv
<1>c. /\ pc[t] = "other" /\ Goto(t, "start")
      /\ work_ready[t] > 0
      /\ work_ready' = [work_ready EXCEPT ![t] = @ - 1]
      /\ UNCHANGED <<screen_ready, work_done, thread_ready, work_ready_flag,
                     work_done_count, work_done_flag, should_capture,
                     work_index, thread_index, skip_frames, wi, cursor,
                     spc, sw, srel, quality_can_update, taken, upc>>
  BY DEF Other_acquire, works, params, screen, quality
<1>d. rnd[t] < prep
  <2>1. work_ready[t] + Cardinality(Waking(t)) + Awake(t) + rnd[t] <= prep
    BY DEF RoundsInv, Woken
  <2>2. /\ Cardinality(Waking(t)) \in Nat /\ Awake(t) \in Nat
        /\ work_ready[t] \in Nat /\ rnd[t] \in Nat /\ prep \in Nat
    BY <1>a, <1>b, WakingFinite DEF Ghosts, Awake
  <2> QED BY <1>c, <2>1, <2>2
<1>1. Phase(cap, prep, rel, tok, lead)'
  BY <1>c DEF RoundsInv, Phase, Capturing
<1>2. Rounds(cap, prep, rel, rnd, tok, lead)'
  BY <1>a, <1>b, <1>c, <1>d
     DEF RoundsInv, Ghosts, Rounds, Preparing, Leading, Doing, Dropped,
         Encoding, Dropping, Goto
<1>3. Claimed(cap, prep, rnd, lead)'
  BY <1>a, <1>c, ClaimedMove DEF RoundsInv
<1>4. Works(cap, prep, rel, rnd, tok, lead)'
  BY <1>c DEF RoundsInv, Works, Freed, Capturing
<1>5. Skips(cap, prep, tok, lead)'
  BY <1>a, <1>c, SkipsMove DEF RoundsInv
<1>6. Counts(cap, rel, rnd)'
  BY <1>a, <1>c, CountsMove DEF RoundsInv, Dropped
<1>7. Readied(rel, rnd, tok, lead)'
  BY <1>a, <1>b, <1>c, ReadiedMove DEF RoundsInv, Ghosts
<1>8. Woken(prep, rnd)'
  <2> SUFFICES ASSUME NEW u \in Thread
               PROVE  (work_ready[u] + Cardinality(Waking(u)) + Awake(u)
                         + rnd[u] <= prep)'
    BY DEF Woken
  <2>1. work_ready[u] + Cardinality(Waking(u)) + Awake(u) + rnd[u] <= prep
    BY DEF RoundsInv, Woken
  <2>2. /\ Cardinality(Waking(u)) \in Nat
        /\ work_ready[u] \in Nat /\ rnd[u] \in Nat /\ prep \in Nat
    BY <1>a, <1>b, WakingFinite DEF Ghosts
  <2>3. Waking(u)' = Waking(u)
    BY <1>a, <1>c DEF Waking, Goto
  <2>4. CASE u = t
    <3>1. Awake(u)' = 1 /\ Awake(u) = 0 /\ work_ready'[u] = work_ready[u] - 1
      BY <1>a, <1>c, <2>4 DEF Awake, Doing, Encoding, Dropping, Goto
    <3> QED BY <2>1, <2>2, <2>3, <3>1
  <2>5. CASE u # t
    <3>1. Awake(u)' = Awake(u) /\ work_ready'[u] = work_ready[u]
      BY <1>a, <1>c, <2>5 DEF Awake, Goto
    <3> QED BY <2>1, <2>2, <2>3, <3>1
  <2> QED BY <2>4, <2>5
<1>9. Permits(prep, rnd, held)'
  BY <1>a, <1>c, PermitsMove DEF RoundsInv
<1> QED BY <1>b, <1>1, <1>2, <1>3, <1>4, <1>5, <1>6, <1>7, <1>8,
           <1>9 DEF RoundsInv, Ghosts

(* The first thread half way through a round gets to advance work_index.   *)
LEMMA PreProgress ==
  ASSUME TypeOK, NEW t \in Thread, Pre_progress(t),
         NEW cap, NEW prep, NEW rel, NEW rnd, NEW tok, NEW lead, NEW held,
         RoundsInv(cap, prep, rel, rnd, tok, lead, held)
  PROVE  RoundsInv(cap, prep, rel, rnd, tok, lead, held)'
<1> DEFINE b == IF ~should_capture[wi[t]] THEN "index_next" ELSE "term"
<1>a. /\ pc \in [Thread -> Control]
      /\ thread_ready \in [Thread -> Nat] /\ work_ready \in [Thread -> Nat]
      /\ wi \in [Thread -> Work]
      /\ should_capture \in [Work -> BOOLEAN]
  BY ConstantsAssumption DEF TypeOK
<1>b. Ghosts(cap, prep, rel, rnd, tok, lead)
  BY DEF RoundsInv
<1>c. /\ pc[t] = "pre_progress" /\ Goto(t, b)
      /\ should_capture' = [should_capture EXCEPT ![wi[t]] = TRUE]
      /\ UNCHANGED <<screen_ready, work_done, thread_ready, work_ready,
                     work_ready_flag, work_done_count, work_done_flag,
                     work_index, thread_index, skip_frames, wi, cursor,
                     spc, sw, srel, quality_can_update, taken, upc>>
  BY DEF Pre_progress, First_to_progress, sems, params, screen, quality
<1>d. ASSUME ~should_capture[wi[t]]
      PROVE  /\ rnd[t] = cap /\ tok = "enc"
             /\ \A u \in Thread : pc[u] \notin {"index_next", "screen_ready"}
  <2>1. rnd[t] \in Nat /\ wi[t] = Slot(rnd[t]) /\ rnd[t] < prep
    BY <1>b, <1>c DEF RoundsInv, Rounds, Ghosts, Doing, Encoding
  <2>2. cap \in Nat /\ prep \in {cap, cap + 1}
    BY <1>b DEF RoundsInv, Phase, Ghosts
  <2>3. ~(rnd[t] < cap)
    <3> SUFFICES ASSUME rnd[t] < cap PROVE FALSE
      OBVIOUS
    <3>1. rnd[t] \in 0 .. cap /\ rnd[t] <= rnd[t]
      BY <2>1, <2>2
    <3> QED BY <1>d, <2>1, <3>1 DEF RoundsInv, Works
  <2>4. rnd[t] = cap /\ prep = cap + 1
    BY <2>1, <2>2, <2>3
  <2>5. tok = "enc"
    BY <2>4 DEF RoundsInv, Phase
  <2> QED BY <1>d, <2>1, <2>4, <2>5 DEF RoundsInv, Rounds
<1>1. Phase(cap, prep, rel, tok, lead)'
  BY <1>c DEF RoundsInv, Phase, Capturing
<1>2. Rounds(cap, prep, rel, rnd, tok, lead)'
  BY <1>a, <1>b, <1>c, <1>d
     DEF RoundsInv, Ghosts, Rounds, Preparing, Leading, Doing, Dropped,
         Encoding, Dropping, Goto
<1>3. Claimed(cap, prep, rnd, lead)'
  BY <1>a, <1>c, ClaimedMove DEF RoundsInv
<1>4. Works(cap, prep, rel, rnd, tok, lead)'
  BY <1>a, <1>b, <1>c, SlotType DEF RoundsInv, Works, Freed, Capturing, Ghosts
<1>5. Skips(cap, prep, tok, lead)'
  BY <1>a, <1>c, SkipsMove DEF RoundsInv
<1>6. Counts(cap, rel, rnd)'
  BY <1>a, <1>c, CountsMove DEF RoundsInv, Dropped
<1>7. Readied(rel, rnd, tok, lead)'
  BY <1>a, <1>b, <1>c, ReadiedMove DEF RoundsInv, Ghosts
<1>8. Woken(prep, rnd)'
  BY <1>a, <1>b, <1>c, WokenMove
     DEF RoundsInv, Ghosts, Doing, Encoding, Dropping
<1>9. Permits(prep, rnd, held)'
  BY <1>a, <1>c, PermitsMove DEF RoundsInv
<1> QED BY <1>b, <1>1, <1>2, <1>3, <1>4, <1>5, <1>6, <1>7, <1>8,
           <1>9 DEF RoundsInv, Ghosts

(* That thread advances work_index: the next round begins.                  *)
LEMMA WorkIndexNext ==
  ASSUME TypeOK, NEW t \in Thread, Work_index_next_wrapped(t),
         NEW cap, NEW prep, NEW rel, NEW rnd, NEW tok, NEW lead, NEW held,
         RoundsInv(cap, prep, rel, rnd, tok, lead, held)
  PROVE  RoundsInv(cap + 1, prep, rel, rnd, "post", lead, held)'
<1>a. /\ pc \in [Thread -> Control]
      /\ thread_ready \in [Thread -> Nat] /\ work_ready \in [Thread -> Nat]
  BY ConstantsAssumption DEF TypeOK
<1>b. Ghosts(cap, prep, rel, rnd, tok, lead)
  BY DEF RoundsInv
<1>c. /\ pc[t] = "index_next" /\ Goto(t, "screen_ready")
      /\ work_index' = Next_wrapped(work_index, WORK_COUNT)
      /\ UNCHANGED <<screen_ready, work_done, thread_ready, work_ready,
                     work_ready_flag, work_done_count, work_done_flag,
                     should_capture, thread_index, skip_frames, wi, cursor,
                     spc, sw, srel, quality_can_update, taken, upc>>
  BY DEF Work_index_next_wrapped, sems, works, screen, quality
<1>d. /\ rnd[t] = cap /\ tok = "enc" /\ should_capture[Slot(cap)]
      /\ prep = cap + 1 /\ rel = cap + 1 /\ lead = NoThread
      /\ screen_ready # 1 /\ spc \notin Capturing /\ cap \in Nat
      /\ \A u \in Thread : pc[u] \notin Preparing
      /\ \A u \in Thread :
           u # t => pc[u] \notin {"index_next", "screen_ready"}
  BY <1>b, <1>c, ThreadFinite DEF RoundsInv, Phase, Rounds, Ghosts
<1>0. Ghosts(cap + 1, prep, rel, rnd, "post", lead)
  BY <1>b DEF Ghosts, Token
<1>1. Phase(cap + 1, prep, rel, "post", lead)'
  <2>1. work_index' = Slot(cap + 1)
    BY <1>c, <1>d, SlotNext DEF RoundsInv, Phase
  <2>2. cap + 1 >= WORK_COUNT
    BY <1>d, ConstantsAssumption DEF RoundsInv, Phase
  <2> QED BY <1>b, <1>c, <1>d, <2>1, <2>2 DEF Phase, Ghosts
<1>2. Rounds(cap + 1, prep, rel, rnd, "post", lead)'
  BY <1>a, <1>b, <1>c, <1>d
     DEF RoundsInv, Ghosts, Rounds, Preparing, Leading, Doing, Dropped,
         Encoding, Dropping, Goto
<1>3. Claimed(cap + 1, prep, rnd, lead)'
  <2>1. Claimed(cap, prep, rnd, lead)'
    BY <1>a, <1>c, ClaimedMove DEF RoundsInv
  <2> QED BY <1>d, <2>1 DEF Claimed
<1>4. Works(cap + 1, prep, rel, rnd, "post", lead)'
  <2>1. \A w \in Work : ~work_done_flag[w]
    BY <1>d DEF RoundsInv, Works
  <2>2. \A u \in Thread, n \in 0 .. cap + 1 :
          rnd[u] <= n /\ n < cap + 1 => should_capture[Slot(n)]
    BY <1>b, <1>d DEF RoundsInv, Works, Ghosts
  <2>3. \A u \in Thread, n \in 0 .. cap + 1 :
          rnd[u] <= n /\ n < rel => work_done[Slot(n)] = 0
    BY <1>b, <1>d DEF RoundsInv, Works, Ghosts
  <2> QED BY <1>c, <1>d, <2>1, <2>2, <2>3 DEF Works, Capturing
<1>5. Skips(cap + 1, prep, "post", lead)'
  <2>1. \A w \in Work : ~skip_frames[w]
    BY <1>d DEF RoundsInv, Skips
  <2>2. \A u \in Thread : pc'[u] \notin Preparing
    BY <1>a, <1>c, <1>d DEF Goto, Preparing, Leading
  <2> QED BY <1>c, <1>d, <2>1, <2>2 DEF Skips, Preparing, Leading
<1>6. Counts(cap + 1, rel, rnd)'
  <2>1. Counts(cap, rel, rnd)'
    BY <1>a, <1>c, CountsMove DEF RoundsInv, Dropped
  <2> QED BY <1>d, <2>1 DEF Counts
<1>7. Readied(rel, rnd, "post", lead)'
  <2>1. Readied(rel, rnd, tok, lead)'
    BY <1>a, <1>b, <1>c, ReadiedMove DEF RoundsInv, Ghosts
  <2> QED BY <1>d, <2>1, ThreadFinite DEF Readied, Again
<1>8. Woken(prep, rnd)'
  BY <1>a, <1>b, <1>c, WokenMove
     DEF RoundsInv, Ghosts, Doing, Encoding, Dropping
<1>9. Permits(prep, rnd, held)'
  BY <1>a, <1>c, PermitsMove DEF RoundsInv
<1> QED BY <1>0, <1>1, <1>2, <1>3, <1>4, <1>5, <1>6, <1>7, <1>8,
           <1>9 DEF RoundsInv, Ghosts

(* It lets the screen thread capture for the new round.                    *)
LEMMA ScreenReadyRelease ==
  ASSUME TypeOK, NEW t \in Thread, Screen_ready_release(t),
         NEW cap, NEW prep, NEW rel, NEW rnd, NEW tok, NEW lead, NEW held,
         RoundsInv(cap, prep, rel, rnd, tok, lead, held)
  PROVE  RoundsInv(cap, prep, rel, rnd, "sem", lead, held)'
<1>a. /\ pc \in [Thread -> Control]
      /\ thread_ready \in [Thread -> Nat] /\ work_ready \in [Thread -> Nat]
  BY ConstantsAssumption DEF TypeOK
<1>b. Ghosts(cap, prep, rel, rnd, tok, lead)
  BY DEF RoundsInv
<1>c. /\ pc[t] = "screen_ready" /\ Goto(t, "term")
      /\ screen_ready' = Released(screen_ready, 1, 1)
      /\ UNCHANGED <<work_done, thread_ready, work_ready, work_ready_flag,
                     work_done_count, work_done_flag, should_capture,
                     work_index, thread_index, skip_frames, wi, cursor,
                     spc, sw, srel, quality_can_update, taken, upc>>
  BY DEF Screen_ready_release, works, params, screen, quality
<1>d. /\ tok = "post" /\ prep = cap /\ rel = cap /\ lead = NoThread
      /\ spc \notin Capturing /\ cap \in Nat
      /\ \A u \in Thread : pc[u] \notin Preparing
      /\ \A u \in Thread :
           u # t => pc[u] \notin {"index_next", "screen_ready"}
  BY <1>b, <1>c, ThreadFinite DEF RoundsInv, Phase, Rounds, Ghosts
<1>0. Ghosts(cap, prep, rel, rnd, "sem", lead)
  BY <1>b DEF Ghosts, Token
<1>1. Phase(cap, prep, rel, "sem", lead)'
  BY <1>b, <1>c, <1>d DEF RoundsInv, Phase, Ghosts
<1>2. Rounds(cap, prep, rel, rnd, "sem", lead)'
  BY <1>a, <1>b, <1>c, <1>d
     DEF RoundsInv, Ghosts, Rounds, Preparing, Leading, Doing, Dropped,
         Encoding, Dropping, Goto
<1>3. Claimed(cap, prep, rnd, lead)'
  BY <1>a, <1>c, ClaimedMove DEF RoundsInv
<1>4. Works(cap, prep, rel, rnd, "sem", lead)'
  BY <1>c DEF RoundsInv, Works, Freed, Capturing
<1>5. Skips(cap, prep, "sem", lead)'
  <2>1. Skips(cap, prep, tok, lead)'
    BY <1>a, <1>c, SkipsMove DEF RoundsInv
  <2> QED BY <1>d, <2>1 DEF Skips
<1>6. Counts(cap, rel, rnd)'
  BY <1>a, <1>c, CountsMove DEF RoundsInv, Dropped
<1>7. Readied(rel, rnd, "sem", lead)'
  <2>1. Readied(rel, rnd, tok, lead)'
    BY <1>a, <1>b, <1>c, ReadiedMove DEF RoundsInv, Ghosts
  <2> QED BY <1>d, <2>1, ThreadFinite DEF Readied, Again
<1>8. Woken(prep, rnd)'
  BY <1>a, <1>b, <1>c, WokenMove
     DEF RoundsInv, Ghosts, Doing, Encoding, Dropping
<1>9. Permits(prep, rnd, held)'
  BY <1>a, <1>c, PermitsMove DEF RoundsInv
<1> QED BY <1>0, <1>1, <1>2, <1>3, <1>4, <1>5, <1>6, <1>7, <1>8,
           <1>9 DEF RoundsInv, Ghosts

(* Two rounds in flight use different works.                               *)
LEMMA SlotApart ==
  ASSUME NEW rel \in Nat, NEW a \in Nat, NEW b \in Nat,
         a < rel, b < rel, rel <= a + WORK_COUNT, rel <= b + WORK_COUNT,
         Slot(a) = Slot(b)
  PROVE  a = b
<1>1. WORK_COUNT \in Nat
  BY ConstantsAssumption
<1>2. CASE a <= b
  BY <1>1, <1>2, SlotInjective
<1>3. CASE b <= a
  BY <1>1, <1>3, SlotInjective
<1> QED BY <1>2, <1>3

(* The round of a thread that is encoding is prepared and in flight.       *)
LEMMA Current ==
  ASSUME NEW t \in Thread, pc[t] \in Doing,
         NEW cap, NEW prep, NEW rel, NEW rnd, NEW tok, NEW lead, NEW held,
         RoundsInv(cap, prep, rel, rnd, tok, lead, held)
  PROVE  /\ rnd[t] \in Nat /\ rnd[t] \in 0 .. cap
         /\ rnd[t] < prep /\ rnd[t] < rel /\ rel <= rnd[t] + WORK_COUNT
         /\ wi[t] = Slot(rnd[t]) /\ wi[t] \in Work /\ t # lead
         /\ \A u \in Thread :
              pc[u] \in Dropped /\ rnd[u] = rnd[t] => u = t
<1>1. Ghosts(cap, prep, rel, rnd, tok, lead)
  BY DEF RoundsInv
<1>2. rnd[t] \in Nat /\ rnd[t] < prep
  BY <1>1 DEF RoundsInv, Rounds, Ghosts
<1>3. /\ prep \in {cap, cap + 1} /\ rel \in {cap, cap + 1}
      /\ prep = cap + 1 => rel = cap + 1
  BY <1>1 DEF RoundsInv, Phase, Ghosts
<1>4. rnd[t] \in 0 .. cap /\ rnd[t] < rel
  BY <1>1, <1>2, <1>3 DEF Ghosts
<1>5. rel <= rnd[t] + WORK_COUNT /\ wi[t] = Slot(rnd[t])
  BY DEF RoundsInv, Rounds
<1>6. wi[t] \in Work
  BY <1>2, <1>5, SlotType
<1>7. t # lead
  BY <1>1, ThreadFinite
     DEF RoundsInv, Rounds, Preparing, Leading, Doing, Encoding, Dropping
<1>8. \A u \in Thread : pc[u] \in Dropped /\ rnd[u] = rnd[t] => u = t
  BY <1>1, <1>2 DEF RoundsInv, Rounds, Ghosts
<1> QED BY <1>2, <1>4, <1>5, <1>6, <1>7, <1>8

(* A thread leaves its round for the next.                                 *)
LEMMA NextWork ==
  ASSUME TypeOK, NEW t \in Thread, Next_work(t),
         pc[t] \in {"count", "drop_done"},
         UNCHANGED <<screen_ready, thread_ready, work_ready, work_ready_flag,
                     work_done_flag, should_capture, work_index,
                     thread_index, skip_frames, cursor, spc, sw, srel,
                     quality_can_update, taken, upc>>,
         NEW cap, NEW prep, NEW rel, NEW rnd, NEW tok, NEW lead, NEW held,
         RoundsInv(cap, prep, rel, rnd, tok, lead, held),
         NEW next, next = [rnd EXCEPT ![t] = @ + 1]
  PROVE  /\ Ghosts(cap, prep, rel, next, tok, lead)
         /\ Phase(cap, prep, rel, tok, lead)'
         /\ Rounds(cap, prep, rel, next, tok, lead)'
         /\ Claimed(cap, prep, next, lead)'
         /\ Skips(cap, prep, tok, lead)'
         /\ Readied(rel, next, tok, lead)'
         /\ Woken(prep, next)'
         /\ Permits(prep, next, held)'
<1>a. /\ pc \in [Thread -> Control] /\ wi \in [Thread -> Work]
      /\ thread_ready \in [Thread -> Nat] /\ work_ready \in [Thread -> Nat]
  BY ConstantsAssumption DEF TypeOK
<1>b. Ghosts(cap, prep, rel, rnd, tok, lead)
  BY DEF RoundsInv
<1>c. /\ Goto(t, "thread_ready")
      /\ wi' = [wi EXCEPT ![t] = Next_wrapped(@, WORK_COUNT)]
  BY DEF Next_work
<1>d. /\ rnd[t] \in Nat /\ rnd[t] < prep /\ rnd[t] < rel
      /\ rel <= rnd[t] + WORK_COUNT /\ wi[t] = Slot(rnd[t]) /\ t # lead
  BY Current DEF Doing, Dropping
<1>e. /\ next \in [Thread -> Nat] /\ next[t] = rnd[t] + 1
      /\ \A u \in Thread : u # t => next[u] = rnd[u]
      /\ \A u \in Thread : rnd[u] <= next[u]
  BY <1>b, <1>d DEF Ghosts
<1>0. Ghosts(cap, prep, rel, next, tok, lead)
  BY <1>b, <1>e DEF Ghosts
<1>1. Phase(cap, prep, rel, tok, lead)'
  BY DEF RoundsInv, Phase, Capturing
<1>2. Rounds(cap, prep, rel, next, tok, lead)'
  <2>1. wi'[t] = Slot(next[t]) /\ pc'[t] = "thread_ready"
    BY <1>a, <1>c, <1>d, <1>e, SlotNext DEF Goto
  <2>2. ASSUME NEW u \in Thread, u # t
        PROVE  pc'[u] = pc[u] /\ wi'[u] = wi[u] /\ next[u] = rnd[u]
    BY <1>a, <1>c, <1>e, <2>2 DEF Goto
  <2>3. rel <= next[t] + WORK_COUNT /\ next[t] <= prep
    BY <1>b, <1>d, <1>e, ConstantsAssumption DEF Ghosts
  <2>4. ASSUME NEW u \in Thread
        PROVE  /\ wi'[u] = Slot(next[u])
               /\ rel <= next[u] + WORK_COUNT /\ next[u] <= prep
               /\ next[u] = rel => pc'[u] \in {"thread_ready", "exited"}
               /\ pc'[u] \in Doing => next[u] < prep
               /\ pc'[u] \in Preparing => u = lead
               /\ pc'[u] \in Preparing \ {"skip_wait"} => tok = "lead"
               /\ pc'[u] = "index_next" =>
                    next[u] = cap /\ tok = "enc" /\ should_capture'[wi'[u]]
               /\ pc'[u] = "screen_ready" => tok = "post"
    <3>1. CASE u = t
      BY <2>1, <2>3, <3>1
         DEF Preparing, Leading, Doing, Encoding, Dropping
    <3>2. CASE u # t
      BY <2>2, <3>2 DEF RoundsInv, Rounds
    <3> QED BY <3>1, <3>2
  <2>5. ASSUME NEW u \in Thread, pc'[u] \in Dropped, NEW v \in Thread, v # u
        PROVE  next[v] > next[u]
    <3>1. u # t
      BY <2>1, <2>5 DEF Dropped
    <3>2. rnd[v] > rnd[u]
      BY <2>2, <2>5, <3>1 DEF RoundsInv, Rounds
    <3> QED BY <1>b, <1>e, <2>2, <3>1, <3>2 DEF Ghosts
  <2>6. ASSUME NEW u \in Thread, NEW v \in Thread,
               pc'[u] \in {"index_next", "screen_ready"},
               pc'[v] \in {"index_next", "screen_ready"}
        PROVE  u = v
    BY <2>1, <2>2, <2>6 DEF RoundsInv, Rounds
  <2>7. lead # NoThread =>
          next[lead] = cap /\ pc'[lead] \in Preparing \cup {"exited"}
    BY <1>b, <1>d, <2>2 DEF RoundsInv, Rounds, Ghosts
  <2> QED BY <2>4, <2>5, <2>6, <2>7 DEF Rounds
<1>3. Claimed(cap, prep, next, lead)'
  <2>1. CASE CORE_COUNT > 1
    <3> SUFFICES ASSUME NEW u \in Thread, NEW n \in 0 .. cap, next[u] <= n,
                        n < prep \/ (n = cap /\ lead # NoThread),
                        ~(next[u] = n /\ pc'[u] \in {"drop_quality", "drop_done"})
                 PROVE  work_ready_flag'[Slot(n)]
      BY <2>1 DEF Claimed
    <3>1. rnd[u] <= n /\ ~(rnd[u] = n /\ pc[u] \in {"drop_quality", "drop_done"})
      BY <1>a, <1>b, <1>c, <1>d, <1>e DEF Goto, Ghosts
    <3> QED BY <2>1, <3>1 DEF RoundsInv, Claimed
  <2>2. CASE CORE_COUNT = 1
    <3>1. \A u \in Thread : u = t
      BY <2>2 DEF Thread
    <3>2. rnd[t] + 1 >= prep
      BY <2>2 DEF RoundsInv, Claimed
    <3>3. next[t] = prep
      BY <1>b, <1>d, <1>e, <3>2 DEF Ghosts
    <3> QED BY <1>b, <2>2, <3>1, <3>3 DEF Claimed, Ghosts
  <2> QED BY <2>1, <2>2, ConstantsAssumption
<1>4. Skips(cap, prep, tok, lead)'
  BY <1>a, <1>c, SkipsMove DEF RoundsInv
<1>5. Readied(rel, next, tok, lead)'
  <2> SUFFICES ASSUME NEW u \in Thread
               PROVE  (thread_ready[u] + Owed(u) + Took(u, lead) + next[u]
                         <= rel + Again(u, tok, lead))'
    BY DEF Readied
  <2>1. thread_ready[u] + Owed(u) + Took(u, lead) + rnd[u]
          <= rel + Again(u, tok, lead)
    BY DEF RoundsInv, Readied
  <2>2. Owed(u)' = Owed(u) /\ Again(u, tok, lead)' = Again(u, tok, lead)
    BY <1>a, <1>c, <1>d DEF Owed, Again, Goto
  <2>3. Took(u, lead)' + next[u] = Took(u, lead) + rnd[u]
    <3>1. CASE u = t
      <4>1. Took(u, lead)' = 0 /\ Took(u, lead) = 1
        BY <1>a, <1>c, <1>d, <3>1 DEF Took, Goto
      <4> QED BY <1>d, <1>e, <3>1, <4>1
    <3>2. CASE u # t
      BY <1>a, <1>c, <1>e, <3>2 DEF Took, Goto
    <3> QED BY <3>1, <3>2
  <2>4. /\ thread_ready[u] \in Nat /\ Owed(u) \in Nat /\ rnd[u] \in Nat
        /\ Took(u, lead) \in Nat /\ Took(u, lead)' \in Nat
        /\ next[u] \in Nat /\ rel \in Nat /\ Again(u, tok, lead) \in Nat
    BY <1>a, <1>b, <1>e DEF Ghosts, Owed, Took, Again
  <2> QED BY <2>1, <2>2, <2>3, <2>4
<1>6. Woken(prep, next)'
  <2> SUFFICES ASSUME NEW u \in Thread
               PROVE  (work_ready[u] + Cardinality(Waking(u)) + Awake(u)
                         + next[u] <= prep)'
    BY DEF Woken
  <2>1. work_ready[u] + Cardinality(Waking(u)) + Awake(u) + rnd[u] <= prep
    BY DEF RoundsInv, Woken
  <2>2. Waking(u)' = Waking(u)
    BY <1>a, <1>c DEF Waking, Goto
  <2>3. Awake(u)' + next[u] = Awake(u) + rnd[u]
    <3>1. CASE u = t
      <4>1. Awake(u)' = 0 /\ Awake(u) = 1
        BY <1>a, <1>c, <3>1 DEF Awake, Doing, Encoding, Dropping, Goto
      <4> QED BY <1>d, <1>e, <3>1, <4>1
    <3>2. CASE u # t
      BY <1>a, <1>c, <1>e, <3>2 DEF Awake, Goto
    <3> QED BY <3>1, <3>2
  <2>4. /\ work_ready[u] \in Nat /\ Cardinality(Waking(u)) \in Nat
        /\ Awake(u) \in Nat /\ Awake(u)' \in Nat /\ rnd[u] \in Nat
        /\ next[u] \in Nat /\ prep \in Nat
    BY <1>a, <1>b, <1>e, WakingFinite DEF Ghosts, Awake
  <2> QED BY <2>1, <2>2, <2>3, <2>4
<1>7. Permits(prep, next, held)'
  <2>1. ASSUME NEW u \in Thread, NEW n \in 0 .. prep - 1, next[u] <= n,
               ~(next[u] = n /\ pc'[u] = "drop_done")
        PROVE  n \in held
    <3>1. rnd[u] <= n /\ ~(rnd[u] = n /\ pc[u] = "drop_done")
      BY <1>a, <1>b, <1>c, <1>d, <1>e, <2>1 DEF Goto, Ghosts
    <3> QED BY <3>1 DEF RoundsInv, Permits
  <2> QED BY <2>1 DEF RoundsInv, Permits
<1> QED BY <1>0, <1>1, <1>2, <1>3, <1>4, <1>5, <1>6, <1>7

(* The threads counted out of a round are finitely many.                   *)
LEMMA CountedFinite ==
  \A rnd, n : /\ IsFiniteSet(Counted(rnd, n))
              /\ Cardinality(Counted(rnd, n)) \in Nat
<1> SUFFICES ASSUME NEW rnd, NEW n
             PROVE  /\ IsFiniteSet(Counted(rnd, n))
                    /\ Cardinality(Counted(rnd, n)) \in Nat
  OBVIOUS
<1>1. Counted(rnd, n) \subseteq Thread
  BY DEF Counted
<1> QED BY <1>1, ThreadFinite, FS_Subset, FS_CardinalityType

(* When a thread counts itself out of its round the count is right, and    *)
(* all the others are past the round if it is the last.                    *)
LEMMA CountIsRight ==
  ASSUME NEW t \in Thread, pc[t] = "count",
         NEW cap, NEW prep, NEW rel, NEW rnd, NEW tok, NEW lead, NEW held,
         RoundsInv(cap, prep, rel, rnd, tok, lead, held)
  PROVE  /\ work_done_count[wi[t]] = Cardinality(Counted(rnd, rnd[t]))
         /\ ~Finished(rnd, rnd[t])
         /\ t \notin Counted(rnd, rnd[t])
         /\ Last_done(wi[t]) <=> \A u \in Thread : u # t => rnd[u] > rnd[t]
<1>1. /\ rnd[t] \in Nat /\ rnd[t] \in 0 .. cap /\ rnd[t] < rel
      /\ rel <= rnd[t] + WORK_COUNT /\ wi[t] = Slot(rnd[t])
      /\ \A u \in Thread : pc[u] \in Dropped /\ rnd[u] = rnd[t] => u = t
  BY Current DEF Doing, Dropping
<1>2. ~Finished(rnd, rnd[t])
  BY <1>1 DEF Finished, Dropped
<1>3. t \notin Counted(rnd, rnd[t])
  BY <1>1 DEF Counted, Dropped
<1>4. work_done_count[wi[t]] = Cardinality(Counted(rnd, rnd[t]))
  BY <1>1, <1>2 DEF RoundsInv, Counts
<1>5. \A u \in Thread : u # t =>
        (u \in Counted(rnd, rnd[t]) <=> rnd[u] > rnd[t])
  BY <1>1 DEF Counted
<1>6. /\ IsFiniteSet(Thread \ {t})
      /\ Cardinality(Thread \ {t}) = CORE_COUNT - 1
  BY ThreadFinite, FS_RemoveElement
<1>7. Counted(rnd, rnd[t]) \subseteq Thread \ {t}
  BY <1>3 DEF Counted
<1>8. ASSUME Last_done(wi[t]), NEW u \in Thread, u # t
      PROVE  rnd[u] > rnd[t]
  <2>1. Counted(rnd, rnd[t]) = Thread \ {t}
    BY <1>4, <1>6, <1>7, <1>8, FS_Subset DEF Last_done
  <2> QED BY <1>5, <1>8, <2>1
<1>9. ASSUME \A u \in Thread : u # t => rnd[u] > rnd[t]
      PROVE  Last_done(wi[t])
  <2>1. Counted(rnd, rnd[t]) = Thread \ {t}
    BY <1>5, <1>7, <1>9
  <2> QED BY <1>4, <1>6, <2>1 DEF Last_done
<1> QED BY <1>2, <1>3, <1>4, <1>8, <1>9

(* A thread that is not the last to be done with a round goes on.          *)
LEMMA DropCountOther ==
  ASSUME TypeOK, NEW t \in Thread, Drop_count(t), ~Last_done(wi[t]),
         NEW cap, NEW prep, NEW rel, NEW rnd, NEW tok, NEW lead, NEW held,
         RoundsInv(cap, prep, rel, rnd, tok, lead, held)
  PROVE  RoundsInv(cap, prep, rel, [rnd EXCEPT ![t] = @ + 1], tok, lead,
                   held)'
<1> DEFINE next == [rnd EXCEPT ![t] = @ + 1]
<1>a. /\ pc \in [Thread -> Control] /\ work_done_count \in [Work -> Nat]
      /\ wi \in [Thread -> Work]
  BY DEF TypeOK
<1>b. Ghosts(cap, prep, rel, rnd, tok, lead)
  BY DEF RoundsInv
<1>c. /\ pc[t] = "count" /\ Next_work(t) /\ Goto(t, "thread_ready")
      /\ work_done_count' = [work_done_count EXCEPT ![wi[t]] = @ + 1]
      /\ UNCHANGED <<screen_ready, work_done, thread_ready, work_ready,
                     work_ready_flag, work_done_flag, should_capture,
                     work_index, thread_index, skip_frames, cursor, spc, sw,
                     srel, quality_can_update, taken, upc>>
  BY DEF Drop_count, Next_work, sems, params, screen, quality
<1>d. /\ rnd[t] \in Nat /\ rnd[t] \in 0 .. cap /\ rnd[t] < rel
      /\ rel <= rnd[t] + WORK_COUNT /\ wi[t] = Slot(rnd[t])
      /\ \A u \in Thread : pc[u] \in Dropped /\ rnd[u] = rnd[t] => u = t
  BY <1>c, Current DEF Doing, Dropping
<1>e. /\ next \in [Thread -> Nat] /\ next[t] = rnd[t] + 1
      /\ \A u \in Thread : u # t => next[u] = rnd[u]
      /\ \A u \in Thread : rnd[u] <= next[u]
  BY <1>b, <1>d DEF Ghosts
<1> HIDE DEF next
<1>1. /\ Ghosts(cap, prep, rel, next, tok, lead)
      /\ Phase(cap, prep, rel, tok, lead)'
      /\ Rounds(cap, prep, rel, next, tok, lead)'
      /\ Claimed(cap, prep, next, lead)'
      /\ Skips(cap, prep, tok, lead)'
      /\ Readied(rel, next, tok, lead)'
      /\ Woken(prep, next)'
      /\ Permits(prep, next, held)'
  BY <1>c, NextWork DEF next
<1>2. Works(cap, prep, rel, next, tok, lead)'
  <2>1. Freed(cap, rnd) => Freed(cap, next)'
    BY <1>b, <1>c, <1>e, ConstantsAssumption DEF Freed, Ghosts
  <2>2. ASSUME NEW u \in Thread, NEW n \in 0 .. cap, next[u] <= n
        PROVE  rnd[u] <= n
    BY <1>b, <1>e, <2>2 DEF Ghosts
  <2> QED BY <1>c, <2>1, <2>2 DEF RoundsInv, Works, Capturing
<1>3. Counts(cap, rel, next)'
  <2> SUFFICES ASSUME NEW n \in 0 .. cap, rel <= n + WORK_COUNT, n < rel
               PROVE  (work_done_count[Slot(n)] =
                         IF Finished(next, n) THEN 0
                         ELSE Cardinality(Counted(next, n)))'
    BY DEF Counts
  <2>0. n \in Nat /\ rel \in Nat /\ Slot(n) \in Work
    BY <1>b, SlotType DEF Ghosts
  <2>1. CASE n = rnd[t]
    <3>1. /\ work_done_count[wi[t]] = Cardinality(Counted(rnd, rnd[t]))
          /\ t \notin Counted(rnd, rnd[t])
          /\ ~(\A u \in Thread : u # t => rnd[u] > rnd[t])
      BY <1>c, CountIsRight
    <3>2. Counted(next, n)' = Counted(rnd, n) \cup {t}
      BY <1>a, <1>c, <1>d, <1>e, <2>1 DEF Counted, Goto, Dropped
    <3>3. Cardinality(Counted(rnd, n) \cup {t}) =
            Cardinality(Counted(rnd, n)) + 1
      BY <2>1, <3>1, CountedFinite, FS_AddElement
    <3>4. ~Finished(next, n)'
      BY <1>a, <1>c, <1>d, <1>e, <2>1, <3>1 DEF Finished, Goto, Dropped
    <3>5. work_done_count'[Slot(n)] = work_done_count[wi[t]] + 1
      BY <1>a, <1>c, <1>d, <2>0, <2>1
    <3> QED BY <2>1, <3>1, <3>2, <3>3, <3>4, <3>5
  <2>2. CASE n # rnd[t]
    <3>1. Slot(n) # wi[t]
      BY <1>d, <2>0, <2>2, SlotApart
    <3>2. Counted(next, n)' = Counted(rnd, n)
      BY <1>a, <1>b, <1>c, <1>d, <1>e, <2>0, <2>2
         DEF Counted, Goto, Dropped, Ghosts
    <3>3. Finished(next, n)' <=> Finished(rnd, n)
      BY <1>a, <1>b, <1>c, <1>d, <1>e, <2>0, <2>2
         DEF Finished, Goto, Dropped, Ghosts
    <3>4. work_done_count'[Slot(n)] = work_done_count[Slot(n)]
      BY <1>a, <1>c, <2>0, <3>1
    <3> QED BY <3>2, <3>3, <3>4 DEF RoundsInv, Counts
  <2> QED BY <2>1, <2>2
<1> QED BY <1>1, <1>2, <1>3 DEF RoundsInv, Ghosts, next

(* The last one stays to free the work.                                    *)
LEMMA DropCountLast ==
  ASSUME TypeOK, NEW t \in Thread, Drop_count(t),
         Last_done(wi[t]),
         NEW cap, NEW prep, NEW rel, NEW rnd, NEW tok, NEW lead, NEW held,
         RoundsInv(cap, prep, rel, rnd, tok, lead, held)
  PROVE  RoundsInv(cap, prep, rel, rnd, tok, lead, held)'
<1>a. /\ pc \in [Thread -> Control]
      /\ thread_ready \in [Thread -> Nat] /\ work_ready \in [Thread -> Nat]
      /\ work_done_count \in [Work -> Nat]
  BY ConstantsAssumption DEF TypeOK
<1>b. Ghosts(cap, prep, rel, rnd, tok, lead)
  BY DEF RoundsInv
<1>c. /\ pc[t] = "count" /\ Goto(t, "drop_count")
      /\ work_done_count' = [work_done_count EXCEPT ![wi[t]] = @ + 1]
      /\ UNCHANGED <<screen_ready, work_done, thread_ready, work_ready,
                     work_ready_flag, work_done_flag, should_capture,
                     work_index, thread_index, skip_frames, wi, cursor,
                     spc, sw, srel, quality_can_update, taken, upc>>
  BY DEF Drop_count, sems, params, screen, quality
<1>d. /\ rnd[t] \in Nat /\ rnd[t] \in 0 .. cap /\ rnd[t] < rel
      /\ rnd[t] < prep /\ rel <= rnd[t] + WORK_COUNT
      /\ wi[t] = Slot(rnd[t]) /\ wi[t] \in Work
  BY <1>c, Current DEF Doing, Dropping
<1>e. \A u \in Thread : u # t => rnd[u] > rnd[t]
  BY <1>c, CountIsRight
<1>1. Phase(cap, prep, rel, tok, lead)'
  BY <1>c DEF RoundsInv, Phase, Capturing
<1>2. Rounds(cap, prep, rel, rnd, tok, lead)'
  BY <1>a, <1>b, <1>c, <1>d, <1>e
     DEF RoundsInv, Ghosts, Rounds, Preparing, Leading, Doing, Dropped,
         Encoding, Dropping, Goto
<1>3. Claimed(cap, prep, rnd, lead)'
  BY <1>a, <1>c, ClaimedMove DEF RoundsInv
<1>4. Works(cap, prep, rel, rnd, tok, lead)'
  BY <1>c DEF RoundsInv, Works, Freed, Capturing
<1>5. Skips(cap, prep, tok, lead)'
  BY <1>a, <1>c, SkipsMove DEF RoundsInv
<1>6. Counts(cap, rel, rnd)'
  <2> SUFFICES ASSUME NEW n \in 0 .. cap, rel <= n + WORK_COUNT, n < rel
               PROVE  (work_done_count[Slot(n)] =
                         IF Finished(rnd, n) THEN 0
                         ELSE Cardinality(Counted(rnd, n)))'
    BY DEF Counts
  <2>0. n \in Nat /\ rel \in Nat /\ Slot(n) \in Work
    BY <1>b, SlotType DEF Ghosts
  <2>1. CASE n = rnd[t]
    <3>1. /\ work_done_count[wi[t]] = Cardinality(Counted(rnd, rnd[t]))
          /\ t \notin Counted(rnd, rnd[t])
      BY <1>c, CountIsRight
    <3>2. Counted(rnd, n)' = Counted(rnd, n) \cup {t}
      BY <1>a, <1>c, <2>1 DEF Counted, Goto, Dropped
    <3>3. Cardinality(Counted(rnd, n) \cup {t}) =
            Cardinality(Counted(rnd, n)) + 1
      BY <2>1, <3>1, CountedFinite, FS_AddElement
    <3>4. ~Finished(rnd, n)'
      BY <1>a, <1>b, <1>c, <1>d, <1>e, <2>1
         DEF Finished, Goto, Dropped, Ghosts
    <3>5. work_done_count'[Slot(n)] = work_done_count[wi[t]] + 1
      BY <1>a, <1>c, <1>d, <2>0, <2>1
    <3> QED BY <2>1, <3>1, <3>2, <3>3, <3>4, <3>5
  <2>2. CASE n # rnd[t]
    <3>1. Slot(n) # wi[t]
      BY <1>d, <2>0, <2>2, SlotApart
    <3>2. Counted(rnd, n)' = Counted(rnd, n)
      BY <1>a, <1>c, <2>2 DEF Counted, Goto
    <3>3. Finished(rnd, n)' <=> Finished(rnd, n)
      BY <1>a, <1>c, <2>2 DEF Finished, Goto
    <3>4. work_done_count'[Slot(n)] = work_done_count[Slot(n)]
      BY <1>a, <1>c, <2>0, <3>1
    <3> QED BY <3>2, <3>3, <3>4 DEF RoundsInv, Counts
  <2> QED BY <2>1, <2>2
<1>7. Readied(rel, rnd, tok, lead)'
  BY <1>a, <1>b, <1>c, ReadiedMove DEF RoundsInv, Ghosts
<1>8. Woken(prep, rnd)'
  BY <1>a, <1>b, <1>c, WokenMove
     DEF RoundsInv, Ghosts, Doing, Encoding, Dropping
<1>9. Permits(prep, rnd, held)'
  BY <1>a, <1>c, PermitsMove DEF RoundsInv
<1> QED BY <1>b, <1>1, <1>2, <1>3, <1>4, <1>5, <1>6, <1>7, <1>8,
           <1>9 DEF RoundsInv, Ghosts

(* It takes the count back to zero.                                        *)
LEMMA DropTermDsts ==
  ASSUME TypeOK, NEW t \in Thread, Drop_term_dsts(t),
         NEW cap, NEW prep, NEW rel, NEW rnd, NEW tok, NEW lead, NEW held,
         RoundsInv(cap, prep, rel, rnd, tok, lead, held)
  PROVE  RoundsInv(cap, prep, rel, rnd, tok, lead, held)'
<1>a. /\ pc \in [Thread -> Control]
      /\ thread_ready \in [Thread -> Nat] /\ work_ready \in [Thread -> Nat]
      /\ work_done_count \in [Work -> Nat]
  BY ConstantsAssumption DEF TypeOK
<1>b. Ghosts(cap, prep, rel, rnd, tok, lead)
  BY DEF RoundsInv
<1>c. /\ pc[t] = "drop_count" /\ Goto(t, "drop_flag")
      /\ work_done_count' = [work_done_count EXCEPT ![wi[t]] = 0]
      /\ UNCHANGED <<screen_ready, work_done, thread_ready, work_ready,
                     work_ready_flag, work_done_flag, should_capture,
                     work_index, thread_index, skip_frames, wi, cursor,
                     spc, sw, srel, quality_can_update, taken, upc>>
  BY DEF Drop_term_dsts, sems, params, screen, quality
<1>d. /\ rnd[t] \in Nat /\ rnd[t] \in 0 .. cap /\ rnd[t] < rel
      /\ rnd[t] < prep /\ rel <= rnd[t] + WORK_COUNT
      /\ wi[t] = Slot(rnd[t]) /\ wi[t] \in Work
  BY <1>c, Current DEF Doing, Dropping
<1>1. Phase(cap, prep, rel, tok, lead)'
  BY <1>c DEF RoundsInv, Phase, Capturing
<1>2. Rounds(cap, prep, rel, rnd, tok, lead)'
  BY <1>a, <1>b, <1>c
     DEF RoundsInv, Ghosts, Rounds, Preparing, Leading, Doing, Dropped,
         Encoding, Dropping, Goto
<1>3. Claimed(cap, prep, rnd, lead)'
  BY <1>a, <1>c, ClaimedMove DEF RoundsInv
<1>4. Works(cap, prep, rel, rnd, tok, lead)'
  BY <1>c DEF RoundsInv, Works, Freed, Capturing
<1>5. Skips(cap, prep, tok, lead)'
  BY <1>a, <1>c, SkipsMove DEF RoundsInv
<1>6. Counts(cap, rel, rnd)'
  <2> SUFFICES ASSUME NEW n \in 0 .. cap, rel <= n + WORK_COUNT, n < rel
               PROVE  (work_done_count[Slot(n)] =
                         IF Finished(rnd, n) THEN 0
                         ELSE Cardinality(Counted(rnd, n)))'
    BY DEF Counts
  <2>0. n \in Nat /\ rel \in Nat /\ Slot(n) \in Work
    BY <1>b, SlotType DEF Ghosts
  <2>1. CASE n = rnd[t]
    <3>1. Finished(rnd, n)'
      BY <1>a, <1>c, <2>1 DEF Finished, Goto, Dropped
    <3> QED BY <1>a, <1>c, <1>d, <2>1, <3>1
  <2>2. CASE n # rnd[t]
    <3>1. Slot(n) # wi[t]
      BY <1>d, <2>0, <2>2, SlotApart
    <3>2. Counted(rnd, n)' = Counted(rnd, n)
      BY <1>a, <1>c, <2>2 DEF Counted, Goto
    <3>3. Finished(rnd, n)' <=> Finished(rnd, n)
      BY <1>a, <1>c, <2>2 DEF Finished, Goto
    <3>4. work_done_count'[Slot(n)] = work_done_count[Slot(n)]
      BY <1>a, <1>c, <2>0, <3>1
    <3> QED BY <3>2, <3>3, <3>4 DEF RoundsInv, Counts
  <2> QED BY <2>1, <2>2
<1>7. Readied(rel, rnd, tok, lead)'
  BY <1>a, <1>b, <1>c, ReadiedMove DEF RoundsInv, Ghosts
<1>8. Woken(prep, rnd)'
  BY <1>a, <1>b, <1>c, WokenMove
     DEF RoundsInv, Ghosts, Doing, Encoding, Dropping
<1>9. Permits(prep, rnd, held)'
  BY <1>a, <1>c, PermitsMove DEF RoundsInv
<1> QED BY <1>b, <1>1, <1>2, <1>3, <1>4, <1>5, <1>6, <1>7, <1>8,
           <1>9 DEF RoundsInv, Ghosts

(* It gives the work up to the next leader.                                 *)
LEMMA DropFlag ==
  ASSUME TypeOK, NEW t \in Thread, Drop_flag(t),
         NEW cap, NEW prep, NEW rel, NEW rnd, NEW tok, NEW lead, NEW held,
         RoundsInv(cap, prep, rel, rnd, tok, lead, held)
  PROVE  RoundsInv(cap, prep, rel, rnd, tok, lead, held)'
<1>a. /\ pc \in [Thread -> Control]
      /\ thread_ready \in [Thread -> Nat] /\ work_ready \in [Thread -> Nat]
      /\ work_ready_flag \in [Work -> BOOLEAN]
  BY ConstantsAssumption DEF TypeOK
<1>b. Ghosts(cap, prep, rel, rnd, tok, lead)
  BY DEF RoundsInv
<1>c. /\ pc[t] = "drop_flag" /\ Goto(t, "drop_quality")
      /\ work_ready_flag' = [work_ready_flag EXCEPT ![wi[t]] = FALSE]
      /\ UNCHANGED <<screen_ready, work_done, thread_ready, work_ready,
                     work_done_count, work_done_flag, should_capture,
                     work_index, thread_index, skip_frames, wi, cursor,
                     spc, sw, srel, quality_can_update, taken, upc>>
  BY DEF Drop_flag, sems, params, screen, quality
<1>d. /\ rnd[t] \in Nat /\ rnd[t] \in 0 .. cap /\ rnd[t] < rel
      /\ rnd[t] < prep /\ rel <= rnd[t] + WORK_COUNT
      /\ wi[t] = Slot(rnd[t]) /\ wi[t] \in Work
  BY <1>c, Current DEF Doing, Dropping
<1>e. \A u \in Thread : u # t => rnd[u] > rnd[t]
  BY <1>c DEF RoundsInv, Rounds, Dropped
<1>1. Phase(cap, prep, rel, tok, lead)'
  BY <1>c DEF RoundsInv, Phase, Capturing
<1>2. Rounds(cap, prep, rel, rnd, tok, lead)'
  BY <1>a, <1>b, <1>c
     DEF RoundsInv, Ghosts, Rounds, Preparing, Leading, Doing, Dropped,
         Encoding, Dropping, Goto
<1>3. Claimed(cap, prep, rnd, lead)'
  <2>1. CASE CORE_COUNT > 1
    <3> SUFFICES ASSUME NEW u \in Thread, NEW n \in 0 .. cap, rnd[u] <= n,
                        n < prep \/ (n = cap /\ lead # NoThread),
                        ~(rnd[u] = n /\ pc'[u] \in {"drop_quality", "drop_done"})
                 PROVE  work_ready_flag'[Slot(n)]
      BY <2>1 DEF Claimed
    <3>1. ~(rnd[u] = n /\ pc[u] \in {"drop_quality", "drop_done"})
      BY <1>a, <1>c DEF Goto
    <3>2. work_ready_flag[Slot(n)]
      BY <2>1, <3>1 DEF RoundsInv, Claimed
    <3>3. n < rel
      BY <1>b DEF RoundsInv, Phase, Ghosts
    <3>4. n # rnd[t]
      BY <1>a, <1>b, <1>c, <1>e DEF Goto, Ghosts
    <3>5. rnd[t] <= n
      BY <1>b, <1>d, <1>e DEF Ghosts
    <3>6. n \in Nat /\ rel \in Nat /\ rel <= n + WORK_COUNT
      BY <1>b, <1>d, <3>5, ConstantsAssumption DEF Ghosts
    <3>7. Slot(n) # wi[t] /\ Slot(n) \in Work
      BY <1>d, <3>3, <3>4, <3>6, SlotApart, SlotType
    <3> QED BY <1>a, <1>c, <3>2, <3>7
  <2>2. CASE CORE_COUNT = 1
    BY <1>a, <1>c, <2>2 DEF RoundsInv, Claimed, Goto
  <2> QED BY <2>1, <2>2, ConstantsAssumption
<1>4. Works(cap, prep, rel, rnd, tok, lead)'
  BY <1>c DEF RoundsInv, Works, Freed, Capturing
<1>5. Skips(cap, prep, tok, lead)'
  BY <1>a, <1>c, SkipsMove DEF RoundsInv
<1>6. Counts(cap, rel, rnd)'
  <2>1. \A n : Counted(rnd, n)' = Counted(rnd, n)
    BY <1>a, <1>c DEF Counted, Goto, Dropped
  <2>2. \A n : Finished(rnd, n)' <=> Finished(rnd, n)
    BY <1>a, <1>c DEF Finished, Goto, Dropped
  <2> QED BY <1>c, <2>1, <2>2 DEF RoundsInv, Counts
<1>7. Readied(rel, rnd, tok, lead)'
  BY <1>a, <1>b, <1>c, ReadiedMove DEF RoundsInv, Ghosts
<1>8. Woken(prep, rnd)'
  BY <1>a, <1>b, <1>c, WokenMove
     DEF RoundsInv, Ghosts, Doing, Encoding, Dropping
<1>9. Permits(prep, rnd, held)'
  BY <1>a, <1>c, PermitsMove DEF RoundsInv
<1> QED BY <1>b, <1>1, <1>2, <1>3, <1>4, <1>5, <1>6, <1>7, <1>8,
           <1>9 DEF RoundsInv, Ghosts

(* It gives the permit of its round back.                                  *)
LEMMA QualityWorkRelease ==
  ASSUME TypeOK, NEW t \in Thread, Quality_work_release(t),
         NEW cap, NEW prep, NEW rel, NEW rnd, NEW tok, NEW lead, NEW held,
         RoundsInv(cap, prep, rel, rnd, tok, lead, held)
  PROVE  RoundsInv(cap, prep, rel, rnd, tok, lead, held \ {rnd[t]})'
<1>a. /\ pc \in [Thread -> Control]
      /\ thread_ready \in [Thread -> Nat] /\ work_ready \in [Thread -> Nat]
      /\ quality_can_update \in Nat /\ taken \in Nat
  BY ConstantsAssumption DEF TypeOK
<1>b. Ghosts(cap, prep, rel, rnd, tok, lead)
  BY DEF RoundsInv
<1>c. /\ pc[t] = "drop_quality" /\ Goto(t, "drop_done")
      /\ quality_can_update' = Released(quality_can_update, 1, WORK_COUNT)
      /\ UNCHANGED <<screen_ready, work_done, thread_ready, work_ready,
                     work_ready_flag, work_done_count, work_done_flag,
                     should_capture, work_index, thread_index, skip_frames,
                     wi, cursor, spc, sw, srel, taken, upc>>
  BY DEF Quality_work_release, sems, works, params, screen
<1>d. /\ rnd[t] \in Nat /\ rnd[t] \in 0 .. cap /\ rnd[t] < rel
      /\ rnd[t] < prep /\ rel <= rnd[t] + WORK_COUNT
      /\ wi[t] = Slot(rnd[t]) /\ wi[t] \in Work
  BY <1>c, Current DEF Doing, Dropping
<1>e. \A u \in Thread : u # t => rnd[u] > rnd[t]
  BY <1>c DEF RoundsInv, Rounds, Dropped
<1>0. Ghosts(cap, prep, rel, rnd, tok, lead)
  BY <1>b DEF Ghosts
<1>1. Phase(cap, prep, rel, tok, lead)'
  BY <1>c DEF RoundsInv, Phase, Capturing
<1>2. Rounds(cap, prep, rel, rnd, tok, lead)'
  BY <1>a, <1>b, <1>c
     DEF RoundsInv, Ghosts, Rounds, Preparing, Leading, Doing, Dropped,
         Encoding, Dropping, Goto
<1>3. Claimed(cap, prep, rnd, lead)'
  BY <1>a, <1>c DEF RoundsInv, Claimed, Goto
<1>4. Works(cap, prep, rel, rnd, tok, lead)'
  BY <1>c DEF RoundsInv, Works, Freed, Capturing
<1>5. Skips(cap, prep, tok, lead)'
  BY <1>a, <1>c, SkipsMove DEF RoundsInv
<1>6. Counts(cap, rel, rnd)'
  <2>1. \A n : Counted(rnd, n)' = Counted(rnd, n)
    BY <1>a, <1>c DEF Counted, Goto, Dropped
  <2>2. \A n : Finished(rnd, n)' <=> Finished(rnd, n)
    BY <1>a, <1>c DEF Finished, Goto, Dropped
  <2> QED BY <1>c, <2>1, <2>2 DEF RoundsInv, Counts
<1>7. Readied(rel, rnd, tok, lead)'
  BY <1>a, <1>b, <1>c, ReadiedMove DEF RoundsInv, Ghosts
<1>8. Woken(prep, rnd)'
  BY <1>a, <1>b, <1>c, WokenMove
     DEF RoundsInv, Ghosts, Doing, Encoding, Dropping
<1>9. Permits(prep, rnd, held \ {rnd[t]})'
  <2>1. /\ held \subseteq 0 .. prep - 1 /\ prep \in Nat
        /\ Cardinality(held) + quality_can_update + taken <= WORK_COUNT
    BY <1>b DEF RoundsInv, Permits, Ghosts
  <2>2. IsFiniteSet(held) /\ Cardinality(held) \in Nat
    BY <2>1, HeldFinite
  <2>3. rnd[t] \in 0 .. prep - 1
    BY <1>d, <2>1
  <2>4. rnd[t] \in held
    BY <1>c, <1>d, <2>3 DEF RoundsInv, Permits
  <2>5. Cardinality(held \ {rnd[t]}) = Cardinality(held) - 1
    BY <2>2, <2>4, FS_RemoveElement
  <2>6. Cardinality(held \ {rnd[t]}) + quality_can_update' + taken'
          <= WORK_COUNT
    BY <1>a, <1>c, <2>1, <2>2, <2>5, ConstantsAssumption DEF Released
  <2>7. upc' = "write" => taken' = WORK_COUNT
    BY <1>c DEF RoundsInv, Permits
  <2>8. ASSUME NEW u \in Thread, NEW n \in 0 .. prep - 1, rnd[u] <= n,
               ~(rnd[u] = n /\ pc'[u] = "drop_done")
        PROVE  n \in held \ {rnd[t]}
    <3>1. n # rnd[t]
      BY <1>a, <1>b, <1>c, <1>e, <2>8 DEF Goto, Ghosts
    <3>2. ~(rnd[u] = n /\ pc[u] = "drop_done")
      BY <1>a, <1>c, <2>8 DEF Goto
    <3> QED BY <2>8, <3>1, <3>2 DEF RoundsInv, Permits
  <2> QED BY <2>1, <2>6, <2>7, <2>8 DEF Permits
<1> QED BY <1>0, <1>1, <1>2, <1>3, <1>4, <1>5, <1>6, <1>7, <1>8,
           <1>9 DEF RoundsInv, Ghosts

(* It tells the screen thread that the work is free, and goes on.          *)
LEMMA DropWorkDone ==
  ASSUME TypeOK, NEW t \in Thread, Drop_work_done(t),
         NEW cap, NEW prep, NEW rel, NEW rnd, NEW tok, NEW lead, NEW held,
         RoundsInv(cap, prep, rel, rnd, tok, lead, held)
  PROVE  RoundsInv(cap, prep, rel, [rnd EXCEPT ![t] = @ + 1], tok, lead,
                   held)'
<1> DEFINE next == [rnd EXCEPT ![t] = @ + 1]
<1>a. /\ pc \in [Thread -> Control] /\ work_done \in [Work -> 0 .. 1]
      /\ wi \in [Thread -> Work]
  BY DEF TypeOK
<1>b. Ghosts(cap, prep, rel, rnd, tok, lead)
  BY DEF RoundsInv
<1>c. /\ pc[t] = "drop_done" /\ Next_work(t) /\ Goto(t, "thread_ready")
      /\ work_done' = [work_done EXCEPT ![wi[t]] = Released(@, 1, 1)]
      /\ UNCHANGED <<screen_ready, thread_ready, work_ready,
                     work_ready_flag, work_done_count, work_done_flag,
                     should_capture, work_index, thread_index, skip_frames,
                     cursor, spc, sw, srel, quality_can_update, taken, upc>>
  BY DEF Drop_work_done, Next_work, works, params, screen, quality
<1>d. /\ rnd[t] \in Nat /\ rnd[t] \in 0 .. cap /\ rnd[t] < rel
      /\ rnd[t] < prep /\ rel <= rnd[t] + WORK_COUNT
      /\ wi[t] = Slot(rnd[t]) /\ wi[t] \in Work
  BY <1>c, Current DEF Doing, Dropping
<1>e. \A u \in Thread : u # t => rnd[u] > rnd[t]
  BY <1>c DEF RoundsInv, Rounds, Dropped
<1>f. /\ next \in [Thread -> Nat] /\ next[t] = rnd[t] + 1
      /\ \A u \in Thread : u # t => next[u] = rnd[u]
      /\ \A u \in Thread : rnd[u] <= next[u]
      /\ \A u \in Thread : next[u] > rnd[t]
  BY <1>b, <1>d, <1>e DEF Ghosts
<1> HIDE DEF next
<1>1. /\ Ghosts(cap, prep, rel, next, tok, lead)
      /\ Phase(cap, prep, rel, tok, lead)'
      /\ Rounds(cap, prep, rel, next, tok, lead)'
      /\ Claimed(cap, prep, next, lead)'
      /\ Skips(cap, prep, tok, lead)'
      /\ Readied(rel, next, tok, lead)'
      /\ Woken(prep, next)'
      /\ Permits(prep, next, held)'
  BY <1>c, NextWork DEF next
<1>2. Works(cap, prep, rel, next, tok, lead)'
  <2>1. ASSUME prep = cap, Freed(cap, rnd) PROVE Freed(cap, next)'
    <3>1. /\ cap \in Nat /\ rnd[t] <= cap /\ cap < rnd[t] + WORK_COUNT
          /\ rnd[t] # cap
      BY <1>b, <1>d, <2>1, ConstantsAssumption DEF Freed, Ghosts
    <3>2. Slot(cap) # wi[t] /\ Slot(cap) \in Work
      BY <1>d, <3>1, SlotInjective, SlotType
    <3>3. work_done'[Slot(cap)] = 0
      BY <1>a, <1>c, <2>1, <3>2 DEF Freed
    <3>4. \A u \in Thread : next[u] + WORK_COUNT > cap
      BY <1>b, <1>f, <2>1, ConstantsAssumption DEF Freed, Ghosts
    <3> QED BY <3>3, <3>4 DEF Freed
  <2>2. ASSUME NEW u \in Thread, NEW n \in 0 .. cap, next[u] <= n
        PROVE  rnd[u] <= n
    BY <1>b, <1>f, <2>2 DEF Ghosts
  <2>3. ASSUME NEW u \in Thread, NEW n \in 0 .. cap, next[u] <= n, n < rel
        PROVE  work_done'[Slot(n)] = 0
    <3>1. /\ n \in Nat /\ rel \in Nat /\ rnd[t] < n
          /\ rel <= n + WORK_COUNT
      BY <1>b, <1>d, <1>f, <2>3, ConstantsAssumption DEF Ghosts
    <3>2. Slot(n) # wi[t] /\ Slot(n) \in Work
      BY <1>d, <2>3, <3>1, SlotApart, SlotType
    <3>3. work_done[Slot(n)] = 0
      BY <2>2, <2>3 DEF RoundsInv, Works
    <3> QED BY <1>a, <1>c, <3>2, <3>3
  <2>4. spc \in Capturing => prep = cap
    BY DEF RoundsInv, Phase
  <2> QED BY <1>c, <2>1, <2>2, <2>3, <2>4 DEF RoundsInv, Works, Capturing
<1>3. Counts(cap, rel, next)'
  <2> SUFFICES ASSUME NEW n \in 0 .. cap, rel <= n + WORK_COUNT, n < rel
               PROVE  (work_done_count[Slot(n)] =
                         IF Finished(next, n) THEN 0
                         ELSE Cardinality(Counted(next, n)))'
    BY DEF Counts
  <2>1. work_done_count[Slot(n)] =
          IF Finished(rnd, n) THEN 0 ELSE Cardinality(Counted(rnd, n))
    BY DEF RoundsInv, Counts
  <2>2. Finished(next, n)' <=> Finished(rnd, n)
    <3>1. CASE n = rnd[t]
      BY <1>c, <1>f, <3>1 DEF Finished, Dropped
    <3>2. CASE n # rnd[t]
      BY <1>a, <1>b, <1>c, <1>d, <1>f, <3>2
         DEF Finished, Goto, Dropped, Ghosts
    <3> QED BY <3>1, <3>2
  <2>3. Counted(next, n)' = Counted(rnd, n)
    BY <1>a, <1>b, <1>c, <1>d, <1>f DEF Counted, Goto, Dropped, Ghosts
  <2> QED BY <1>c, <2>1, <2>2, <2>3
<1> QED BY <1>1, <1>2, <1>3 DEF RoundsInv, Ghosts, next

(* The screen thread takes the round over.                                 *)
LEMMA ScreenReadyAcquire ==
  ASSUME TypeOK, Screen_ready_acquire,
         NEW cap, NEW prep, NEW rel, NEW rnd, NEW tok, NEW lead, NEW held,
         RoundsInv(cap, prep, rel, rnd, tok, lead, held)
  PROVE  RoundsInv(cap, prep, rel, rnd, "screen", lead, held)'
<1>a. /\ pc \in [Thread -> Control]
      /\ thread_ready \in [Thread -> Nat] /\ work_ready \in [Thread -> Nat]
      /\ screen_ready \in 0 .. 1
  BY ConstantsAssumption DEF TypeOK
<1>b. Ghosts(cap, prep, rel, rnd, tok, lead)
  BY DEF RoundsInv
<1>c. /\ screen_ready > 0 /\ screen_ready' = screen_ready - 1
      /\ spc' = "work_index"
      /\ UNCHANGED <<pc, work_done, thread_ready, work_ready, work_ready_flag,
                     work_done_count, work_done_flag, should_capture,
                     work_index, thread_index, skip_frames, wi, cursor, sw,
                     srel, quality_can_update, taken, upc>>
  BY DEF Screen_ready_acquire, workers_unchanged, works, params, worker,
         quality
<1>d. tok = "sem" /\ screen_ready' = 0
  BY <1>a, <1>c DEF RoundsInv, Phase
<1>0. Ghosts(cap, prep, rel, rnd, "screen", lead)
  BY <1>b DEF Ghosts, Token
<1>1. Phase(cap, prep, rel, "screen", lead)'
  BY <1>b, <1>c, <1>d DEF RoundsInv, Phase, Ghosts
<1>2. Rounds(cap, prep, rel, rnd, "screen", lead)'
  BY <1>b, <1>c, <1>d DEF RoundsInv, Rounds
<1>3. Claimed(cap, prep, rnd, lead)'
  BY <1>c DEF RoundsInv, Claimed
<1>4. Works(cap, prep, rel, rnd, "screen", lead)'
  BY <1>c, <1>d DEF RoundsInv, Works, Freed, Capturing
<1>5. Skips(cap, prep, "screen", lead)'
  BY <1>c, <1>d DEF RoundsInv, Skips
<1>6. Counts(cap, rel, rnd)'
  BY <1>c DEF RoundsInv, Counts, Counted, Finished
<1>7. Readied(rel, rnd, "screen", lead)'
  BY <1>c, <1>d DEF RoundsInv, Readied, Owed, Took, Again
<1>8. Woken(prep, rnd)'
  BY <1>c DEF RoundsInv, Woken, Waking, Awake
<1>9. Permits(prep, rnd, held)'
  BY <1>c DEF RoundsInv, Permits
<1> QED BY <1>0, <1>1, <1>2, <1>3, <1>4, <1>5, <1>6, <1>7, <1>8,
           <1>9 DEF RoundsInv, Ghosts

(* It finds a work that it has waited for already, or has to wait.         *)
LEMMA WorkDoneFlag ==
  ASSUME TypeOK, Work_done_flag,
         NEW cap, NEW prep, NEW rel, NEW rnd, NEW tok, NEW lead, NEW held,
         RoundsInv(cap, prep, rel, rnd, tok, lead, held)
  PROVE  RoundsInv(cap, prep, rel, rnd, tok, lead, held)'
<1>a. /\ pc \in [Thread -> Control]
      /\ thread_ready \in [Thread -> Nat] /\ work_ready \in [Thread -> Nat]
  BY ConstantsAssumption DEF TypeOK
<1>b. Ghosts(cap, prep, rel, rnd, tok, lead)
  BY DEF RoundsInv
<1>c. /\ spc = "work_index" /\ sw' = work_index
      /\ spc' = IF work_done_flag[work_index] THEN "capture" ELSE "work_done"
      /\ UNCHANGED <<pc, screen_ready, work_done, thread_ready, work_ready,
                     work_ready_flag, work_done_count, work_done_flag,
                     should_capture, work_index, thread_index, skip_frames,
                     wi, cursor, srel, quality_can_update, taken, upc>>
  BY DEF Work_done_flag, workers_unchanged, sems, works, params, worker, quality
<1>d. tok = "screen" /\ work_index = Slot(cap) /\ Slot(cap) \in Work
  BY <1>b, <1>c, SlotType DEF RoundsInv, Phase, Capturing, Ghosts
<1>1. Phase(cap, prep, rel, tok, lead)'
  BY <1>c, <1>d DEF RoundsInv, Phase
<1>2. Rounds(cap, prep, rel, rnd, tok, lead)'
  BY <1>b, <1>c DEF RoundsInv, Rounds
<1>3. Claimed(cap, prep, rnd, lead)'
  BY <1>c DEF RoundsInv, Claimed
<1>4. Works(cap, prep, rel, rnd, tok, lead)'
  BY <1>c, <1>d DEF RoundsInv, Works, Freed, Capturing
<1>5. Skips(cap, prep, tok, lead)'
  BY <1>c DEF RoundsInv, Skips
<1>6. Counts(cap, rel, rnd)'
  BY <1>c DEF RoundsInv, Counts, Counted, Finished
<1>7. Readied(rel, rnd, tok, lead)'
  BY <1>c DEF RoundsInv, Readied, Owed, Took, Again
<1>8. Woken(prep, rnd)'
  BY <1>c DEF RoundsInv, Woken, Waking, Awake
<1>9. Permits(prep, rnd, held)'
  BY <1>c DEF RoundsInv, Permits
<1> QED BY <1>b, <1>1, <1>2, <1>3, <1>4, <1>5, <1>6, <1>7, <1>8,
           <1>9 DEF RoundsInv, Ghosts

(* It has waited until everybody is through with the work.                 *)
LEMMA WorkDoneAcquire ==
  ASSUME TypeOK, Work_done_acquire,
         NEW cap, NEW prep, NEW rel, NEW rnd, NEW tok, NEW lead, NEW held,
         RoundsInv(cap, prep, rel, rnd, tok, lead, held)
  PROVE  RoundsInv(cap, prep, rel, rnd, tok, lead, held)'
<1>a. /\ pc \in [Thread -> Control]
      /\ thread_ready \in [Thread -> Nat] /\ work_ready \in [Thread -> Nat]
      /\ work_done \in [Work -> 0 .. 1]
  BY ConstantsAssumption DEF TypeOK
<1>b. Ghosts(cap, prep, rel, rnd, tok, lead)
  BY DEF RoundsInv
<1>c. /\ spc = "work_done" /\ spc' = "done_flag"
      /\ work_done[sw] > 0
      /\ work_done' = [work_done EXCEPT ![sw] = @ - 1]
      /\ UNCHANGED <<pc, screen_ready, thread_ready, work_ready, work_ready_flag,
                     work_done_count, work_done_flag, should_capture,
                     work_index, thread_index, skip_frames, wi, cursor, sw,
                     srel, quality_can_update, taken, upc>>
  BY DEF Work_done_acquire, workers_unchanged, works, params, worker, quality
<1>d. /\ tok = "screen" /\ sw = Slot(cap) /\ Slot(cap) \in Work
      /\ cap \in Nat /\ rel \in {cap, cap + 1} /\ cap >= WORK_COUNT
  BY <1>b, <1>c, SlotType DEF RoundsInv, Phase, Works, Capturing, Ghosts
<1>e. \A w \in Work : work_done[w] = 0 => work_done'[w] = 0
  BY <1>a, <1>c
<1>f. Freed(cap, rnd)'
  <2>1. work_done'[Slot(cap)] = 0
    BY <1>a, <1>c, <1>d
  <2>2. ASSUME NEW u \in Thread, ~(rnd[u] + WORK_COUNT > cap) PROVE FALSE
    <3>1. /\ cap - WORK_COUNT \in Nat /\ cap - WORK_COUNT \in 0 .. cap
          /\ cap - WORK_COUNT < rel /\ rnd[u] <= cap - WORK_COUNT
          /\ cap - WORK_COUNT + WORK_COUNT = cap
      BY <1>b, <1>d, <2>2, ConstantsAssumption DEF Ghosts
    <3>2. Slot(cap - WORK_COUNT) = Slot(cap)
      BY <3>1, SlotWrap
    <3>3. work_done[Slot(cap)] = 0
      BY <3>1, <3>2 DEF RoundsInv, Works
    <3> QED BY <1>c, <1>d, <3>3
  <2> QED BY <2>1, <2>2 DEF Freed
<1>1. Phase(cap, prep, rel, tok, lead)'
  BY <1>c, <1>d DEF RoundsInv, Phase
<1>2. Rounds(cap, prep, rel, rnd, tok, lead)'
  BY <1>b, <1>c DEF RoundsInv, Rounds
<1>3. Claimed(cap, prep, rnd, lead)'
  BY <1>c DEF RoundsInv, Claimed
<1>4. Works(cap, prep, rel, rnd, tok, lead)'
  <2>1. \A u \in Thread, n \in 0 .. cap :
          rnd[u] <= n /\ n < rel => work_done'[Slot(n)] = 0
    BY <1>e, SlotType DEF RoundsInv, Works
  <2> QED BY <1>c, <1>d, <1>f, <2>1 DEF RoundsInv, Works, Capturing
<1>5. Skips(cap, prep, tok, lead)'
  BY <1>c DEF RoundsInv, Skips
<1>6. Counts(cap, rel, rnd)'
  BY <1>c DEF RoundsInv, Counts, Counted, Finished
<1>7. Readied(rel, rnd, tok, lead)'
  BY <1>c DEF RoundsInv, Readied, Owed, Took, Again
<1>8. Woken(prep, rnd)'
  BY <1>c DEF RoundsInv, Woken, Waking, Awake
<1>9. Permits(prep, rnd, held)'
  BY <1>c DEF RoundsInv, Permits
<1> QED BY <1>b, <1>1, <1>2, <1>3, <1>4, <1>5, <1>6, <1>7, <1>8,
           <1>9 DEF RoundsInv, Ghosts

(* It notes that it need not wait for this work again.                     *)
LEMMA WorkDoneFlagSet ==
  ASSUME TypeOK, Work_done_flag_set,
         NEW cap, NEW prep, NEW rel, NEW rnd, NEW tok, NEW lead, NEW held,
         RoundsInv(cap, prep, rel, rnd, tok, lead, held)
  PROVE  RoundsInv(cap, prep, rel, rnd, tok, lead, held)'
<1>a. /\ pc \in [Thread -> Control]
      /\ thread_ready \in [Thread -> Nat] /\ work_ready \in [Thread -> Nat]
      /\ work_done_flag \in [Work -> BOOLEAN]
  BY ConstantsAssumption DEF TypeOK
<1>b. Ghosts(cap, prep, rel, rnd, tok, lead)
  BY DEF RoundsInv
<1>c. /\ spc = "done_flag" /\ spc' = "capture"
      /\ work_done_flag' = [work_done_flag EXCEPT ![sw] = TRUE]
      /\ UNCHANGED <<pc, screen_ready, work_done, thread_ready, work_ready,
                     work_ready_flag, work_done_count, should_capture,
                     work_index, thread_index, skip_frames, wi, cursor, sw,
                     srel, quality_can_update, taken, upc>>
  BY DEF Work_done_flag_set, sems, params, worker, quality
<1>d. /\ tok = "screen" /\ sw = Slot(cap) /\ prep = cap /\ Freed(cap, rnd)
      /\ \A u \in Thread : pc[u] \notin Preparing \ {"skip_wait"}
  BY <1>b, <1>c DEF RoundsInv, Phase, Rounds, Works, Capturing, Ghosts
<1>1. Phase(cap, prep, rel, tok, lead)'
  BY <1>c, <1>d DEF RoundsInv, Phase
<1>2. Rounds(cap, prep, rel, rnd, tok, lead)'
  BY <1>b, <1>c DEF RoundsInv, Rounds
<1>3. Claimed(cap, prep, rnd, lead)'
  BY <1>c DEF RoundsInv, Claimed
<1>4. Works(cap, prep, rel, rnd, tok, lead)'
  BY <1>a, <1>c, <1>d DEF RoundsInv, Works, Freed, Capturing
<1>5. Skips(cap, prep, tok, lead)'
  BY <1>c, <1>d DEF RoundsInv, Skips, Preparing, Leading
<1>6. Counts(cap, rel, rnd)'
  BY <1>c DEF RoundsInv, Counts, Counted, Finished
<1>7. Readied(rel, rnd, tok, lead)'
  BY <1>c DEF RoundsInv, Readied, Owed, Took, Again
<1>8. Woken(prep, rnd)'
  BY <1>c DEF RoundsInv, Woken, Waking, Awake
<1>9. Permits(prep, rnd, held)'
  BY <1>c DEF RoundsInv, Permits
<1> QED BY <1>b, <1>1, <1>2, <1>3, <1>4, <1>5, <1>6, <1>7, <1>8,
           <1>9 DEF RoundsInv, Ghosts

(* It starts the DMA into the work it has waited for.                      *)
LEMMA CaptureScreen ==
  ASSUME TypeOK, NEW s, Capture_screen(s),
         NEW cap, NEW prep, NEW rel, NEW rnd, NEW tok, NEW lead, NEW held,
         RoundsInv(cap, prep, rel, rnd, tok, lead, held)
  PROVE  RoundsInv(cap, prep, rel, rnd, tok, lead, held)'
<1>a. /\ pc \in [Thread -> Control]
      /\ thread_ready \in [Thread -> Nat] /\ work_ready \in [Thread -> Nat]
  BY ConstantsAssumption DEF TypeOK
<1>b. Ghosts(cap, prep, rel, rnd, tok, lead)
  BY DEF RoundsInv
<1>c. /\ spc = "capture" /\ spc' = "params" /\ sw' = work_index
      /\ UNCHANGED <<pc, screen_ready, work_done, thread_ready, work_ready,
                     work_ready_flag, work_done_count, work_done_flag,
                     should_capture, work_index, thread_index, skip_frames,
                     wi, cursor, srel, quality_can_update, taken, upc>>
  BY DEF Capture_screen, sems, works, params, worker, quality
<1>d. tok = "screen" /\ work_index = Slot(cap)
  BY <1>c DEF RoundsInv, Phase, Capturing
<1>1. Phase(cap, prep, rel, tok, lead)'
  BY <1>c, <1>d DEF RoundsInv, Phase
<1>2. Rounds(cap, prep, rel, rnd, tok, lead)'
  BY <1>b, <1>c DEF RoundsInv, Rounds
<1>3. Claimed(cap, prep, rnd, lead)'
  BY <1>c DEF RoundsInv, Claimed
<1>4. Works(cap, prep, rel, rnd, tok, lead)'
  BY <1>c, <1>d DEF RoundsInv, Works, Freed, Capturing
<1>5. Skips(cap, prep, tok, lead)'
  BY <1>c DEF RoundsInv, Skips
<1>6. Counts(cap, rel, rnd)'
  BY <1>c DEF RoundsInv, Counts, Counted, Finished
<1>7. Readied(rel, rnd, tok, lead)'
  BY <1>c DEF RoundsInv, Readied, Owed, Took, Again
<1>8. Woken(prep, rnd)'
  BY <1>c DEF RoundsInv, Woken, Waking, Awake
<1>9. Permits(prep, rnd, held)'
  BY <1>c DEF RoundsInv, Permits
<1> QED BY <1>b, <1>1, <1>2, <1>3, <1>4, <1>5, <1>6, <1>7, <1>8,
           <1>9 DEF RoundsInv, Ghosts

(* It hands the captured round to the work threads, or to its leader alone. *)
LEMMA WorkParams ==
  ASSUME TypeOK, Work_params,
         NEW cap, NEW prep, NEW rel, NEW rnd, NEW tok, NEW lead, NEW held,
         RoundsInv(cap, prep, rel, rnd, tok, lead, held)
  PROVE  RoundsInv(cap, prep, cap + 1, rnd, "lead", lead, held)'
<1>a. /\ pc \in [Thread -> Control]
      /\ thread_ready \in [Thread -> Nat] /\ work_ready \in [Thread -> Nat]
  BY ConstantsAssumption DEF TypeOK
<1>b. Ghosts(cap, prep, rel, rnd, tok, lead)
  BY DEF RoundsInv
<1>c. /\ spc = "params" /\ spc' = "release"
      /\ srel' = Ready_threads(sw)
      /\ UNCHANGED <<pc, screen_ready, work_done, thread_ready, work_ready,
                     work_ready_flag, work_done_count, work_done_flag,
                     should_capture, work_index, thread_index, skip_frames,
                     wi, cursor, sw, quality_can_update, taken, upc>>
  BY DEF Work_params, workers_unchanged, sems, works, worker, quality
<1>d. /\ tok = "screen" /\ sw = Slot(cap) /\ prep = cap /\ Freed(cap, rnd)
      /\ cap \in Nat /\ rel \in {cap, cap + 1} /\ cap >= WORK_COUNT
      /\ Slot(cap) \in Work /\ screen_ready # 1
      /\ \A u \in Thread : pc[u] \notin Preparing \ {"skip_wait"}
      /\ rel = cap <=> lead = NoThread
  BY <1>b, <1>c, SlotType
     DEF RoundsInv, Phase, Rounds, Works, Capturing, Ghosts
<1>0. Ghosts(cap, prep, cap + 1, rnd, "lead", lead)
  BY <1>b, <1>d DEF Ghosts, Token
<1>1. Phase(cap, prep, cap + 1, "lead", lead)'
  BY <1>b, <1>c, <1>d DEF RoundsInv, Phase, Capturing, Ghosts
<1>2. Rounds(cap, prep, cap + 1, rnd, "lead", lead)'
  <2>1. \A u \in Thread : cap + 1 <= rnd[u] + WORK_COUNT /\ rnd[u] # cap + 1
    BY <1>b, <1>d, ConstantsAssumption DEF RoundsInv, Rounds, Freed, Ghosts
  <2> QED BY <1>b, <1>c, <1>d, <2>1 DEF RoundsInv, Rounds
<1>3. Claimed(cap, prep, rnd, lead)'
  BY <1>c DEF RoundsInv, Claimed
<1>4. Works(cap, prep, cap + 1, rnd, "lead", lead)'
  <2>1. \A u \in Thread, n \in 0 .. cap :
          rnd[u] <= n /\ n < cap + 1 => work_done[Slot(n)] = 0
    BY <1>b, <1>d DEF RoundsInv, Works, Freed, Ghosts
  <2> QED BY <1>c, <1>d, <2>1 DEF RoundsInv, Works, Freed, Capturing
<1>5. Skips(cap, prep, "lead", lead)'
  BY <1>c, <1>d DEF RoundsInv, Skips
<1>6. Counts(cap, cap + 1, rnd)'
  <2> SUFFICES ASSUME NEW n \in 0 .. cap,
                      cap + 1 <= n + WORK_COUNT, n < cap + 1
               PROVE  work_done_count[Slot(n)] =
                        IF Finished(rnd, n) THEN 0
                        ELSE Cardinality(Counted(rnd, n))
    BY <1>c DEF Counts, Finished, Counted
  <2>1. CASE n < rel
    <3>1. rel <= n + WORK_COUNT
      BY <1>b, <1>d, ConstantsAssumption DEF Ghosts
    <3> QED BY <2>1, <3>1 DEF RoundsInv, Counts
  <2>2. CASE n = cap /\ rel = cap
    <3>1. /\ cap - WORK_COUNT \in Nat /\ cap - WORK_COUNT \in 0 .. cap
          /\ cap - WORK_COUNT < rel /\ cap - WORK_COUNT + WORK_COUNT = cap
      BY <1>d, <2>2, ConstantsAssumption
    <3>2. Slot(cap - WORK_COUNT) = Slot(cap)
      BY <3>1, SlotWrap
    <3>3. Finished(rnd, cap - WORK_COUNT)
      BY <1>b, <1>d, ConstantsAssumption DEF Finished, Freed, Ghosts
    <3>4. work_done_count[Slot(cap)] = 0
      BY <1>d, <2>2, <3>1, <3>2, <3>3 DEF RoundsInv, Counts
    <3>5. \A u \in Thread : u \notin Counted(rnd, cap)
      BY <1>b, <1>d
         DEF RoundsInv, Rounds, Counted, Doing, Dropping, Dropped, Ghosts
    <3>6. Counted(rnd, cap) = {}
      BY <3>5 DEF Counted
    <3> QED BY <2>2, <3>4, <3>6, FS_EmptySet
  <2> QED BY <1>d, <2>1, <2>2
<1>7. Readied(cap + 1, rnd, "lead", lead)'
  <2> SUFFICES ASSUME NEW u \in Thread
               PROVE  (thread_ready[u] + Owed(u) + Took(u, lead) + rnd[u]
                         <= cap + 1 + Again(u, "lead", lead))'
    BY DEF Readied
  <2>1. thread_ready[u] + Owed(u) + Took(u, lead) + rnd[u]
          <= rel + Again(u, tok, lead)
    BY DEF RoundsInv, Readied
  <2>2. /\ Took(u, lead)' = Took(u, lead) /\ Again(u, tok, lead) = 0
        /\ thread_ready[u] \in Nat /\ Owed(u) \in Nat /\ rnd[u] \in Nat
        /\ Took(u, lead) \in Nat /\ rel \in Nat /\ Owed(u)' \in {0, 1}
    BY <1>a, <1>b, <1>c, <1>d DEF Owed, Took, Again, Ghosts
  <2>3. CASE lead = NoThread
    <3>1. rel = cap /\ Again(u, "lead", lead)' = 0
      BY <1>d, <2>3, ThreadFinite DEF Again
    <3> QED BY <1>c, <1>d, <2>1, <2>2, <3>1
  <2>4. CASE lead # NoThread
    <3>1. srel' = {lead} /\ rel = cap + 1
      BY <1>c, <1>d, <2>4 DEF RoundsInv, Skips, Ready_threads
    <3>2. CASE u = lead
      <4>1. Again(u, "lead", lead)' = 1
        BY <1>c, <1>d, <2>4, <3>2 DEF RoundsInv, Rounds, Again
      <4> QED BY <1>c, <1>d, <2>1, <2>2, <3>1, <4>1
    <3>3. CASE u # lead
      <4>1. Again(u, "lead", lead)' = 0 /\ Owed(u)' = 0
        BY <3>1, <3>3 DEF Again, Owed
      <4> QED BY <1>c, <1>d, <2>1, <2>2, <3>1, <4>1
    <3> QED BY <3>2, <3>3
  <2> QED BY <2>3, <2>4
<1>8. Woken(prep, rnd)'
  BY <1>c DEF RoundsInv, Woken, Waking, Awake
<1>9. Permits(prep, rnd, held)'
  BY <1>c DEF RoundsInv, Permits
<1> QED BY <1>0, <1>1, <1>2, <1>3, <1>4, <1>5, <1>6, <1>7, <1>8,
           <1>9 DEF RoundsInv, Ghosts

(* It releases the threads one after the other.                            *)
LEMMA ThreadReadyRelease ==
  ASSUME TypeOK, Thread_ready_release,
         NEW cap, NEW prep, NEW rel, NEW rnd, NEW tok, NEW lead, NEW held,
         RoundsInv(cap, prep, rel, rnd, tok, lead, held)
  PROVE  RoundsInv(cap, prep, rel, rnd, tok, lead, held)'
<1>a. /\ pc \in [Thread -> Control]
      /\ thread_ready \in [Thread -> Nat] /\ work_ready \in [Thread -> Nat]
  BY ConstantsAssumption DEF TypeOK
<1>b. Ghosts(cap, prep, rel, rnd, tok, lead)
  BY DEF RoundsInv
<1>c. /\ spc' \in {"screen_ready", "release"}
      /\ UNCHANGED <<pc, screen_ready, work_done, work_ready, work_ready_flag,
                     work_done_count, work_done_flag, should_capture,
                     work_index, thread_index, skip_frames, wi, cursor, sw,
                     quality_can_update, taken, upc>>
  BY DEF Thread_ready_release, workers_unchanged, works, params, worker, quality
<1>1. Phase(cap, prep, rel, tok, lead)'
  BY <1>c DEF RoundsInv, Phase, Capturing
<1>2. Rounds(cap, prep, rel, rnd, tok, lead)'
  BY <1>b, <1>c DEF RoundsInv, Rounds
<1>3. Claimed(cap, prep, rnd, lead)'
  BY <1>c DEF RoundsInv, Claimed
<1>4. Works(cap, prep, rel, rnd, tok, lead)'
  BY <1>c DEF RoundsInv, Works, Freed, Capturing
<1>5. Skips(cap, prep, tok, lead)'
  BY <1>c DEF RoundsInv, Skips
<1>6. Counts(cap, rel, rnd)'
  BY <1>c DEF RoundsInv, Counts, Counted, Finished
<1>7. Readied(rel, rnd, tok, lead)'
  <2> SUFFICES ASSUME NEW u \in Thread
               PROVE  (thread_ready[u] + Owed(u) + Took(u, lead) + rnd[u]
                         <= rel + Again(u, tok, lead))'
    BY DEF Readied
  <2>1. thread_ready[u] + Owed(u) + Took(u, lead) + rnd[u]
          <= rel + Again(u, tok, lead)
    BY DEF RoundsInv, Readied
  <2>2. /\ Took(u, lead)' = Took(u, lead)
        /\ Again(u, tok, lead)' = Again(u, tok, lead)
        /\ Owed(u) \in Nat /\ Owed(u)' \in Nat /\ rnd[u] \in Nat
        /\ Took(u, lead) \in Nat /\ Again(u, tok, lead) \in Nat /\ rel \in Nat
    BY <1>b, <1>c DEF Owed, Took, Again, Ghosts
  <2>3. PICK j \in srel :
          /\ thread_ready' =
               [thread_ready EXCEPT ![j] = Released(@, 1, WORK_COUNT)]
          /\ srel' = srel \ {j}
    BY DEF Thread_ready_release
  <2>4. thread_ready[u] \in Nat /\ thread_ready'[u] \in Nat
    BY <1>a, <2>3 DEF Released
  <2>5. thread_ready'[u] + Owed(u)' <= thread_ready[u] + Owed(u)
    BY <1>a, <2>3 DEF Released, Owed
  <2> QED BY <2>1, <2>2, <2>4, <2>5
<1>8. Woken(prep, rnd)'
  BY <1>c DEF RoundsInv, Woken, Waking, Awake
<1>9. Permits(prep, rnd, held)'
  BY <1>c DEF RoundsInv, Permits
<1> QED BY <1>b, <1>1, <1>2, <1>3, <1>4, <1>5, <1>6, <1>7, <1>8,
           <1>9 DEF RoundsInv, Ghosts

(* Steps that leave the pipeline alone but, perhaps, for the permits of    *)
(* the quality update.                                                     *)
LEMMA Untouched ==
  ASSUME UNCHANGED <<screen_ready, work_done, thread_ready, work_ready,
                     work_ready_flag, work_done_count, work_done_flag,
                     should_capture, work_index, thread_index, skip_frames,
                     pc, wi, cursor, sw, srel>>,
         spc' = spc \/ spc' = "exited",
         NEW cap, NEW prep, NEW rel, NEW rnd, NEW tok, NEW lead, NEW held,
         RoundsInv(cap, prep, rel, rnd, tok, lead, held),
         Permits(prep, rnd, held)'
  PROVE  RoundsInv(cap, prep, rel, rnd, tok, lead, held)'
<1>1. Phase(cap, prep, rel, tok, lead)'
  BY DEF RoundsInv, Phase, Capturing
<1>2. Rounds(cap, prep, rel, rnd, tok, lead)'
  BY DEF RoundsInv, Rounds
<1>3. Claimed(cap, prep, rnd, lead)'
  BY DEF RoundsInv, Claimed
<1>4. Works(cap, prep, rel, rnd, tok, lead)'
  BY DEF RoundsInv, Works, Freed, Capturing
<1>5. Skips(cap, prep, tok, lead)'
  BY DEF RoundsInv, Skips
<1>6. Counts(cap, rel, rnd)'
  BY DEF RoundsInv, Counts, Counted, Finished
<1>7. Readied(rel, rnd, tok, lead)'
  BY DEF RoundsInv, Readied, Owed, Took, Again
<1>8. Woken(prep, rnd)'
  BY DEF RoundsInv, Woken, Waking, Awake
<1> QED BY <1>1, <1>2, <1>3, <1>4, <1>5, <1>6, <1>7, <1>8
        DEF RoundsInv, Ghosts

(* The permits of the quality update are moved, never made.                *)
LEMMA UpdatePermits ==
  ASSUME TypeOK, Update_quality \/ Update_rest,
         NEW cap, NEW prep, NEW rel, NEW rnd, NEW tok, NEW lead, NEW held,
         RoundsInv(cap, prep, rel, rnd, tok, lead, held)
  PROVE  RoundsInv(cap, prep, rel, rnd, tok, lead, held)'
<1>a. /\ quality_can_update \in Nat /\ taken \in Nat
      /\ WORK_COUNT \in Nat \ {0}
  BY ConstantsAssumption DEF TypeOK
<1>b. /\ held \subseteq 0 .. prep - 1 /\ prep \in Nat
      /\ Cardinality(held) + quality_can_update + taken <= WORK_COUNT
      /\ upc = "write" => taken = WORK_COUNT
  BY DEF RoundsInv, Permits, Ghosts
<1>c. Cardinality(held) \in Nat
  BY <1>b, HeldFinite
<1>d. UNCHANGED <<screen_ready, work_done, thread_ready, work_ready,
                  work_ready_flag, work_done_count, work_done_flag,
                  should_capture, work_index, thread_index, skip_frames,
                  pc, wi, cursor, spc, sw, srel>>
  BY DEF Update_quality, Update_rest, Update_need, Update_take, Update_write,
         Update_clear, Update_signal, Update_give_up, quality_frame, sems,
         works, params, worker, screen
<1>1. /\ Cardinality(held) + quality_can_update' + taken' <= WORK_COUNT
      /\ upc' = "write" => taken' = WORK_COUNT
  <2>1. CASE Update_quality
    BY <1>a, <1>b, <1>c, <2>1 DEF Update_quality
  <2>2. CASE Update_take
    BY <1>a, <1>b, <1>c, <2>2 DEF Update_take, All_taken
  <2>3. CASE Update_write
    BY <1>a, <1>b, <1>c, <2>3 DEF Update_write, Released
  <2>4. CASE Update_need \/ Update_clear \/ Update_signal \/ Update_give_up
    BY <1>b, <2>4
       DEF Update_need, Update_clear, Update_signal, Update_give_up
  <2> QED BY <2>1, <2>2, <2>3, <2>4 DEF Update_rest
<1>2. Permits(prep, rnd, held)'
  BY <1>1, <1>d DEF RoundsInv, Permits
<1> QED BY <1>2, <1>d, Untouched

-----------------------------------------------------------------------------
(* There are rounds that fit the state.                                    *)
RoundsHold ==
  \E cap, prep, rel, rnd, tok, lead, held :
    RoundsInv(cap, prep, rel, rnd, tok, lead, held)

(* At the start: no frame is in flight, the first capture may begin.       *)
LEMMA RoundsInit ==
  ASSUME Init
  PROVE  RoundsInv(WORK_COUNT, WORK_COUNT, WORK_COUNT,
                   [t \in Thread |-> WORK_COUNT], "sem", NoThread, {})
<1> DEFINE w == WORK_COUNT
           rnd == [t \in Thread |-> w]
<1>a. w \in Nat \ {0} /\ CORE_COUNT \in Nat \ {0}
  BY ConstantsAssumption
<1>b. Slot(w) = 0
  <2>1. Slot(0) = 0
    BY ConstantsAssumption, ModUnique DEF Slot
  <2> QED BY <1>a, <2>1, SlotWrap
<1>0. Ghosts(w, w, w, rnd, "sem", NoThread)
  BY <1>a DEF Ghosts, Token
<1>1. Phase(w, w, w, "sem", NoThread)
  BY <1>a, <1>b DEF Init, Phase, Capturing
<1>2. Rounds(w, w, w, rnd, "sem", NoThread)
  BY <1>a, <1>b
     DEF Init, Rounds, Doing, Preparing, Leading, Encoding, Dropping, Dropped
<1>3. Claimed(w, w, rnd, NoThread)
  BY <1>a DEF Init, Claimed
<1>4. Works(w, w, w, rnd, "sem", NoThread)
  BY <1>a DEF Init, Works, Capturing
<1>5. Skips(w, w, "sem", NoThread)
  BY DEF Init, Skips
<1>6. Counts(w, w, rnd)
  <2>1. \A n \in 0 .. w : n < w => Finished(rnd, n)
    BY <1>a DEF Finished
  <2>2. \A n \in 0 .. w : work_done_count[Slot(n)] = 0
    BY SlotType DEF Init
  <2> QED BY <2>1, <2>2 DEF Counts
<1>7. Readied(w, rnd, "sem", NoThread)
  BY <1>a, ThreadFinite DEF Init, Readied, Owed, Took, Again
<1>8. Woken(w, rnd)
  <2>1. \A t \in Thread : Waking(t) = {}
    BY DEF Init, Waking
  <2>2. \A t \in Thread : Cardinality(Waking(t)) = 0
    BY <2>1, FS_EmptySet
  <2>3. \A t \in Thread : Awake(t) = 0 /\ work_ready[t] = 0
    BY DEF Init, Awake, Doing, Encoding, Dropping
  <2> QED BY <1>a, <2>2, <2>3 DEF Woken
<1>9. Permits(w, rnd, {})
  <2>1. Cardinality({}) = 0
    BY FS_EmptySet
  <2> QED BY <1>a, <2>1 DEF Init, Permits
<1> QED BY <1>0, <1>1, <1>2, <1>3, <1>4, <1>5, <1>6, <1>7, <1>8, <1>9
        DEF RoundsInv

(* How the rounds of two consecutive states are related.                   *)
Moves(cap, prep, rel, rnd, tok, lead, cap2, prep2, rel2, rnd2, tok2, lead2) ==
  /\ \A t \in Thread : rnd[t] <= rnd2[t]
  /\ cap2 # cap => cap2 = cap + 1 /\ prep = cap + 1 /\ prep2 = prep
  /\ prep2 # prep =>
       /\ prep = cap /\ prep2 = cap + 1 /\ cap2 = cap
       /\ \E t \in Thread : pc[t] = "quality"
  /\ rel2 # rel => Work_params
  /\ lead # NoThread /\ prep2 = prep => lead2 = lead
  /\ tok = "lead" /\ prep2 = prep =>
       tok2 = "lead" \/ \E t \in Thread : pc[t] = "skip_release"

(* The next state has rounds that follow these.                            *)
Follows(cap, prep, rel, rnd, tok, lead) ==
  \E cap2, prep2, rel2, rnd2, tok2, lead2, held2 :
    /\ RoundsInv(cap2, prep2, rel2, rnd2, tok2, lead2, held2)'
    /\ Moves(cap, prep, rel, rnd, tok, lead,
             cap2, prep2, rel2, rnd2, tok2, lead2)

(* The same rounds follow themselves.                                      *)
LEMMA StaySame ==
  ASSUME NEW cap, NEW prep, NEW rel, NEW rnd, NEW tok, NEW lead, NEW held,
         RoundsInv(cap, prep, rel, rnd, tok, lead, held),
         NEW held2, RoundsInv(cap, prep, rel, rnd, tok, lead, held2)'
  PROVE  Follows(cap, prep, rel, rnd, tok, lead)
<1>1. Moves(cap, prep, rel, rnd, tok, lead, cap, prep, rel, rnd, tok, lead)
  BY DEF RoundsInv, Ghosts, Moves
<1> QED BY <1>1 DEF Follows

(* Rounds that only change who acts.                                       *)
LEMMA StayRounds ==
  ASSUME NEW cap, NEW prep, NEW rel, NEW rnd, NEW tok, NEW lead, NEW held,
         RoundsInv(cap, prep, rel, rnd, tok, lead, held),
         NEW tok2, NEW lead2,
         RoundsInv(cap, prep, rel, rnd, tok2, lead2, held)',
         lead = NoThread \/ lead2 = lead,
         tok # "lead" \/ tok2 = tok \/ \E t \in Thread : pc[t] = "skip_release"
  PROVE  Follows(cap, prep, rel, rnd, tok, lead)
<1>1. Moves(cap, prep, rel, rnd, tok, lead, cap, prep, rel, rnd, tok2, lead2)
  BY DEF RoundsInv, Ghosts, Moves
<1> QED BY <1>1 DEF Follows

(* One thread that goes on to its next round.                              *)
LEMMA StayThread ==
  ASSUME NEW cap, NEW prep, NEW rel, NEW rnd, NEW tok, NEW lead, NEW held,
         RoundsInv(cap, prep, rel, rnd, tok, lead, held), NEW t \in Thread,
         NEW next, next = [rnd EXCEPT ![t] = @ + 1],
         RoundsInv(cap, prep, rel, next, tok, lead, held)'
  PROVE  Follows(cap, prep, rel, rnd, tok, lead)
<1>1. \A u \in Thread : rnd[u] <= next[u]
  BY DEF RoundsInv, Ghosts
<1>2. Moves(cap, prep, rel, rnd, tok, lead, cap, prep, rel, next, tok, lead)
  BY <1>1 DEF Moves
<1> QED BY <1>2 DEF Follows

(* Every step of a work thread keeps the rounds.                           *)
LEMMA RoundsWorker ==
  ASSUME TypeOK, NEW t \in Thread, Worker(t),
         NEW cap, NEW prep, NEW rel, NEW rnd, NEW tok, NEW lead, NEW held,
         RoundsInv(cap, prep, rel, rnd, tok, lead, held)
  PROVE  Follows(cap, prep, rel, rnd, tok, lead)
<1>b. Ghosts(cap, prep, rel, rnd, tok, lead)
  BY DEF RoundsInv
<1>1. CASE Thread_ready_acquire(t)
  BY <1>1, ThreadReadyAcquire, StaySame
<1>2. CASE Work_ready_acquire(t)
  <2>1. CASE Claims(wi[t])
    BY <1>2, <2>1, WorkReadyAcquireFirst, StayRounds
  <2>2. CASE ~Claims(wi[t])
    BY <1>2, <2>2, WorkReadyAcquireOther, StaySame
  <2> QED BY <2>1, <2>2
<1>3. CASE Init_bctx(t)
  BY <1>3, InitBctx, StaySame
<1>4. CASE Skip_frame(t)
  BY <1>4, SkipFrame, StaySame
<1>5. CASE Skip_frame_release(t)
  BY <1>5, SkipFrameRelease, StayRounds DEF Skip_frame_release
<1>6. CASE Flags_release(t)
  BY <1>6, FlagsRelease, StaySame
<1>7. CASE Quality_work_acquire(t)
  <2>1. /\ prep = cap
        /\ RoundsInv(cap, cap + 1, rel, rnd, "enc", NoThread,
                     held \cup {cap})'
    BY <1>7, QualityWorkAcquire
  <2>2. Moves(cap, prep, rel, rnd, tok, lead,
              cap, cap + 1, rel, rnd, "enc", NoThread)
    BY <1>b, <1>7, <2>1 DEF Moves, Ghosts, Quality_work_acquire
  <2> QED BY <2>1, <2>2 DEF Follows
<1>8. CASE Work_ready_release(t)
  BY <1>8, WorkReadyRelease, StaySame
<1>9. CASE Other_acquire(t)
  BY <1>9, OtherAcquire, StaySame
<1>10. CASE Pre_progress(t)
  BY <1>10, PreProgress, StaySame
<1>11. CASE Work_index_next_wrapped(t)
  <2>1. RoundsInv(cap + 1, prep, rel, rnd, "post", lead, held)'
    BY <1>11, WorkIndexNext
  <2>2. prep = cap + 1 /\ tok = "enc"
    BY <1>b, <1>11 DEF Work_index_next_wrapped, RoundsInv, Rounds, Phase
  <2>3. Moves(cap, prep, rel, rnd, tok, lead,
              cap + 1, prep, rel, rnd, "post", lead)
    BY <1>b, <2>2 DEF Moves, Ghosts
  <2> QED BY <2>1, <2>3 DEF Follows
<1>12. CASE Screen_ready_release(t)
  <2>1. tok = "post"
    BY <1>12 DEF Screen_ready_release, RoundsInv, Rounds
  <2> QED BY <1>12, <2>1, ScreenReadyRelease, StayRounds
<1>13. CASE Drop_count(t)
  <2>1. CASE Last_done(wi[t])
    BY <1>13, <2>1, DropCountLast, StaySame
  <2>2. CASE ~Last_done(wi[t])
    <3>1. RoundsInv(cap, prep, rel, [rnd EXCEPT ![t] = @ + 1], tok, lead,
                    held)'
      BY <1>13, <2>2, DropCountOther
    <3> QED BY <3>1, StayThread
  <2> QED BY <2>1, <2>2
<1>14. CASE Drop_term_dsts(t)
  BY <1>14, DropTermDsts, StaySame
<1>15. CASE Drop_flag(t)
  BY <1>15, DropFlag, StaySame
<1>16. CASE Quality_work_release(t)
  <2>1. RoundsInv(cap, prep, rel, rnd, tok, lead, held \ {rnd[t]})'
    BY <1>16, QualityWorkRelease
  <2> QED BY <2>1, StaySame
<1>17. CASE Drop_work_done(t)
  <2>1. RoundsInv(cap, prep, rel, [rnd EXCEPT ![t] = @ + 1], tok, lead,
                  held)'
    BY <1>17, DropWorkDone
  <2> QED BY <2>1, StayThread
<1>18. CASE \/ Dma_sync(t) \/ Encode_frame(t) \/ Nwm_done_acquire(t)
            \/ Nwm_ready_release(t) \/ Frame_release(t) \/ Quality_flag(t)
            \/ Quality_done(t) \/ Send_frame(t) \/ Term(t) \/ Term_signal(t)
            \/ Encoded(t) \/ Give_up(t)
  <2>1. \E b : Goto(t, b) /\ Plain_move(pc[t], b)
    BY <1>18
       DEF Dma_sync, Encode_frame, Nwm_done_acquire, Nwm_ready_release,
           Frame_release, Quality_flag, Quality_done, Send_frame, Term,
           Term_signal, Encoded, Give_up, Plain_move
  <2>2. UNCHANGED <<screen_ready, work_done, thread_ready, work_ready,
                    work_ready_flag, work_done_count, work_done_flag,
                    should_capture, params, wi, cursor, screen,
                    quality_can_update, taken, upc>>
    BY <1>18
       DEF Dma_sync, Encode_frame, Nwm_done_acquire, Nwm_ready_release,
           Frame_release, Quality_flag, Quality_done, Send_frame, Term,
           Term_signal, Encoded, Give_up, sems, works, quality
  <2>3. RoundsInv(cap, prep, rel, rnd, tok, lead, held)'
    BY <2>1, <2>2, PlainMove
  <2> QED BY <2>3, StaySame
<1> QED BY <1>1, <1>2, <1>3, <1>4, <1>5, <1>6, <1>7, <1>8, <1>9, <1>10,
           <1>11, <1>12, <1>13, <1>14, <1>15, <1>16, <1>17, <1>18 DEF Worker

(* So does every step of the screen thread.                                *)
LEMMA RoundsScreen ==
  ASSUME TypeOK, Screen_thread,
         NEW cap, NEW prep, NEW rel, NEW rnd, NEW tok, NEW lead, NEW held,
         RoundsInv(cap, prep, rel, rnd, tok, lead, held)
  PROVE  Follows(cap, prep, rel, rnd, tok, lead)
<1>b. Ghosts(cap, prep, rel, rnd, tok, lead)
  BY DEF RoundsInv
<1>1. CASE Screen_ready_acquire
  <2>1. tok = "sem"
    <3>1. screen_ready = 1
      BY <1>1 DEF Screen_ready_acquire, TypeOK
    <3> QED BY <3>1 DEF RoundsInv, Phase
  <2> QED BY <1>1, <2>1, ScreenReadyAcquire, StayRounds
<1>2. CASE Work_done_flag
  BY <1>2, WorkDoneFlag, StaySame
<1>3. CASE Work_done_acquire
  BY <1>3, WorkDoneAcquire, StaySame
<1>4. CASE Work_done_flag_set
  BY <1>4, WorkDoneFlagSet, StaySame
<1>5. CASE \E s \in CAPTURED : Capture_screen(s)
  BY <1>5, CaptureScreen, StaySame
<1>6. CASE Work_params
  <2>1. RoundsInv(cap, prep, cap + 1, rnd, "lead", lead, held)'
    BY <1>6, WorkParams
  <2>2. Moves(cap, prep, rel, rnd, tok, lead,
              cap, prep, cap + 1, rnd, "lead", lead)
    BY <1>b, <1>6 DEF Moves, Ghosts
  <2> QED BY <2>1, <2>2 DEF Follows
<1>7. CASE Thread_ready_release
  BY <1>7, ThreadReadyRelease, StaySame
<1>8. CASE Screen_give_up
  <2>1. UNCHANGED <<screen_ready, work_done, thread_ready, work_ready,
                    work_ready_flag, work_done_count, work_done_flag,
                    should_capture, work_index, thread_index, skip_frames,
                    pc, wi, cursor, sw, srel, quality_can_update, taken,
                    upc>>
    BY <1>8 DEF Screen_give_up, workers_unchanged, sems, works, params,
                worker, quality
  <2>2. Permits(prep, rnd, held)' /\ spc' = "exited"
    BY <1>8, <2>1 DEF RoundsInv, Permits, Screen_give_up
  <2>3. RoundsInv(cap, prep, rel, rnd, tok, lead, held)'
    BY <2>1, <2>2, Untouched
  <2> QED BY <2>3, StaySame
<1> QED BY <1>1, <1>2, <1>3, <1>4, <1>5, <1>6, <1>7, <1>8 DEF Screen_thread

(* So does every step.                                                     *)
LEMMA RoundsNext ==
  ASSUME TypeOK, [Next]_vars,
         NEW cap, NEW prep, NEW rel, NEW rnd, NEW tok, NEW lead, NEW held,
         RoundsInv(cap, prep, rel, rnd, tok, lead, held)
  PROVE  Follows(cap, prep, rel, rnd, tok, lead)
<1>1. CASE \E t \in Thread : Worker(t)
  BY <1>1, RoundsWorker
<1>2. CASE Screen_thread
  BY <1>2, RoundsScreen
<1>3. CASE Update_quality \/ Update_rest
  BY <1>3, UpdatePermits, StaySame
<1>4. CASE \/ \E w \in Work : Dma_done(w)
           \/ Nwm_thread \/ Set_reset_threads \/ UNCHANGED vars
  <2>2. UNCHANGED <<screen_ready, work_done, thread_ready, work_ready,
                    work_ready_flag, work_done_count, work_done_flag,
                    should_capture, work_index, thread_index, skip_frames,
                    pc, wi, cursor, spc, sw, srel, quality_can_update,
                    taken, upc>>
    BY <1>4
       DEF Dma_done, Nwm_thread, Nwm_ready_acquire, Send_next_buffer,
           Nwm_idle, Nwm_event, Nwm_done_release, Nwm_give_up, nwm_frame,
           Set_reset_threads, vars, sems, works, params, worker, screen,
           quality
  <2>3. Permits(prep, rnd, held)'
    BY <2>2 DEF RoundsInv, Permits
  <2>4. RoundsInv(cap, prep, rel, rnd, tok, lead, held)'
    BY <2>2, <2>3, Untouched
  <2> QED BY <2>4, StaySame
<1> QED BY <1>1, <1>2, <1>3, <1>4 DEF Next

(* In every run the threads stay within WORK_COUNT rounds of each other    *)
(* and every round has one owner at a time.                                *)
THEOREM RoundsAlways == Spec => []RoundsHold
<1>1. Init => RoundsHold
  <2> SUFFICES ASSUME Init PROVE RoundsHold
    OBVIOUS
  <2> QED BY RoundsInit DEF RoundsHold
<1>2. TypeOK /\ RoundsHold /\ [Next]_vars => RoundsHold'
  <2> SUFFICES ASSUME TypeOK, RoundsHold, [Next]_vars PROVE RoundsHold'
    OBVIOUS
  <2>1. PICK cap, prep, rel, rnd, tok, lead, held :
          RoundsInv(cap, prep, rel, rnd, tok, lead, held)
    BY DEF RoundsHold
  <2>2. Follows(cap, prep, rel, rnd, tok, lead)
    BY <2>1, RoundsNext
  <2> QED BY <2>2 DEF Follows, RoundsHold
<1> QED BY <1>1, <1>2, TypeCorrect, PTL DEF Spec

-----------------------------------------------------------------------------
(***************************************************************************)
(* What the rounds say of the properties of FramePipeline.                 *)
(***************************************************************************)

(* A leader and any other thread on its work are in the same round, which  *)
(* is not prepared yet.                                                    *)
LEMMA RoundsLeaderAlone ==
  ASSUME TypeOK, RoundsHold
  PROVE  LeaderAlone
<1> SUFFICES ASSUME NEW t \in Thread, NEW u \in Thread, t # u,
                    pc[t] \in Leading \ {"work_ready"}, wi[u] = wi[t]
             PROVE  pc[u] \in {"thread_ready", "claim", "other", "exited"}
  BY DEF LeaderAlone
<1>a. PICK cap, prep, rel, rnd, tok, lead, held :
        RoundsInv(cap, prep, rel, rnd, tok, lead, held)
  BY DEF RoundsHold
<1>b. Ghosts(cap, prep, rel, rnd, tok, lead) /\ pc[u] \in Control
  BY <1>a DEF RoundsInv, TypeOK
<1>1. t = lead /\ lead # NoThread
  BY <1>a, ThreadFinite DEF RoundsInv, Rounds, Preparing
<1>2. rnd[t] = cap /\ rel = cap + 1 /\ prep = cap /\ cap \in Nat
  BY <1>a, <1>b, <1>1 DEF RoundsInv, Rounds, Phase, Ghosts
<1>3. /\ Slot(rnd[u]) = Slot(cap) /\ rnd[u] \in Nat
      /\ rel <= rnd[u] + WORK_COUNT /\ rnd[u] <= cap
  BY <1>a, <1>b, <1>2 DEF RoundsInv, Rounds, Ghosts
<1>4. rnd[u] = cap
  BY <1>2, <1>3, SlotInjective, ConstantsAssumption
<1>5. pc[u] \notin Doing /\ pc[u] \notin Preparing
  BY <1>a, <1>1, <1>2, <1>4 DEF RoundsInv, Rounds
<1> QED BY <1>b, <1>5 DEF Control, Doing, Preparing

(* The screen thread's work is free, and stays so until it is handed over. *)
LEMMA RoundsScreenOwnsWork ==
  ASSUME TypeOK, RoundsHold
  PROVE  ScreenOwnsWork
<1> SUFFICES ASSUME spc \in {"done_flag", "capture", "params"}
             PROVE  /\ work_index = sw
                    /\ \A t \in Thread :
                         wi[t] = sw => pc[t] \in {"thread_ready", "claim",
                                         "other", "skip_wait", "exited"}
  BY DEF ScreenOwnsWork
<1>a. PICK cap, prep, rel, rnd, tok, lead, held :
        RoundsInv(cap, prep, rel, rnd, tok, lead, held)
  BY DEF RoundsHold
<1>b. Ghosts(cap, prep, rel, rnd, tok, lead)
  BY <1>a DEF RoundsInv
<1>1. /\ sw = Slot(cap) /\ work_index = Slot(cap) /\ tok = "screen"
      /\ prep = cap /\ Freed(cap, rnd) /\ cap \in Nat
  BY <1>a, <1>b DEF RoundsInv, Phase, Works, Capturing, Ghosts
<1>2. ASSUME NEW t \in Thread, wi[t] = sw
      PROVE  pc[t] \in {"thread_ready", "claim", "other", "skip_wait",
                        "exited"}
  <2>1. /\ Slot(rnd[t]) = Slot(cap) /\ rnd[t] \in Nat /\ rnd[t] <= cap
        /\ cap < rnd[t] + WORK_COUNT
    BY <1>a, <1>b, <1>1, <1>2, ConstantsAssumption
       DEF RoundsInv, Rounds, Freed, Ghosts
  <2>2. rnd[t] = cap
    BY <1>1, <2>1, SlotInjective
  <2>3. pc[t] \notin Doing /\ pc[t] \notin Preparing \ {"skip_wait"}
    BY <1>a, <1>1, <2>2 DEF RoundsInv, Rounds
  <2>4. pc[t] \in Control
    BY DEF TypeOK
  <2> QED BY <2>3, <2>4 DEF Control, Doing, Preparing
<1> QED BY <1>1, <1>2

(* With all permits taken no round is left that holds one.                 *)
LEMMA RoundsTablesStable ==
  ASSUME TypeOK, RoundsHold
  PROVE  TablesStable
<1> SUFFICES ASSUME upc = "write", NEW t \in Thread,
                    pc[t] \in {"work_ready", "start", "drop_flag"}
                                \cup Encoding
             PROVE  FALSE
  BY DEF TablesStable
<1>a. PICK cap, prep, rel, rnd, tok, lead, held :
        RoundsInv(cap, prep, rel, rnd, tok, lead, held)
  BY DEF RoundsHold
<1>b. /\ Ghosts(cap, prep, rel, rnd, tok, lead)
      /\ quality_can_update \in Nat /\ taken \in Nat
  BY <1>a, ConstantsAssumption DEF RoundsInv, TypeOK
<1>1. /\ held \subseteq 0 .. prep - 1 /\ prep \in Nat
      /\ Cardinality(held) + quality_can_update + taken <= WORK_COUNT
      /\ taken = WORK_COUNT
  BY <1>a, <1>b DEF RoundsInv, Permits, Ghosts
<1>2. IsFiniteSet(held) /\ Cardinality(held) \in Nat
  BY <1>1, HeldFinite
<1>3. Cardinality(held) = 0
  BY <1>b, <1>1, <1>2, ConstantsAssumption
<1>4. held = {}
  BY <1>2, <1>3, FS_EmptySet
<1>5. rnd[t] \in Nat /\ rnd[t] < prep
  BY <1>a, Current DEF Doing, Dropping
<1>6. rnd[t] \in held
  BY <1>a, <1>1, <1>5 DEF RoundsInv, Permits, Encoding
<1> QED BY <1>4, <1>6

(* A leader prepares its frame alone, however the work indices of the      *)
(* threads have wrapped: init_bctx, the packet header and the rows are     *)
(* written while nobody reads them.                                        *)
THEOREM LeaderAlways == Spec => []LeaderAlone
<1>1. TypeOK /\ RoundsHold => LeaderAlone
  BY RoundsLeaderAlone
<1> QED BY <1>1, TypeCorrect, RoundsAlways, PTL

(* After work_done_acquire the screen thread has its work to itself, and   *)
(* reads the same work index again in try_capture_screen.                  *)
THEOREM ScreenAlways == Spec => []ScreenOwnsWork
<1>1. TypeOK /\ RoundsHold => ScreenOwnsWork
  BY RoundsScreenOwnsWork
<1> QED BY <1>1, TypeCorrect, RoundsAlways, PTL

(* jpeg_update_quality writes the tables only while no frame is between    *)
(* taking and giving back its permit.                                      *)
THEOREM TablesAlways == Spec => []TablesStable
<1>1. TypeOK /\ RoundsHold => TablesStable
  BY RoundsTablesStable
<1> QED BY <1>1, TypeCorrect, RoundsAlways, PTL

-----------------------------------------------------------------------------
(***************************************************************************)
(* What is in the buffers, from the rounds: a thread encodes the frame its *)
(* leader prepared, from the buffer that was captured, which no DMA writes *)
(* into meanwhile; the nwm thread finds rows of one frame under each header*)
(* and sends the frames in order; and no semaphore is released when it is  *)
(* full.                                                                   *)
(***************************************************************************)

(* Between taking the context of its work and counting itself out.         *)
Reading == Encoding \cup {"encoded", "count", "drop_count"}

(* The order in which a work thread comes to the control points that       *)
(* matter here: b is reached from a.                                       *)
Edge(a, b) ==
  /\ b = "init_bctx" => a \in {"claim", "skip_wait"}
  /\ b = "dma_sync" => a = "init_bctx"
  /\ b = "skip_frame" => a = "dma_sync"
  /\ b = "skip_release" => a = "skip_frame"
  /\ b = "skip_wait" => a = "skip_release"
  /\ b = "nwm_done" => a = "skip_frame"
  /\ b = "nwm_ready" => a = "nwm_done"
  /\ b = "frame" => a = "nwm_ready" \/ (RELIABLE /\ a = "skip_frame")
  /\ b = "flags" => a = "frame"
  /\ b = "quality_flag" => a = "flags"
  /\ b = "quality_done" => a = "quality_flag"
  /\ b = "quality" => a \in {"quality_flag", "quality_done"}
  /\ b \in Reading => a \in Reading \cup {"start"}

(* A step of a work thread moves that thread along an edge, and nobody     *)
(* else.                                                                   *)
LEMMA WorkerEdge ==
  ASSUME TypeOK, NEW t \in Thread, Worker(t)
  PROVE  /\ Edge(pc[t], pc'[t])
         /\ pc'[t] = "skip_frame" => Dma_ended(wi[t])
         /\ (wi'[t] = wi[t] /\ (pc[t] = "start" \/ job'[t] = job[t]))
              \/ pc'[t] = "thread_ready"
         /\ \A u \in Thread : u # t =>
              pc'[u] = pc[u] /\ wi'[u] = wi[u] /\ job'[u] = job[u]
<1>a. /\ pc \in [Thread -> Control] /\ wi \in [Thread -> Work]
      /\ job \in [Thread -> Frame \cup {NoFrame}]
  BY DEF TypeOK
<1> USE DEF Edge, Goto, Reading, Encoding
<1>1. CASE Thread_ready_acquire(t) \/ Work_ready_acquire(t) \/ Init_bctx(t)
  BY <1>a, <1>1 DEF Thread_ready_acquire, Work_ready_acquire, Init_bctx
<1>2. CASE Dma_sync(t) \/ Skip_frame(t) \/ Skip_frame_release(t)
  BY <1>a, <1>2 DEF Dma_sync, Skip_frame, Skip_frame_release
<1>3. CASE Encode_frame(t) \/ Nwm_done_acquire(t) \/ Nwm_ready_release(t)
  BY <1>a, <1>3 DEF Encode_frame, Nwm_done_acquire, Nwm_ready_release
<1>4. CASE Frame_release(t) \/ Flags_release(t) \/ Quality_flag(t)
  BY <1>a, <1>4 DEF Frame_release, Flags_release, Quality_flag
<1>5. CASE Quality_done(t) \/ Quality_work_acquire(t) \/ Work_ready_release(t)
  BY <1>a, <1>5 DEF Quality_done, Quality_work_acquire, Work_ready_release
<1>6. CASE Other_acquire(t) \/ Pre_progress(t)
  BY <1>a, <1>6 DEF Other_acquire, Pre_progress
<1>7. CASE Send_frame(t)
  BY <1>a, <1>7 DEF Send_frame
<1>8. CASE Work_index_next_wrapped(t) \/ Screen_ready_release(t) \/ Term(t)
  BY <1>a, <1>8 DEF Work_index_next_wrapped, Screen_ready_release, Term
<1>9. CASE Term_signal(t) \/ Encoded(t)
  BY <1>a, <1>9 DEF Term_signal, Encoded
<1>10. CASE Drop_count(t)
  BY <1>a, <1>10 DEF Drop_count, Next_work
<1>11. CASE Drop_term_dsts(t) \/ Drop_flag(t) \/ Quality_work_release(t)
  BY <1>a, <1>11 DEF Drop_term_dsts, Drop_flag, Quality_work_release
<1>12. CASE Drop_work_done(t)
  BY <1>a, <1>12 DEF Drop_work_done, Next_work
<1>13. CASE Give_up(t)
  BY <1>a, <1>13 DEF Give_up
<1> QED BY <1>1, <1>2, <1>3, <1>4, <1>5, <1>6, <1>7, <1>8, <1>9, <1>10,
           <1>11, <1>12, <1>13 DEF Worker

(* Which steps of a work thread write the buffers.                         *)
LEMMA WorkerEffect ==
  ASSUME NEW t \in Thread, Worker(t)
  PROVE  /\ Init_bctx(t) \/ UNCHANGED bctx
         /\ Nwm_done_acquire(t) \/ UNCHANGED <<nwm_done, hdr>>
         /\ Nwm_done_acquire(t) \/ Term(t) \/ UNCHANGED data
         /\ Nwm_ready_release(t) \/ UNCHANGED nwm_ready
         /\ Frame_release(t) \/ UNCHANGED <<img_index, frame_ids>>
         /\ UNCHANGED <<dma, work_params, spc, sbuf, npc, nw, nt, sent>>
<1> USE DEF sems, works, params, imgs, screen, nwm
<1>1. CASE Thread_ready_acquire(t) \/ Work_ready_acquire(t) \/ Init_bctx(t)
  BY <1>1 DEF Thread_ready_acquire, Work_ready_acquire, Init_bctx
<1>2. CASE Dma_sync(t) \/ Skip_frame(t) \/ Skip_frame_release(t)
  BY <1>2 DEF Dma_sync, Skip_frame, Skip_frame_release
<1>3. CASE Encode_frame(t) \/ Nwm_done_acquire(t) \/ Nwm_ready_release(t)
  BY <1>3 DEF Encode_frame, Nwm_done_acquire, Nwm_ready_release
<1>4. CASE Frame_release(t) \/ Flags_release(t) \/ Quality_flag(t)
  BY <1>4 DEF Frame_release, Flags_release, Quality_flag
<1>5. CASE Quality_done(t) \/ Quality_work_acquire(t) \/ Work_ready_release(t)
  BY <1>5 DEF Quality_done, Quality_work_acquire, Work_ready_release
<1>6. CASE Other_acquire(t) \/ Send_frame(t) \/ Pre_progress(t)
  BY <1>6 DEF Other_acquire, Send_frame, Pre_progress
<1>7. CASE Work_index_next_wrapped(t) \/ Screen_ready_release(t) \/ Term(t)
  BY <1>7 DEF Work_index_next_wrapped, Screen_ready_release, Term
<1>8. CASE Term_signal(t) \/ Encoded(t) \/ Drop_count(t)
  BY <1>8 DEF Term_signal, Encoded, Drop_count
<1>9. CASE Drop_term_dsts(t) \/ Drop_flag(t) \/ Quality_work_release(t)
  BY <1>9 DEF Drop_term_dsts, Drop_flag, Quality_work_release
<1>10. CASE Drop_work_done(t) \/ Give_up(t)
  BY <1>10 DEF Drop_work_done, Give_up
<1> QED BY <1>1, <1>2, <1>3, <1>4, <1>5, <1>6, <1>7, <1>8, <1>9, <1>10
        DEF Worker

(* The steps of everybody else.                                            *)
Others ==
  \/ Screen_thread \/ (\E w \in Work : Dma_done(w)) \/ Nwm_thread
  \/ Update_quality \/ Update_rest \/ Set_reset_threads \/ UNCHANGED vars

(* Which of them write the buffers, or start a DMA.                        *)
LEMMA OtherEffect ==
  ASSUME TypeOK, Others
  PROVE  /\ UNCHANGED <<bctx, hdr, data, pc, wi, job, img_index, frame_ids>>
         /\ \/ \E s \in CAPTURED : Capture_screen(s)
            \/ /\ UNCHANGED sbuf /\ (spc' = "params" => spc = "params")
               /\ \A w \in Work : dma'[w] \in {dma[w], NoDma}
         /\ Work_params \/ UNCHANGED work_params
         /\ Nwm_thread \/ UNCHANGED <<nwm_done, nwm_ready, npc, nw, nt, sent>>
<1> USE DEF sems, works, params, imgs, worker, screen, nwm, workers_unchanged
<1>1. CASE Screen_ready_acquire \/ Work_done_flag \/ Work_done_acquire
  BY <1>1 DEF Screen_ready_acquire, Work_done_flag, Work_done_acquire
<1>2. CASE Work_done_flag_set \/ Screen_give_up \/ Work_params
  BY <1>2 DEF Work_done_flag_set, Screen_give_up, Work_params
<1>3. CASE \E s \in CAPTURED : Capture_screen(s)
  BY <1>3 DEF Capture_screen
<1>4. CASE Thread_ready_release
  BY <1>4 DEF Thread_ready_release
<1>5. CASE \E w \in Work : Dma_done(w)
  <2>1. dma \in [Work -> Buffer \cup {NoDma}]
    BY DEF TypeOK
  <2> QED BY <1>5, <2>1 DEF Dma_done
<1>6. CASE Nwm_thread
  BY <1>6 DEF Nwm_thread, Nwm_ready_acquire, Send_next_buffer, Nwm_idle,
              Nwm_event, Nwm_done_release, Nwm_give_up, nwm_frame
<1>7. CASE Update_quality \/ Update_rest
  BY <1>7 DEF Update_quality, Update_rest, Update_need, Update_take,
              Update_write, Update_clear, Update_signal, Update_give_up,
              quality_frame
<1>8. CASE Set_reset_threads \/ UNCHANGED vars
  BY <1>8 DEF Set_reset_threads, vars
<1> QED BY <1>1, <1>2, <1>3, <1>4, <1>5, <1>6, <1>7, <1>8
        DEF Others, Screen_thread

(* A step is one of a work thread or one of the others.                    *)
LEMMA NextSplit ==
  ASSUME [Next]_vars
  PROVE  (\E t \in Thread : Worker(t)) \/ Others
BY DEF Next, Others

-----------------------------------------------------------------------------
(* The context of a work is written by its leader, alone.                  *)
LEMMA SameFrameNext ==
  ASSUME TypeOK, LeaderAlone, SameFrame, [Next]_vars
  PROVE  SameFrame'
<1> SUFFICES ASSUME NEW u \in Thread, pc'[u] \in Reading
             PROVE  bctx'[wi'[u]] = job'[u]
  BY DEF SameFrame, Reading
<1>a. pc[u] \in Reading => bctx[wi[u]] = job[u]
  BY DEF SameFrame, Reading
<1>b. /\ bctx \in [Work -> Frame] /\ wi \in [Thread -> Work]
      /\ job \in [Thread -> Frame \cup {NoFrame}]
      /\ pc \in [Thread -> Control]
  BY DEF TypeOK
<1>1. CASE Others
  BY <1>a, <1>1, OtherEffect
<1>2. ASSUME NEW t \in Thread, Worker(t)
      PROVE  bctx'[wi'[u]] = job'[u]
  <2>1. CASE u # t
    <3>1. pc'[u] = pc[u] /\ wi'[u] = wi[u] /\ job'[u] = job[u]
      BY <1>2, <2>1, WorkerEdge
    <3>2. CASE Init_bctx(t)
      <4>1. wi[u] # wi[t]
        BY <2>1, <3>1, <3>2
           DEF Init_bctx, LeaderAlone, Leading, Reading, Encoding
      <4>2. bctx'[wi[u]] = bctx[wi[u]]
        BY <1>b, <3>2, <4>1 DEF Init_bctx
      <4> QED BY <1>a, <3>1, <4>2
    <3> QED BY <1>a, <1>2, <3>1, <3>2, WorkerEffect
  <2>2. CASE u = t /\ Send_frame(t)
    BY <1>b, <2>2 DEF Send_frame, Goto, Reading, Encoding, works
  <2>3. CASE u = t /\ ~Send_frame(t)
    <3>1. ~Init_bctx(t)
      BY <1>b, <2>3 DEF Init_bctx, Goto, Reading, Encoding
    <3>2. UNCHANGED bctx
      BY <1>2, <3>1, WorkerEffect
    <3>3. pc[t] # "start"
      BY <1>2, <2>3
         DEF Worker, Thread_ready_acquire, Work_ready_acquire, Init_bctx,
             Dma_sync, Skip_frame, Skip_frame_release, Encode_frame,
             Nwm_done_acquire, Nwm_ready_release, Frame_release,
             Flags_release, Quality_flag, Quality_done,
             Quality_work_acquire, Work_ready_release, Other_acquire,
             Pre_progress, Work_index_next_wrapped, Screen_ready_release,
             Term, Term_signal, Encoded, Drop_count, Drop_term_dsts,
             Drop_flag, Quality_work_release, Drop_work_done, Give_up,
             Waiting, Encoding
    <3>4. pc[t] \in Reading /\ wi'[t] = wi[t] /\ job'[t] = job[t]
      BY <1>2, <2>3, <3>3, WorkerEdge DEF Edge, Reading, Encoding
    <3> QED BY <1>a, <2>3, <3>2, <3>4
  <2> QED BY <2>1, <2>2, <2>3
<1> QED BY <1>1, <1>2, NextSplit

(* A slow thread never finds the context of another frame in its work.     *)
THEOREM SameFrameAlways == Spec => []SameFrame
<1>1. Init => SameFrame
  BY DEF Init, SameFrame, Encoding
<1>2. TypeOK /\ LeaderAlone /\ SameFrame /\ [Next]_vars => SameFrame'
  BY SameFrameNext
<1> QED BY <1>1, <1>2, TypeCorrect, LeaderAlways, PTL DEF Spec

-----------------------------------------------------------------------------
(***************************************************************************)
(* No permit is lost.  Each work has one token of the nwm thread: in       *)
(* nwm_done, in nwm_ready, with the nwm thread, or with the leader.        *)
(***************************************************************************)
Sending(w) ==
  IF nw = w /\ npc \in {"send", "event", "done"} THEN 1 ELSE 0

NwmToken ==
  /\ \A w \in Work : nwm_done[w] + nwm_ready[w] + Sending(w) <= 1
  /\ \A t \in Thread :
       pc[t] = "nwm_ready" =>
         nwm_done[wi[t]] = 0 /\ nwm_ready[wi[t]] = 0 /\ Sending(wi[t]) = 0

(* The leader passes the token on.                                         *)
LEMMA NwmTokenWorker ==
  ASSUME TypeOK, LeaderAlone, NwmToken, NEW t \in Thread, Worker(t)
  PROVE  NwmToken'
<1>a. /\ pc \in [Thread -> Control] /\ wi \in [Thread -> Work]
      /\ nwm_done \in [Work -> 0 .. 1] /\ nwm_ready \in [Work -> 0 .. 1]
  BY DEF TypeOK
<1>b. \A w : Sending(w)' = Sending(w) /\ Sending(w) \in {0, 1}
  BY WorkerEffect DEF Sending
<1>c. /\ Edge(pc[t], pc'[t])
      /\ wi'[t] = wi[t] \/ pc'[t] = "thread_ready"
      /\ \A u \in Thread : u # t => pc'[u] = pc[u] /\ wi'[u] = wi[u]
  BY WorkerEdge
<1>1. CASE Nwm_done_acquire(t)
  <2>1. /\ pc[t] = "nwm_done" /\ nwm_done[wi[t]] > 0 /\ pc'[t] = "nwm_ready"
        /\ nwm_done' = [nwm_done EXCEPT ![wi[t]] = @ - 1]
        /\ nwm_ready' = nwm_ready /\ wi' = wi
    BY <1>a, <1>1 DEF Nwm_done_acquire, Goto
  <2>2. ASSUME NEW u \in Thread, u # t, pc[u] = "nwm_ready"
        PROVE  wi[u] # wi[t]
    BY <2>1, <2>2 DEF LeaderAlone, Leading
  <2>3. nwm_done'[wi[t]] = 0 /\ nwm_ready[wi[t]] = 0 /\ Sending(wi[t]) = 0
    BY <1>a, <1>b, <2>1 DEF NwmToken
  <2>4. ASSUME NEW w \in Work
        PROVE  nwm_done'[w] + nwm_ready'[w] + Sending(w)' <= 1
    BY <1>a, <1>b, <2>1, <2>3 DEF NwmToken
  <2>5. ASSUME NEW u \in Thread, pc'[u] = "nwm_ready"
        PROVE  /\ nwm_done'[wi'[u]] = 0 /\ nwm_ready'[wi'[u]] = 0
               /\ Sending(wi[u])' = 0
    <3>1. CASE u = t
      BY <1>b, <2>1, <2>3, <3>1
    <3>2. CASE u # t
      BY <1>a, <1>b, <1>c, <2>1, <2>2, <2>5, <3>2 DEF NwmToken
    <3> QED BY <3>1, <3>2
  <2> QED BY <2>1, <2>4, <2>5 DEF NwmToken, Sending
<1>2. CASE Nwm_ready_release(t)
  <2>1. /\ pc[t] = "nwm_ready" /\ pc'[t] = "frame"
        /\ nwm_ready' = [nwm_ready EXCEPT ![wi[t]] = Released(@, 1, 1)]
        /\ nwm_done' = nwm_done /\ wi' = wi
    BY <1>a, <1>2 DEF Nwm_ready_release, Goto
  <2>2. ASSUME NEW u \in Thread, u # t, pc[u] = "nwm_ready"
        PROVE  wi[u] # wi[t]
    BY <2>1, <2>2 DEF LeaderAlone, Leading
  <2>3. nwm_done[wi[t]] = 0 /\ nwm_ready[wi[t]] = 0 /\ Sending(wi[t]) = 0
    BY <2>1 DEF NwmToken
  <2>4. ASSUME NEW w \in Work
        PROVE  nwm_done'[w] + nwm_ready'[w] + Sending(w)' <= 1
    BY <1>a, <1>b, <2>1, <2>3 DEF NwmToken, Released
  <2>5. ASSUME NEW u \in Thread, pc'[u] = "nwm_ready"
        PROVE  /\ nwm_done'[wi'[u]] = 0 /\ nwm_ready'[wi'[u]] = 0
               /\ Sending(wi[u])' = 0
    BY <1>a, <1>b, <1>c, <2>1, <2>2, <2>5 DEF NwmToken
  <2> QED BY <2>1, <2>4, <2>5 DEF NwmToken, Sending
<1>3. CASE ~Nwm_done_acquire(t) /\ ~Nwm_ready_release(t)
  <2>1. UNCHANGED <<nwm_done, nwm_ready>>
    BY <1>3, WorkerEffect
  <2>2. pc'[t] # "nwm_ready"
    <3>1. pc'[t] = "nwm_ready" => pc[t] = "nwm_done"
      BY <1>c DEF Edge
    <3>2. pc[t] = "nwm_done" /\ ~Nwm_done_acquire(t) => Give_up(t)
      BY DEF Worker, Thread_ready_acquire, Work_ready_acquire, Init_bctx,
             Dma_sync, Skip_frame, Skip_frame_release, Encode_frame,
             Nwm_ready_release, Frame_release,
             Flags_release, Quality_flag, Quality_done,
             Quality_work_acquire, Work_ready_release, Other_acquire,
             Pre_progress, Work_index_next_wrapped, Screen_ready_release,
             Term, Term_signal, Encoded, Drop_count, Drop_term_dsts,
             Drop_flag, Quality_work_release, Drop_work_done, Send_frame
    <3>3. Give_up(t) => pc'[t] = "exited"
      BY <1>a DEF Give_up, Goto
    <3> QED BY <1>3, <3>1, <3>2, <3>3
  <2>3. ASSUME NEW u \in Thread, pc'[u] = "nwm_ready"
        PROVE  /\ nwm_done'[wi'[u]] = 0 /\ nwm_ready'[wi'[u]] = 0
               /\ Sending(wi[u])' = 0 /\ wi'[u] = wi[u]
    BY <1>b, <1>c, <2>1, <2>2, <2>3 DEF NwmToken
  <2> QED BY <1>b, <2>1, <2>3 DEF NwmToken, Sending
<1> QED BY <1>1, <1>2, <1>3

(* The nwm thread takes it and gives it back.                              *)
LEMMA NwmTokenNwm ==
  ASSUME TypeOK, NwmToken, Nwm_thread
  PROVE  NwmToken'
<1>a. /\ nwm_done \in [Work -> 0 .. 1] /\ nwm_ready \in [Work -> 0 .. 1]
      /\ nw \in Work /\ wi \in [Thread -> Work]
  BY DEF TypeOK
<1>b. UNCHANGED <<pc, wi>>
  BY DEF Nwm_thread, Nwm_ready_acquire, Send_next_buffer, Nwm_idle,
         Nwm_event, Nwm_done_release, Nwm_give_up, nwm_frame, worker
<1>1. CASE Nwm_ready_acquire
  BY <1>a, <1>b, <1>1 DEF Nwm_ready_acquire, NwmToken, Sending
<1>2. CASE Send_next_buffer \/ Nwm_idle \/ Nwm_event
  BY <1>a, <1>b, <1>2
     DEF Send_next_buffer, Nwm_idle, Nwm_event, NwmToken, Sending
<1>3. CASE Nwm_done_release
  BY <1>a, <1>b, <1>3
     DEF Nwm_done_release, NwmToken, Sending, Released, Need_syn
<1>4. CASE Nwm_give_up
  BY <1>a, <1>b, <1>4 DEF Nwm_give_up, NwmToken, Sending
<1> QED BY <1>1, <1>2, <1>3, <1>4 DEF Nwm_thread

(* There is never a second token for a work.                               *)
LEMMA NwmTokenAlways == Spec => []NwmToken
<1>1. Init => NwmToken
  BY DEF Init, NwmToken, Sending
<1>2. TypeOK /\ LeaderAlone /\ NwmToken /\ [Next]_vars => NwmToken'
  <2> SUFFICES ASSUME TypeOK, LeaderAlone, NwmToken, [Next]_vars
               PROVE  NwmToken'
    OBVIOUS
  <2>1. CASE \E t \in Thread : Worker(t)
    BY <2>1, NwmTokenWorker
  <2>2. CASE Nwm_thread
    BY <2>2, NwmTokenNwm
  <2>3. CASE Others /\ ~Nwm_thread
    BY <2>3, OtherEffect DEF NwmToken, Sending
  <2> QED BY <2>1, <2>2, <2>3, NextSplit
<1> QED BY <1>1, <1>2, TypeCorrect, LeaderAlways, PTL DEF Spec

(* The other permits are bounded by the rounds.                            *)
LEMMA RoundsNoLostPermit ==
  ASSUME TypeOK, RoundsHold, NwmToken
  PROVE  NoLostPermit
<1>a. PICK cap, prep, rel, rnd, tok, lead, held :
        RoundsInv(cap, prep, rel, rnd, tok, lead, held)
  BY DEF RoundsHold
<1>b. /\ Ghosts(cap, prep, rel, rnd, tok, lead)
      /\ prep <= rel /\ WORK_COUNT \in Nat
  BY <1>a, ConstantsAssumption DEF RoundsInv, Phase, Ghosts
<1>c. /\ screen_ready \in 0 .. 1 /\ work_done \in [Work -> 0 .. 1]
      /\ work_ready \in [Thread -> Nat] /\ thread_ready \in [Thread -> Nat]
      /\ quality_can_update \in Nat /\ taken \in Nat
      /\ cursor \in [Thread -> Thread] /\ wi \in [Thread -> Work]
      /\ nw \in Work /\ nwm_done \in [Work -> 0 .. 1]
      /\ nwm_ready \in [Work -> 0 .. 1] /\ srel \subseteq Thread
  BY ConstantsAssumption DEF TypeOK
<1>d. /\ held \subseteq 0 .. prep - 1 /\ prep \in Nat
      /\ Cardinality(held) + quality_can_update + taken <= WORK_COUNT
      /\ upc = "write" => taken = WORK_COUNT
  BY <1>a, <1>b DEF RoundsInv, Permits, Ghosts
<1>e. IsFiniteSet(held) /\ Cardinality(held) \in Nat
  BY <1>d, HeldFinite
<1>f. \A u \in Thread : rnd[u] \in Nat /\ rel <= rnd[u] + WORK_COUNT
  BY <1>a, <1>b DEF RoundsInv, Rounds, Ghosts
<1>1. ASSUME NEW t \in Thread, pc[t] \in {"skip_release", "screen_ready"}
      PROVE  screen_ready = 0
  <2>1. tok # "sem"
    BY <1>a, <1>1 DEF RoundsInv, Rounds, Preparing, Leading
  <2> QED BY <1>a, <1>c, <2>1 DEF RoundsInv, Phase
<1>2. ASSUME NEW t \in Thread, pc[t] = "nwm_ready"
      PROVE  nwm_ready[wi[t]] = 0
  BY <1>2 DEF NwmToken
<1>3. ASSUME NEW t \in Thread, pc[t] = "work_ready",
             NEW j \in cursor[t] .. LastThread, j # t
      PROVE  work_ready[j] < WORK_COUNT
  <2>1. j \in Thread /\ cursor[t] <= j
    BY <1>c, ConstantsAssumption DEF Thread, LastThread
  <2>2. t \in Waking(j)
    BY <1>3, <2>1 DEF Waking
  <2>3. IsFiniteSet(Waking(j)) /\ Cardinality(Waking(j)) \in Nat
    BY WakingFinite
  <2>4. Cardinality(Waking(j)) # 0
    BY <2>2, <2>3, FS_EmptySet
  <2>5. /\ work_ready[j] + Cardinality(Waking(j)) + Awake(j) + rnd[j] <= prep
        /\ Awake(j) \in Nat /\ work_ready[j] \in Nat
    BY <1>a, <1>c, <2>1 DEF RoundsInv, Woken, Awake
  <2> QED BY <1>b, <1>f, <2>1, <2>3, <2>4, <2>5 DEF Ghosts
<1>4. ASSUME NEW t \in Thread, pc[t] = "drop_quality"
      PROVE  quality_can_update < WORK_COUNT
  <2>1. rnd[t] \in Nat /\ rnd[t] < prep
    BY <1>a, <1>4, Current DEF Doing, Dropping
  <2>2. rnd[t] \in held
    BY <1>a, <1>4, <1>d, <2>1 DEF RoundsInv, Permits
  <2>3. Cardinality(held) # 0
    BY <1>e, <2>2, FS_EmptySet
  <2> QED BY <1>b, <1>c, <1>d, <1>e, <2>3
<1>5. ASSUME NEW t \in Thread, pc[t] = "drop_done"
      PROVE  work_done[wi[t]] = 0
  <2>1. /\ rnd[t] \in Nat /\ rnd[t] \in 0 .. cap /\ rnd[t] < rel
        /\ wi[t] = Slot(rnd[t])
    BY <1>a, <1>5, Current DEF Doing, Dropping
  <2> QED BY <1>a, <2>1 DEF RoundsInv, Works
<1>6. ASSUME NEW j \in srel
      PROVE  thread_ready[j] < WORK_COUNT
  <2>1. /\ j \in Thread /\ Owed(j) = 1
        /\ thread_ready[j] + Owed(j) + Took(j, lead) + rnd[j]
             <= rel + Again(j, tok, lead)
    BY <1>a, <1>c DEF RoundsInv, Readied, Owed
  <2>2. /\ Again(j, tok, lead) <= Took(j, lead)
        /\ Again(j, tok, lead) \in Nat /\ Took(j, lead) \in Nat
    BY DEF Again, Took
  <2> QED BY <1>b, <1>c, <1>f, <2>1, <2>2 DEF Ghosts
<1>7. npc = "done" => nwm_done[nw] = 0
  <2> SUFFICES ASSUME npc = "done" PROVE nwm_done[nw] = 0
    OBVIOUS
  <2>1. Sending(nw) = 1 /\ nwm_done[nw] + nwm_ready[nw] + Sending(nw) <= 1
    BY <1>c DEF NwmToken, Sending
  <2> QED BY <1>c, <2>1
<1>8. upc = "write" => quality_can_update = 0
  BY <1>b, <1>c, <1>d, <1>e
<1> QED BY <1>1, <1>2, <1>3, <1>4, <1>5, <1>6, <1>7, <1>8 DEF NoLostPermit

(* No thread releases a semaphore that is full, so release_sem never drops *)
(* a permit that somebody waits for.                                       *)
THEOREM NoLostPermitAlways == Spec => []NoLostPermit
<1>1. TypeOK /\ RoundsHold /\ NwmToken => NoLostPermit
  BY RoundsNoLostPermit
<1> QED BY <1>1, TypeCorrect, RoundsAlways, NwmTokenAlways, PTL

-----------------------------------------------------------------------------
(***************************************************************************)
(* Points that every leader passes once on its way: k counts the rounds    *)
(* whose leader is past the control points of S.                           *)
(***************************************************************************)
PastFrame  == {"flags", "quality_flag", "quality_done", "quality"}
PastHeader == {"nwm_ready", "frame"} \cup PastFrame

Reached(S, cap, prep, tok, lead, k) ==
  /\ k \in {cap, cap + 1} /\ prep <= k
  /\ k = cap + 1 /\ prep = cap => tok = "lead" /\ lead # NoThread
  /\ \A t \in Thread : pc[t] \in S => k = cap + 1
  /\ \A t \in Thread : pc[t] \in Preparing \ S => k = cap

(* While nobody enters S, k stays.                                         *)
LEMMA ReachedKept ==
  ASSUME NEW S, "quality" \in S, "skip_release" \notin S, S \subseteq Preparing,
         NEW cap, NEW prep, NEW rel, NEW rnd, NEW tok, NEW lead, NEW held,
         RoundsInv(cap, prep, rel, rnd, tok, lead, held),
         NEW cap2, NEW prep2, NEW rel2, NEW rnd2, NEW tok2, NEW lead2,
         NEW held2, RoundsInv(cap2, prep2, rel2, rnd2, tok2, lead2, held2)',
         Moves(cap, prep, rel, rnd, tok, lead,
               cap2, prep2, rel2, rnd2, tok2, lead2),
         NEW k, Reached(S, cap, prep, tok, lead, k),
         \A t \in Thread : pc'[t] \in S => pc[t] \in S,
         \A t \in Thread :
           pc'[t] \in Preparing \ S => pc[t] \in (Preparing \ S) \cup {"claim"}
  PROVE  Reached(S, cap2, prep2, tok2, lead2, k)'
<1>a. /\ cap \in Nat /\ prep \in {cap, cap + 1} /\ k \in {cap, cap + 1}
      /\ prep <= k
  BY DEF RoundsInv, Ghosts, Phase, Reached
<1>b. /\ cap2 \in Nat /\ prep2 \in {cap2, cap2 + 1}
      /\ \A t \in Thread : pc'[t] \in Preparing => t = lead2 /\ prep2 = cap2
  BY ThreadFinite DEF RoundsInv, Ghosts, Phase, Rounds
<1>c. \A t \in Thread : pc[t] \in Preparing => t = lead /\ prep = cap
  BY ThreadFinite DEF RoundsInv, Phase, Rounds
<1>1. CASE cap2 # cap
  <2>1. cap2 = cap + 1 /\ prep = cap + 1 /\ prep2 = prep
    BY <1>1 DEF Moves
  <2>2. k = cap2
    BY <1>a, <2>1
  <2>3. \A t \in Thread : pc'[t] \notin S
    BY <1>a, <1>c, <2>1
  <2> QED BY <1>b, <2>1, <2>2, <2>3 DEF Reached
<1>2. CASE prep2 # prep
  <2>1. /\ prep = cap /\ prep2 = cap + 1 /\ cap2 = cap
        /\ \E t \in Thread : pc[t] = "quality"
    BY <1>2 DEF Moves
  <2>2. k = cap + 1
    BY <2>1 DEF Reached
  <2>3. \A t \in Thread : pc'[t] \notin Preparing
    BY <1>a, <1>b, <2>1
  <2> QED BY <1>a, <2>1, <2>2, <2>3 DEF Reached
<1>3. CASE cap2 = cap /\ prep2 = prep
  <2>1. k = cap + 1 /\ prep = cap =>
          tok2 = "lead" /\ lead2 = lead /\ lead # NoThread
    <3> SUFFICES ASSUME k = cap + 1, prep = cap
                 PROVE  tok2 = "lead" /\ lead2 = lead /\ lead # NoThread
      OBVIOUS
    <3>1. tok = "lead" /\ lead # NoThread
      BY DEF Reached
    <3>2. \A t \in Thread : pc[t] # "skip_release"
      BY <1>a DEF Reached, Preparing, Leading
    <3> QED BY <1>3, <3>1, <3>2 DEF Moves
  <2>2. ASSUME NEW t \in Thread, pc'[t] \in Preparing \ S
        PROVE  k = cap
    <3>1. CASE pc[t] \in Preparing \ S
      BY <3>1 DEF Reached
    <3>2. CASE pc[t] = "claim"
      <4> SUFFICES ASSUME k = cap + 1 PROVE FALSE
        BY <1>a
      <4>1. prep = cap /\ t = lead2
        BY <1>3, <1>b, <2>2
      <4>2. t = lead
        BY <2>1, <4>1
      <4>3. pc[t] \in Preparing \cup {"exited"}
        BY <4>2, ThreadFinite DEF RoundsInv, Rounds
      <4> QED BY <3>2, <4>3 DEF Preparing, Leading
    <3> QED BY <2>2, <3>1, <3>2
  <2>3. \A t \in Thread : pc'[t] \in S => k = cap + 1
    BY DEF Reached
  <2> QED BY <1>3, <1>a, <2>1, <2>2, <2>3 DEF Reached
<1> QED BY <1>1, <1>2, <1>3

(* The leader enters S: k counts its round.                                *)
LEMMA ReachedNew ==
  ASSUME NEW S, "quality" \in S, S \subseteq Preparing,
         NEW cap, NEW prep, NEW rel, NEW rnd, NEW tok, NEW lead, NEW held,
         RoundsInv(cap, prep, rel, rnd, tok, lead, held),
         NEW cap2, NEW prep2, NEW rel2, NEW rnd2, NEW tok2, NEW lead2,
         NEW held2, RoundsInv(cap2, prep2, rel2, rnd2, tok2, lead2, held2)',
         Moves(cap, prep, rel, rnd, tok, lead,
               cap2, prep2, rel2, rnd2, tok2, lead2),
         NEW k, Reached(S, cap, prep, tok, lead, k),
         NEW t \in Thread, pc[t] \in Preparing \ S,
         pc[t] \notin {"skip_release", "skip_wait"}, pc'[t] \in S,
         \A u \in Thread : u # t => pc'[u] = pc[u]
  PROVE  /\ k = cap /\ prep = cap /\ cap2 = cap /\ prep2 = cap
         /\ rnd[t] = cap /\ rel = cap + 1 /\ tok = "lead"
         /\ Reached(S, cap2, prep2, tok2, lead2, cap + 1)'
<1>1. /\ t = lead /\ rnd[t] = cap /\ prep = cap /\ rel = cap + 1
      /\ tok = "lead" /\ \A u \in Thread : pc[u] \in Preparing => u = t
  BY Leader
<1>2. k = cap /\ cap \in Nat
  BY DEF Reached, RoundsInv, Ghosts
<1>3. cap2 = cap /\ prep2 = cap
  BY <1>1, <1>2 DEF Moves, Preparing, Leading
<1>4. lead2 = lead /\ lead # NoThread
  BY <1>1, <1>3, ThreadFinite DEF Moves
<1>5. tok2 = "lead"
  BY <1>1, <1>3 DEF Moves, Preparing, Leading
<1>6. \A u \in Thread : pc'[u] \in Preparing \ S => FALSE
  BY <1>1
<1> QED BY <1>1, <1>2, <1>3, <1>4, <1>5, <1>6 DEF Reached

-----------------------------------------------------------------------------
(***************************************************************************)
(* Images.  The buffers of a screen are used in turn: ic[s] counts the     *)
(* frames of screen s set up so far, ib[n] is the count at which round n   *)
(* took its buffer.  k counts the rounds that are past img_info_next.      *)
(***************************************************************************)
ImgSlot(i) == i % IMG_WORK_COUNT

(* The context of a work names the buffer that was captured, ...           *)
Fitted == {"dma_sync", "skip_frame", "skip_release", "nwm_done", "nwm_ready",
           "frame"}
(* ... whose DMA has ended.                                                *)
Synced == (Fitted \ {"dma_sync"}) \cup PastFrame

(* Round n has its own buffer, with fewer than k - n taken since.          *)
Captured(n, k, ib, ic) ==
  LET f == bctx[Slot(n)] IN
  /\ work_params[Slot(n)] = Frame_buffer(f)
  /\ f.img = ImgSlot(ib[n])
  /\ ib[n] < ic[f.screen] /\ ic[f.screen] <= ib[n] + (k - n)

Images(cap, rel, rnd, k, ib, ic) ==
  /\ ib \in [Nat -> Nat] /\ ic \in [Screen -> Nat]
  /\ \A s \in Screen : img_index[s] = ImgSlot(ic[s])
  /\ \A t \in Thread, n \in 0 .. cap :
       rnd[t] <= n /\ n < k => Captured(n, k, ib, ic)
  /\ rel = cap + 1 /\ k = cap =>
       work_params[Slot(cap)].img = img_index[work_params[Slot(cap)].screen]
  /\ spc = "params" => sbuf.img = img_index[sbuf.screen]
  /\ \A t \in Thread :
       pc[t] \in Fitted => Frame_buffer(bctx[wi[t]]) = work_params[wi[t]]

(* A DMA is in flight only for round cap, into the buffer that is next.    *)
Dmas(cap, rnd, k) ==
  ~DMA_TIMEOUT =>
    /\ \A w \in Work :
         dma[w] # NoDma =>
           /\ w = Slot(cap) /\ k = cap
           /\ \A t \in Thread : rnd[t] + WORK_COUNT > cap
           /\ dma[w].img = img_index[dma[w].screen]
    /\ \A t \in Thread : pc[t] \in Synced => dma[wi[t]] = NoDma

ImagesInv(cap, prep, rel, rnd, tok, lead, held, k, ib, ic) ==
  /\ RoundsInv(cap, prep, rel, rnd, tok, lead, held)
  /\ Reached(PastFrame, cap, prep, tok, lead, k)
  /\ Images(cap, rel, rnd, k, ib, ic)
  /\ Dmas(cap, rnd, k)

ImagesHold ==
  \E cap, prep, rel, rnd, tok, lead, held, k, ib, ic :
    ImagesInv(cap, prep, rel, rnd, tok, lead, held, k, ib, ic)

(* At some control points there is only one step to take.                  *)
LEMMA WorkerAt ==
  ASSUME NEW t \in Thread, Worker(t)
  PROVE  /\ pc[t] = "init_bctx" => Init_bctx(t)
         /\ pc[t] = "frame" => Frame_release(t)
         /\ pc[t] = "nwm_ready" => Nwm_ready_release(t)
         /\ pc[t] = "nwm_done" => Nwm_done_acquire(t) \/ Give_up(t)
         /\ pc[t] = "term" => Term(t) \/ Give_up(t)
BY DEF Worker, Thread_ready_acquire, Work_ready_acquire, Init_bctx, Dma_sync,
       Skip_frame, Skip_frame_release, Encode_frame, Nwm_done_acquire,
       Nwm_ready_release, Frame_release, Flags_release, Quality_flag,
       Quality_done, Quality_work_acquire, Work_ready_release, Other_acquire,
       Send_frame, Pre_progress, Work_index_next_wrapped,
       Screen_ready_release, Term, Term_signal, Encoded, Drop_count,
       Drop_term_dsts, Drop_flag, Quality_work_release, Drop_work_done,
       Give_up, Waiting, Encoding

(* Only frame_release goes past img_info_next, only init_bctx and a step   *)
(* of its own leads a thread to the points where its context is Fitted.    *)
LEMMA FrameEdges ==
  ASSUME TypeOK, NEW t \in Thread, Worker(t), ~Frame_release(t)
  PROVE  /\ pc'[t] \in PastFrame => pc[t] \in PastFrame
         /\ pc'[t] \in Preparing \ PastFrame =>
              pc[t] \in (Preparing \ PastFrame) \cup {"claim"}
         /\ pc'[t] \in Fitted => wi'[t] = wi[t]
         /\ pc'[t] \in Fitted /\ ~Init_bctx(t) => pc[t] \in Fitted
         /\ pc'[t] \in Synced =>
              /\ wi'[t] = wi[t]
              /\ pc[t] \in Synced \/ Dma_ended(wi[t])
<1>1. /\ Edge(pc[t], pc'[t])
      /\ pc'[t] = "skip_frame" => Dma_ended(wi[t])
      /\ wi'[t] = wi[t] \/ pc'[t] = "thread_ready"
  BY WorkerEdge
<1>2. pc[t] # "frame" /\ (pc[t] = "init_bctx" => Init_bctx(t))
  BY WorkerAt
<1>3. Edge(pc[t], pc'[t]) =>
        /\ pc'[t] \in PastFrame => pc[t] \in PastFrame \cup {"frame"}
        /\ pc'[t] \in Preparing \ PastFrame =>
             pc[t] \in (Preparing \ PastFrame) \cup {"claim"}
        /\ pc'[t] \in Fitted => pc[t] \in Fitted \cup {"init_bctx"}
        /\ pc'[t] \in Synced =>
             pc'[t] = "skip_frame" \/ pc[t] \in Synced
  BY DEF Edge, PastFrame, Preparing, Leading, Fitted, Synced
<1>4. pc'[t] \in Fitted \cup Synced => pc'[t] # "thread_ready"
  BY DEF Fitted, Synced, PastFrame
<1> QED BY <1>1, <1>2, <1>3, <1>4

(* What is known while the screen thread captures.                         *)
LEMMA Capturer ==
  ASSUME spc \in {"capture", "params"},
         NEW cap, NEW prep, NEW rel, NEW rnd, NEW tok, NEW lead, NEW held,
         RoundsInv(cap, prep, rel, rnd, tok, lead, held),
         NEW k, Reached(PastFrame, cap, prep, tok, lead, k)
  PROVE  /\ tok = "screen" /\ prep = cap /\ k = cap
         /\ sw = Slot(cap) /\ work_index = Slot(cap) /\ cap \in Nat
         /\ \A t \in Thread : rnd[t] + WORK_COUNT > cap
         /\ \A t \in Thread : pc[t] \notin Preparing \ {"skip_wait"}
<1>1. cap \in Nat /\ prep \in {cap, cap + 1} /\ tok = "screen"
  BY DEF RoundsInv, Ghosts, Phase, Capturing
<1>2. prep = cap /\ work_index = Slot(cap)
  BY <1>1 DEF RoundsInv, Phase
<1>3. k = cap
  BY <1>1, <1>2 DEF Reached
<1>4. sw = Slot(cap) /\ \A t \in Thread : rnd[t] + WORK_COUNT > cap
  BY DEF RoundsInv, Works, Freed, Capturing
<1>5. \A t \in Thread : pc[t] \notin Preparing \ {"skip_wait"}
  BY <1>1 DEF RoundsInv, Rounds
<1> QED BY <1>1, <1>2, <1>3, <1>4, <1>5

(* Steps that leave the contexts and the buffers alone.                    *)
LEMMA ImagesKept ==
  ASSUME TypeOK, NEW cap, NEW prep, NEW rel, NEW rnd, NEW tok, NEW lead,
         NEW held, RoundsInv(cap, prep, rel, rnd, tok, lead, held),
         NEW cap2, NEW prep2, NEW rel2, NEW rnd2, NEW tok2, NEW lead2,
         NEW held2, RoundsInv(cap2, prep2, rel2, rnd2, tok2, lead2, held2)',
         Moves(cap, prep, rel, rnd, tok, lead,
               cap2, prep2, rel2, rnd2, tok2, lead2),
         NEW k, Reached(PastFrame, cap, prep, tok, lead, k),
         NEW ib, NEW ic, Images(cap, rel, rnd, k, ib, ic),
         UNCHANGED <<bctx, work_params, img_index>>, ~Work_params,
         spc' = "params" => sbuf'.img = img_index[sbuf'.screen],
         \A t \in Thread :
           pc'[t] \in Fitted => pc[t] \in Fitted /\ wi'[t] = wi[t]
  PROVE  Images(cap2, rel2, rnd2, k, ib, ic)'
<1>a. /\ cap \in Nat /\ cap2 \in {cap, cap + 1} /\ rel2 = rel
      /\ k \in {cap, cap + 1} /\ k \in Nat
      /\ rnd \in [Thread -> Nat] /\ rnd2 \in [Thread -> Nat]
      /\ \A t \in Thread : rnd[t] <= rnd2[t]
  BY DEF RoundsInv, Ghosts, Moves, Reached
<1>b. rel \in {cap, cap + 1} /\ (cap2 # cap => rel = cap2)
  BY <1>a DEF RoundsInv, Phase, Moves
<1>1. ib \in [Nat -> Nat] /\ ic \in [Screen -> Nat]
  BY DEF Images
<1>2. \A s \in Screen : img_index'[s] = ImgSlot(ic[s])
  BY DEF Images
<1>3. ASSUME NEW t \in Thread, NEW n \in 0 .. cap2, rnd2[t] <= n, n < k
      PROVE  Captured(n, k, ib, ic)'
  <2>1. n \in 0 .. cap /\ rnd[t] <= n
    BY <1>a, <1>3
  <2>2. Captured(n, k, ib, ic)
    BY <1>3, <2>1 DEF Images
  <2> QED BY <2>2 DEF Captured
<1>4. rel2 = cap2 + 1 /\ k = cap2 =>
        work_params'[Slot(cap2)].img = img_index'[work_params'[Slot(cap2)].screen]
  BY <1>a, <1>b DEF Images
<1>5. ASSUME NEW t \in Thread, pc'[t] \in Fitted
      PROVE  Frame_buffer(bctx'[wi'[t]]) = work_params'[wi'[t]]
  BY <1>5 DEF Images
<1> QED BY <1>1, <1>2, <1>3, <1>4, <1>5 DEF Images

(* init_bctx names the buffer that img_info names now: nobody has moved it *)
(* since the capture.                                                      *)
LEMMA ImagesInitBctx ==
  ASSUME TypeOK, NEW cap, NEW prep, NEW rel, NEW rnd, NEW tok, NEW lead,
         NEW held, RoundsInv(cap, prep, rel, rnd, tok, lead, held),
         NEW cap2, NEW prep2, NEW rel2, NEW rnd2, NEW tok2, NEW lead2,
         NEW held2, RoundsInv(cap2, prep2, rel2, rnd2, tok2, lead2, held2)',
         Moves(cap, prep, rel, rnd, tok, lead,
               cap2, prep2, rel2, rnd2, tok2, lead2),
         NEW k, Reached(PastFrame, cap, prep, tok, lead, k),
         NEW ib, NEW ic, Images(cap, rel, rnd, k, ib, ic),
         NEW t \in Thread, Init_bctx(t)
  PROVE  Images(cap2, rel2, rnd2, k, ib, ic)'
<1>a. /\ bctx \in [Work -> Frame] /\ pc \in [Thread -> Control]
      /\ work_params \in [Work -> Buffer] /\ img_index \in [Screen -> Img]
  BY DEF TypeOK
<1>b. pc[t] = "init_bctx"
  BY DEF Init_bctx
<1>c. pc[t] \in Preparing \ PastFrame
  BY <1>b DEF Preparing, Leading, PastFrame
<1>d. /\ t = lead /\ wi[t] = Slot(cap) /\ rel = cap + 1 /\ prep = cap
      /\ tok = "lead" /\ spc \notin Capturing /\ Slot(cap) \in Work
      /\ \A u \in Thread : pc[u] \in Preparing => u = t
  BY <1>b, <1>c, Leader
<1>e. /\ k = cap /\ cap \in Nat /\ cap2 = cap
      /\ rnd \in [Thread -> Nat] /\ rnd2 \in [Thread -> Nat]
      /\ \A u \in Thread : rnd[u] <= rnd2[u]
      /\ \A u \in Thread : rel <= rnd[u] + WORK_COUNT
  BY <1>c, <1>d DEF RoundsInv, Ghosts, Moves, Reached, Rounds
<1>f. rel2 = rel
  BY DEF Moves, Init_bctx, Work_params, screen
<1>g. /\ UNCHANGED <<work_params, img_index, spc, sbuf, wi>>
      /\ pc' = [pc EXCEPT ![t] = "dma_sync"]
      /\ bctx' = [bctx EXCEPT ![Slot(cap)] =
                    [screen |-> work_params[Slot(cap)].screen,
                     img |-> img_index[work_params[Slot(cap)].screen],
                     id |-> frame_ids[work_params[Slot(cap)].screen]]]
  BY <1>d DEF Init_bctx, Goto, params, imgs, screen
<1>1. ib \in [Nat -> Nat] /\ ic \in [Screen -> Nat]
  BY DEF Images
<1>2. \A s \in Screen : img_index'[s] = ImgSlot(ic[s])
  BY <1>g DEF Images
<1>3. ASSUME NEW u \in Thread, NEW n \in 0 .. cap2, rnd2[u] <= n, n < k
      PROVE  Captured(n, k, ib, ic)'
  <2>1. n \in 0 .. cap /\ n \in Nat /\ rnd[u] <= n /\ n < cap
    BY <1>e, <1>3
  <2>2. Captured(n, k, ib, ic)
    BY <1>3, <2>1 DEF Images
  <2>3. rel \in Nat /\ n < rel /\ cap < rel /\ rel <= n + WORK_COUNT
        /\ rel <= cap + WORK_COUNT
    BY <1>d, <1>e, <2>1, ConstantsAssumption
  <2>4. Slot(n) # Slot(cap)
    BY <1>e, <2>1, <2>3, SlotApart
  <2>5. bctx'[Slot(n)] = bctx[Slot(n)]
    BY <1>a, <1>g, <2>1, <2>4, SlotType
  <2> QED BY <1>g, <2>2, <2>5 DEF Captured
<1>4. rel2 = cap2 + 1 /\ k = cap2 =>
        work_params'[Slot(cap2)].img = img_index'[work_params'[Slot(cap2)].screen]
  BY <1>e, <1>f, <1>g DEF Images
<1>5. ASSUME NEW u \in Thread, pc'[u] \in Fitted
      PROVE  Frame_buffer(bctx'[wi'[u]]) = work_params'[wi'[u]]
  <2>1. u = t
    BY <1>a, <1>d, <1>g, <1>5 DEF Fitted, Preparing, Leading
  <2>2. work_params[Slot(cap)].img = img_index[work_params[Slot(cap)].screen]
    BY <1>d, <1>e DEF Images
  <2>3. work_params[Slot(cap)] \in Buffer
    BY <1>a, <1>d
  <2>4. Frame_buffer(bctx'[Slot(cap)]) = work_params[Slot(cap)]
    BY <1>a, <1>d, <1>g, <2>2, <2>3 DEF Frame_buffer, Buffer
  <2> QED BY <1>d, <1>g, <2>1, <2>4
<1>6. spc' # "params"
  BY <1>d, <1>g DEF Capturing
<1> QED BY <1>1, <1>2, <1>3, <1>4, <1>5, <1>6 DEF Images

(* img_info_next: the next frame of the screen gets the next buffer.       *)
LEMMA ImagesFrameRelease ==
  ASSUME TypeOK, NEW cap, NEW prep, NEW rel, NEW rnd, NEW tok, NEW lead,
         NEW held, RoundsInv(cap, prep, rel, rnd, tok, lead, held),
         NEW cap2, NEW prep2, NEW rel2, NEW rnd2, NEW tok2, NEW lead2,
         NEW held2, RoundsInv(cap2, prep2, rel2, rnd2, tok2, lead2, held2)',
         Moves(cap, prep, rel, rnd, tok, lead,
               cap2, prep2, rel2, rnd2, tok2, lead2),
         NEW k, Reached(PastFrame, cap, prep, tok, lead, k),
         NEW ib, NEW ic, Images(cap, rel, rnd, k, ib, ic),
         NEW t \in Thread, Frame_release(t)
  PROVE  \E ib2, ic2 : Images(cap2, rel2, rnd2, cap + 1, ib2, ic2)'
<1> DEFINE f == bctx[Slot(cap)]
           s == f.screen
<1>a. /\ bctx \in [Work -> Frame] /\ pc \in [Thread -> Control]
      /\ work_params \in [Work -> Buffer] /\ img_index \in [Screen -> Img]
  BY DEF TypeOK
<1>b. pc[t] = "frame"
  BY DEF Frame_release
<1>c. pc[t] \in Preparing \ PastFrame
  BY <1>b DEF Preparing, Leading, PastFrame
<1>d. /\ wi[t] = Slot(cap) /\ rel = cap + 1 /\ prep = cap
      /\ spc \notin Capturing /\ Slot(cap) \in Work
      /\ \A u \in Thread : pc[u] \in Preparing => u = t
  BY <1>b, <1>c, Leader
<1>e. /\ k = cap /\ cap \in Nat /\ cap2 = cap
      /\ rnd \in [Thread -> Nat] /\ rnd2 \in [Thread -> Nat]
      /\ \A u \in Thread : rnd[u] <= rnd2[u]
  BY <1>c, <1>d DEF RoundsInv, Ghosts, Moves, Reached
<1>g. /\ UNCHANGED <<work_params, bctx, spc, sbuf, wi>>
      /\ pc' = [pc EXCEPT ![t] = "flags"]
      /\ img_index' = [img_index EXCEPT ![s] = Next_wrapped(@, IMG_WORK_COUNT)]
  BY <1>d DEF Frame_release, Goto, params, works, screen
<1>h. ib \in [Nat -> Nat] /\ ic \in [Screen -> Nat]
  BY DEF Images
<1>i. f \in Frame /\ s \in Screen /\ ic[s] \in Nat
  BY <1>a, <1>d, <1>h DEF Frame
<1>j. work_params[Slot(cap)] = Frame_buffer(f) /\ f.img = img_index[s]
  <2>1. work_params[Slot(cap)].img = img_index[work_params[Slot(cap)].screen]
    BY <1>d, <1>e DEF Images
  <2>2. Frame_buffer(f) = work_params[Slot(cap)]
    BY <1>b, <1>d DEF Images, Fitted
  <2>3. Frame_buffer(f).img = f.img /\ Frame_buffer(f).screen = s
    BY DEF Frame_buffer
  <2> QED BY <2>1, <2>2, <2>3
<1>k. PICK ib2, ic2 : /\ ib2 = [ib EXCEPT ![cap] = ic[s]]
                      /\ ic2 = [ic EXCEPT ![s] = @ + 1]
  OBVIOUS
<1>1. /\ ib2 \in [Nat -> Nat] /\ ic2 \in [Screen -> Nat]
      /\ ib2[cap] = ic[s] /\ \A n \in Nat : n # cap => ib2[n] = ib[n]
      /\ ic2[s] = ic[s] + 1 /\ \A z \in Screen : z # s => ic2[z] = ic[z]
      /\ \A z \in Screen : ic[z] \in Nat /\ ic2[z] \in Nat
  BY <1>e, <1>h, <1>i, <1>k
<1>2. ASSUME NEW z \in Screen PROVE img_index'[z] = ImgSlot(ic2[z])
  <2>1. img_index[z] = ImgSlot(ic[z])
    BY DEF Images
  <2>2. CASE z # s
    BY <1>a, <1>1, <1>g, <2>1, <2>2
  <2>3. CASE z = s
    <3>1. img_index'[s] = Next_wrapped(ImgSlot(ic[s]), IMG_WORK_COUNT)
      BY <1>a, <1>g, <1>i, <2>1, <2>3
    <3>2. ImgSlot(ic[s] + 1) = Next_wrapped(ImgSlot(ic[s]), IMG_WORK_COUNT)
      BY <1>i, ModNext, ConstantsAssumption DEF ImgSlot, Next_wrapped
    <3> QED BY <1>1, <2>3, <3>1, <3>2
  <2> QED BY <2>2, <2>3
<1>3. ASSUME NEW u \in Thread, NEW n \in 0 .. cap2, rnd2[u] <= n, n < cap + 1
      PROVE  Captured(n, cap + 1, ib2, ic2)'
  <2>1. n \in 0 .. cap /\ n \in Nat /\ rnd[u] <= n
    BY <1>e, <1>3
  <2>2. CASE n = cap
    <3>1. f.img = ImgSlot(ic[s])
      BY <1>i, <1>j DEF Images
    <3>2. /\ bctx'[Slot(n)] = f /\ work_params'[Slot(n)] = Frame_buffer(f)
          /\ ib2[n] = ic[s] /\ ic2[s] = ic[s] + 1
      BY <1>1, <1>g, <1>j, <2>2
    <3>3. ib2[n] < ic2[s] /\ ic2[s] <= ib2[n] + ((cap + 1) - n)
      BY <1>e, <1>i, <3>2, <2>2
    <3> QED BY <3>1, <3>2, <3>3 DEF Captured
  <2>3. CASE n # cap
    <3>1. n < k
      BY <1>e, <2>1, <2>3
    <3>2. Captured(n, k, ib, ic)
      BY <2>1, <3>1 DEF Images
    <3> DEFINE b == bctx[Slot(n)]
    <3>3. b.screen \in Screen
      BY <1>a, <2>1, SlotType DEF Frame
    <3>4. /\ ib2[n] = ib[n] /\ ib[n] \in Nat
          /\ ic2[b.screen] \in {ic[b.screen], ic[b.screen] + 1}
          /\ ic[b.screen] \in Nat
      BY <1>1, <1>h, <2>1, <2>3, <3>3
    <3>5. ib2[n] < ic2[b.screen] /\ ic2[b.screen] <= ib2[n] + ((cap + 1) - n)
      BY <1>e, <2>1, <3>2, <3>4 DEF Captured
    <3> QED BY <1>g, <3>2, <3>4, <3>5 DEF Captured
  <2> QED BY <2>2, <2>3
<1>5. \A u \in Thread : pc'[u] \notin Fitted
  BY <1>a, <1>d, <1>g DEF Fitted, Preparing, Leading
<1>6. spc' # "params"
  BY <1>d, <1>g DEF Capturing
<1>7. cap + 1 # cap2
  BY <1>e
<1>8. Images(cap2, rel2, rnd2, cap + 1, ib2, ic2)'
  BY <1>1, <1>2, <1>3, <1>5, <1>6, <1>7 DEF Images
<1> QED BY <1>8

(* The screen thread hands the buffer it captured into to the leader.      *)
LEMMA ImagesWorkParams ==
  ASSUME TypeOK, NEW cap, NEW prep, NEW rel, NEW rnd, NEW tok, NEW lead,
         NEW held, RoundsInv(cap, prep, rel, rnd, tok, lead, held),
         NEW cap2, NEW prep2, NEW rel2, NEW rnd2, NEW tok2, NEW lead2,
         NEW held2, RoundsInv(cap2, prep2, rel2, rnd2, tok2, lead2, held2)',
         Moves(cap, prep, rel, rnd, tok, lead,
               cap2, prep2, rel2, rnd2, tok2, lead2),
         NEW k, Reached(PastFrame, cap, prep, tok, lead, k),
         NEW ib, NEW ic, Images(cap, rel, rnd, k, ib, ic),
         Work_params
  PROVE  Images(cap2, rel2, rnd2, k, ib, ic)'
<1>a. work_params \in [Work -> Buffer] /\ pc \in [Thread -> Control]
  BY DEF TypeOK
<1>b. /\ spc = "params" /\ spc' = "release"
      /\ work_params' = [work_params EXCEPT ![sw] = sbuf]
      /\ UNCHANGED <<bctx, img_index, pc, wi>>
  BY DEF Work_params, workers_unchanged, works, imgs, worker
<1>c. /\ prep = cap /\ k = cap /\ sw = Slot(cap) /\ cap \in Nat
      /\ \A t \in Thread : rnd[t] + WORK_COUNT > cap
      /\ \A t \in Thread : pc[t] \notin Preparing \ {"skip_wait"}
  BY <1>b, Capturer
<1>d. /\ cap2 = cap /\ rnd \in [Thread -> Nat] /\ rnd2 \in [Thread -> Nat]
      /\ \A u \in Thread : rnd[u] <= rnd2[u]
      /\ Slot(cap) \in Work
  BY <1>c, SlotType DEF RoundsInv, Ghosts, Moves
<1>1. ib \in [Nat -> Nat] /\ ic \in [Screen -> Nat]
  BY DEF Images
<1>2. \A s \in Screen : img_index'[s] = ImgSlot(ic[s])
  BY <1>b DEF Images
<1>3. ASSUME NEW u \in Thread, NEW n \in 0 .. cap2, rnd2[u] <= n, n < k
      PROVE  Captured(n, k, ib, ic)'
  <2>1. n \in 0 .. cap /\ n \in Nat /\ rnd[u] <= n /\ n < cap
    BY <1>c, <1>d, <1>3
  <2>2. Captured(n, k, ib, ic)
    BY <1>3, <2>1 DEF Images
  <2>3. cap < n + WORK_COUNT /\ n <= cap
    BY <1>c, <1>d, <2>1, ConstantsAssumption
  <2>4. Slot(n) # Slot(cap)
    BY <1>c, <2>1, <2>3, SlotInjective
  <2>5. work_params'[Slot(n)] = work_params[Slot(n)]
    BY <1>a, <1>b, <1>c, <2>1, <2>4, SlotType
  <2> QED BY <1>b, <2>2, <2>5 DEF Captured
<1>4. work_params'[Slot(cap2)].img = img_index'[work_params'[Slot(cap2)].screen]
  <2>1. work_params'[Slot(cap2)] = sbuf
    BY <1>a, <1>b, <1>c, <1>d
  <2> QED BY <1>b, <2>1 DEF Images
<1>5. \A u \in Thread : pc'[u] \notin Fitted
  BY <1>b, <1>c DEF Fitted, Preparing, Leading
<1> QED BY <1>b, <1>1, <1>2, <1>3, <1>4, <1>5 DEF Images

(* No step of a work thread starts a DMA, and a leader goes on only once   *)
(* its DMA has ended.                                                      *)
LEMMA DmasWorker ==
  ASSUME TypeOK, NEW cap, NEW prep, NEW rel, NEW rnd, NEW tok, NEW lead,
         NEW held, RoundsInv(cap, prep, rel, rnd, tok, lead, held),
         NEW cap2, NEW prep2, NEW rel2, NEW rnd2, NEW tok2, NEW lead2,
         NEW held2, RoundsInv(cap2, prep2, rel2, rnd2, tok2, lead2, held2)',
         Moves(cap, prep, rel, rnd, tok, lead,
               cap2, prep2, rel2, rnd2, tok2, lead2),
         NEW k, Reached(PastFrame, cap, prep, tok, lead, k),
         Dmas(cap, rnd, k), NEW t \in Thread, Worker(t),
         NEW k2, k2 = k \/ Frame_release(t)
  PROVE  Dmas(cap2, rnd2, k2)'
<1> SUFFICES ASSUME ~DMA_TIMEOUT
             PROVE  /\ \A w \in Work : dma'[w] # NoDma =>
                         /\ w = Slot(cap2) /\ k2 = cap2
                         /\ \A u \in Thread : rnd2[u] + WORK_COUNT > cap2
                         /\ dma'[w].img = img_index'[dma'[w].screen]
                    /\ \A u \in Thread :
                         pc'[u] \in Synced => dma'[wi'[u]] = NoDma
  BY DEF Dmas
<1>a. /\ \A w \in Work : dma[w] # NoDma =>
           /\ w = Slot(cap) /\ k = cap
           /\ \A u \in Thread : rnd[u] + WORK_COUNT > cap
           /\ dma[w].img = img_index[dma[w].screen]
      /\ \A u \in Thread : pc[u] \in Synced => dma[wi[u]] = NoDma
  BY DEF Dmas
<1>b. /\ cap \in Nat /\ prep \in Nat /\ prep <= k /\ WORK_COUNT \in Nat
      /\ rnd \in [Thread -> Nat] /\ rnd2 \in [Thread -> Nat]
      /\ \A u \in Thread : rnd[u] <= rnd2[u]
  BY ConstantsAssumption DEF RoundsInv, Ghosts, Moves, Reached
<1>c. UNCHANGED dma /\ (Frame_release(t) \/ UNCHANGED img_index)
  BY WorkerEffect
<1>1. ASSUME NEW w \in Work, dma'[w] # NoDma
      PROVE  /\ w = Slot(cap2) /\ k2 = cap2
             /\ \A u \in Thread : rnd2[u] + WORK_COUNT > cap2
             /\ dma'[w].img = img_index'[dma'[w].screen]
  <2>1. w = Slot(cap) /\ k = cap
    BY <1>a, <1>c, <1>1
  <2>2. ~Frame_release(t)
    <3> SUFFICES ASSUME Frame_release(t) PROVE FALSE
      OBVIOUS
    <3>1. pc[t] = "frame"
      BY DEF Frame_release
    <3>2. pc[t] \in Synced /\ pc[t] \in Preparing
      BY <3>1 DEF Synced, Fitted, Preparing, Leading
    <3>3. wi[t] = Slot(cap)
      BY <3>2, Leader
    <3> QED BY <1>a, <1>c, <1>1, <2>1, <3>2, <3>3
  <2>3. cap2 = cap
    BY <1>b, <2>1 DEF Moves
  <2>4. \A u \in Thread : rnd2[u] + WORK_COUNT > cap
    BY <1>a, <1>b, <1>c, <1>1
  <2> QED BY <1>a, <1>c, <1>1, <2>1, <2>2, <2>3, <2>4
<1>2. ASSUME NEW u \in Thread, pc'[u] \in Synced
      PROVE  dma'[wi'[u]] = NoDma
  <2>1. CASE u # t
    <3>1. pc'[u] = pc[u] /\ wi'[u] = wi[u]
      BY <2>1, WorkerEdge
    <3> QED BY <1>a, <1>c, <1>2, <3>1
  <2>2. CASE u = t /\ ~Frame_release(t)
    <3>1. wi'[u] = wi[u] /\ (pc[u] \in Synced \/ Dma_ended(wi[u]))
      BY <1>2, <2>2, FrameEdges
    <3> QED BY <1>a, <1>c, <3>1 DEF Dma_ended
  <2>3. CASE u = t /\ Frame_release(t)
    <3>1. pc[u] \in Synced /\ wi'[u] = wi[u]
      BY <2>3 DEF Frame_release, Synced, Fitted
    <3> QED BY <1>a, <1>c, <3>1
  <2> QED BY <2>1, <2>2, <2>3
<1> QED BY <1>1, <1>2

(* The screen thread starts a DMA only when it has the round to itself.    *)
LEMMA DmasOther ==
  ASSUME TypeOK, NEW cap, NEW prep, NEW rel, NEW rnd, NEW tok, NEW lead,
         NEW held, RoundsInv(cap, prep, rel, rnd, tok, lead, held),
         NEW cap2, NEW prep2, NEW rel2, NEW rnd2, NEW tok2, NEW lead2,
         NEW held2, RoundsInv(cap2, prep2, rel2, rnd2, tok2, lead2, held2)',
         Moves(cap, prep, rel, rnd, tok, lead,
               cap2, prep2, rel2, rnd2, tok2, lead2),
         NEW k, Reached(PastFrame, cap, prep, tok, lead, k),
         Dmas(cap, rnd, k), Others
  PROVE  Dmas(cap2, rnd2, k)'
<1> SUFFICES ASSUME ~DMA_TIMEOUT
             PROVE  /\ \A w \in Work : dma'[w] # NoDma =>
                         /\ w = Slot(cap2) /\ k = cap2
                         /\ \A u \in Thread : rnd2[u] + WORK_COUNT > cap2
                         /\ dma'[w].img = img_index'[dma'[w].screen]
                    /\ \A u \in Thread :
                         pc'[u] \in Synced => dma'[wi'[u]] = NoDma
  BY DEF Dmas
<1>a. /\ \A w \in Work : dma[w] # NoDma =>
           /\ w = Slot(cap) /\ k = cap
           /\ \A u \in Thread : rnd[u] + WORK_COUNT > cap
           /\ dma[w].img = img_index[dma[w].screen]
      /\ \A u \in Thread : pc[u] \in Synced => dma[wi[u]] = NoDma
  BY DEF Dmas
<1>b. /\ cap \in Nat /\ prep \in Nat /\ prep <= k /\ WORK_COUNT \in Nat
      /\ rnd \in [Thread -> Nat] /\ rnd2 \in [Thread -> Nat]
      /\ \A u \in Thread : rnd[u] <= rnd2[u]
  BY ConstantsAssumption DEF RoundsInv, Ghosts, Moves, Reached
<1>c. /\ UNCHANGED <<pc, wi, img_index>>
      /\ \/ \E s \in CAPTURED : Capture_screen(s)
         \/ \A w \in Work : dma'[w] \in {dma[w], NoDma}
  BY OtherEffect
<1>d. dma \in [Work -> Buffer \cup {NoDma}] /\ wi \in [Thread -> Work]
  BY DEF TypeOK
<1>1. CASE \A w \in Work : dma'[w] \in {dma[w], NoDma}
  <2>1. ASSUME NEW w \in Work, dma'[w] # NoDma
        PROVE  cap2 = cap /\ dma'[w] = dma[w] /\ dma[w] # NoDma
    <3>1. dma'[w] = dma[w] /\ dma[w] # NoDma
      BY <1>1, <2>1
    <3>2. k = cap
      BY <1>a, <3>1
    <3> QED BY <1>b, <3>1, <3>2 DEF Moves
  <2>2. ASSUME NEW w \in Work, dma'[w] # NoDma
        PROVE  \A u \in Thread : rnd2[u] + WORK_COUNT > cap2
    BY <1>a, <1>b, <2>1, <2>2
  <2> QED BY <1>1, <1>a, <1>c, <1>d, <2>1, <2>2
<1>2. ASSUME NEW s \in CAPTURED, Capture_screen(s)
      PROVE  /\ \A w \in Work : dma'[w] # NoDma =>
                  /\ w = Slot(cap2) /\ k = cap2
                  /\ \A u \in Thread : rnd2[u] + WORK_COUNT > cap2
                  /\ dma'[w].img = img_index'[dma'[w].screen]
             /\ \A u \in Thread :
                  pc'[u] \in Synced => dma'[wi'[u]] = NoDma
  <2>1. spc = "capture"
    BY <1>2 DEF Capture_screen
  <2>2. /\ prep = cap /\ k = cap /\ work_index = Slot(cap)
        /\ \A u \in Thread : rnd[u] + WORK_COUNT > cap
        /\ \A u \in Thread : pc[u] \notin Preparing \ {"skip_wait"}
    BY <2>1, Capturer
  <2>3. cap2 = cap
    BY <1>b, <2>2 DEF Moves
  <2>4. \A u \in Thread : rnd2[u] + WORK_COUNT > cap
    BY <1>b, <2>2
  <2>5. \A u \in Thread : pc'[u] \notin Synced
    BY <1>c, <2>2 DEF Synced, Fitted, PastFrame, Preparing, Leading
  <2>6. dma' = [dma EXCEPT ![Slot(cap)] = [screen |-> s, img |-> img_index[s]]]
    BY <1>2, <2>2 DEF Capture_screen
  <2>7. ASSUME NEW w \in Work, dma'[w] # NoDma
        PROVE  w = Slot(cap) /\ dma'[w].img = img_index[dma'[w].screen]
    BY <1>a, <1>d, <2>6, <2>7
  <2> QED BY <1>c, <2>2, <2>3, <2>4, <2>5, <2>7
<1> QED BY <1>1, <1>2, <1>c

(* Every step of the pipeline keeps the buffers apart.                     *)
LEMMA ImagesNext ==
  ASSUME TypeOK, ImagesHold, [Next]_vars
  PROVE  ImagesHold'
<1>a. PICK cap, prep, rel, rnd, tok, lead, held, k, ib, ic :
        ImagesInv(cap, prep, rel, rnd, tok, lead, held, k, ib, ic)
  BY DEF ImagesHold
<1>b. /\ RoundsInv(cap, prep, rel, rnd, tok, lead, held)
      /\ Reached(PastFrame, cap, prep, tok, lead, k)
      /\ Images(cap, rel, rnd, k, ib, ic) /\ Dmas(cap, rnd, k)
  BY <1>a DEF ImagesInv
<1>c. PICK cap2, prep2, rel2, rnd2, tok2, lead2, held2 :
        /\ RoundsInv(cap2, prep2, rel2, rnd2, tok2, lead2, held2)'
        /\ Moves(cap, prep, rel, rnd, tok, lead,
                 cap2, prep2, rel2, rnd2, tok2, lead2)
  BY <1>b, RoundsNext DEF Follows
<1>d. /\ "quality" \in PastFrame /\ "skip_release" \notin PastFrame
      /\ PastFrame \subseteq Preparing
  BY DEF PastFrame, Preparing, Leading
<1> SUFFICES \E k2, ib2, ic2 :
               /\ Reached(PastFrame, cap2, prep2, tok2, lead2, k2)'
               /\ Images(cap2, rel2, rnd2, k2, ib2, ic2)'
               /\ Dmas(cap2, rnd2, k2)'
  BY <1>c DEF ImagesHold, ImagesInv
<1>1. ASSUME NEW t \in Thread, Frame_release(t)
      PROVE  \E k2, ib2, ic2 :
               /\ Reached(PastFrame, cap2, prep2, tok2, lead2, k2)'
               /\ Images(cap2, rel2, rnd2, k2, ib2, ic2)'
               /\ Dmas(cap2, rnd2, k2)'
  <2>1. Worker(t)
    BY <1>1 DEF Worker
  <2>2. pc[t] = "frame" /\ pc'[t] = "flags" /\ \A u \in Thread : u # t => pc'[u] = pc[u]
    BY <1>1 DEF Frame_release, Goto, TypeOK
  <2>3. /\ pc[t] \in Preparing \ PastFrame
        /\ pc[t] \notin {"skip_release", "skip_wait"} /\ pc'[t] \in PastFrame
    BY <2>2 DEF Preparing, Leading, PastFrame
  <2>4. Reached(PastFrame, cap2, prep2, tok2, lead2, cap + 1)'
    BY <1>b, <1>c, <1>d, <2>2, <2>3, ReachedNew
  <2>5. \E ib2, ic2 : Images(cap2, rel2, rnd2, cap + 1, ib2, ic2)'
    BY <1>b, <1>c, <1>1, ImagesFrameRelease
  <2>6. Dmas(cap2, rnd2, cap + 1)'
    BY <1>b, <1>c, <1>1, <2>1, DmasWorker
  <2> QED BY <2>4, <2>5, <2>6
<1>2. ASSUME NEW t \in Thread, Worker(t), ~Frame_release(t)
      PROVE  /\ Reached(PastFrame, cap2, prep2, tok2, lead2, k)'
             /\ Images(cap2, rel2, rnd2, k, ib, ic)'
             /\ Dmas(cap2, rnd2, k)'
  <2>1. /\ pc'[t] \in PastFrame => pc[t] \in PastFrame
        /\ pc'[t] \in Preparing \ PastFrame =>
             pc[t] \in (Preparing \ PastFrame) \cup {"claim"}
        /\ pc'[t] \in Fitted => wi'[t] = wi[t]
        /\ pc'[t] \in Fitted /\ ~Init_bctx(t) => pc[t] \in Fitted
    BY <1>2, FrameEdges
  <2>2. \A u \in Thread : u # t => pc'[u] = pc[u] /\ wi'[u] = wi[u]
    BY <1>2, WorkerEdge
  <2>3. Reached(PastFrame, cap2, prep2, tok2, lead2, k)'
    BY <1>b, <1>c, <1>d, <2>1, <2>2, ReachedKept
  <2>4. Dmas(cap2, rnd2, k)'
    BY <1>b, <1>c, <1>2, DmasWorker
  <2>5. CASE Init_bctx(t)
    BY <1>b, <1>c, <2>3, <2>4, <2>5, ImagesInitBctx
  <2>6. CASE ~Init_bctx(t)
    <3>1. UNCHANGED <<bctx, work_params, img_index, spc, sbuf>>
      BY <1>2, <2>6, WorkerEffect
    <3>2. ~Work_params
      BY <3>1 DEF Work_params
    <3>3. spc' = "params" => sbuf'.img = img_index[sbuf'.screen]
      BY <1>b, <3>1 DEF Images
    <3>4. \A u \in Thread :
            pc'[u] \in Fitted => pc[u] \in Fitted /\ wi'[u] = wi[u]
      BY <2>1, <2>2, <2>6
    <3>5. Images(cap2, rel2, rnd2, k, ib, ic)'
      BY <1>b, <1>c, <3>1, <3>2, <3>3, <3>4, ImagesKept
    <3> QED BY <2>3, <2>4, <3>5
  <2> QED BY <2>5, <2>6
<1>3. ASSUME Others
      PROVE  /\ Reached(PastFrame, cap2, prep2, tok2, lead2, k)'
             /\ Images(cap2, rel2, rnd2, k, ib, ic)'
             /\ Dmas(cap2, rnd2, k)'
  <2>1. /\ UNCHANGED <<bctx, pc, wi, img_index>>
        /\ \/ \E s \in CAPTURED : Capture_screen(s)
           \/ UNCHANGED sbuf /\ (spc' = "params" => spc = "params")
        /\ Work_params \/ UNCHANGED work_params
    BY <1>3, OtherEffect
  <2>2. Reached(PastFrame, cap2, prep2, tok2, lead2, k)'
    BY <1>b, <1>c, <1>d, <2>1, ReachedKept
  <2>3. Dmas(cap2, rnd2, k)'
    BY <1>b, <1>c, <1>3, DmasOther
  <2>4. CASE Work_params
    BY <1>b, <1>c, <2>2, <2>3, <2>4, ImagesWorkParams
  <2>5. CASE ~Work_params
    <3>1. spc' = "params" => sbuf'.img = img_index[sbuf'.screen]
      <4>1. CASE \E s \in CAPTURED : Capture_screen(s)
        BY <4>1 DEF Capture_screen
      <4>2. CASE UNCHANGED sbuf /\ (spc' = "params" => spc = "params")
        BY <1>b, <4>2 DEF Images
      <4> QED BY <2>1, <4>1, <4>2
    <3>2. Images(cap2, rel2, rnd2, k, ib, ic)'
      BY <1>b, <1>c, <2>1, <2>5, <3>1, ImagesKept
    <3> QED BY <2>2, <2>3, <3>2
  <2> QED BY <2>4, <2>5
<1> QED BY <1>1, <1>2, <1>3, NextSplit

(* Rounds and images agree in every state.                                 *)
LEMMA ImagesAlways == Spec => []ImagesHold
<1>1. Init => ImagesHold
  <2> SUFFICES ASSUME Init PROVE ImagesHold
    OBVIOUS
  <2>1. PICK cap, prep, rel, rnd, tok, lead, held :
          /\ RoundsInv(cap, prep, rel, rnd, tok, lead, held)
          /\ prep = cap /\ rel = cap /\ \A t \in Thread : rnd[t] = cap
    <3>1. \A t \in Thread : [u \in Thread |-> WORK_COUNT][t] = WORK_COUNT
      OBVIOUS
    <3> QED BY <3>1, RoundsInit
  <2>2. cap \in Nat
    BY <2>1 DEF RoundsInv, Ghosts
  <2>3. \A t \in Thread : pc[t] \notin Preparing /\ pc[t] \notin Fitted /\ pc[t] \notin Synced
    BY DEF Init, Preparing, Leading, Fitted, Synced, PastFrame
  <2>4. Reached(PastFrame, cap, prep, tok, lead, cap)
    BY <2>1, <2>2, <2>3 DEF Reached, PastFrame, Preparing, Leading
  <2>5. PICK ib, ic : /\ ib = [n \in Nat |-> 0] /\ ic = [s \in Screen |-> 0]
    OBVIOUS
  <2>6. ImgSlot(0) = 0
    BY ConstantsAssumption, ModUnique DEF ImgSlot
  <2>7. Images(cap, rel, rnd, cap, ib, ic)
    BY <2>1, <2>2, <2>3, <2>5, <2>6 DEF Init, Images
  <2>8. Dmas(cap, rnd, cap)
    BY <2>3 DEF Init, Dmas
  <2>9. ImagesInv(cap, prep, rel, rnd, tok, lead, held, cap, ib, ic)
    BY <2>1, <2>4, <2>7, <2>8 DEF ImagesInv
  <2> QED BY <2>9 DEF ImagesHold
<1>2. TypeOK /\ ImagesHold /\ [Next]_vars => ImagesHold'
  BY ImagesNext
<1> QED BY <1>1, <1>2, TypeCorrect, PTL DEF Spec

(* The encoders read the buffer the screen thread captured into, although  *)
(* init_bctx and do_screen look it up independently.                       *)
LEMMA ImagesSource ==
  ASSUME TypeOK, ImagesHold
  PROVE  SourceIsCaptured
<1> SUFFICES ASSUME NEW t \in Thread,
                    pc[t] \in (Leading \ {"init_bctx", "skip_release",
                                          "skip_wait"})
                                \cup {"start"} \cup Encoding
             PROVE  work_params[wi[t]] = Frame_buffer(bctx[wi[t]])
  BY DEF SourceIsCaptured
<1>a. PICK cap, prep, rel, rnd, tok, lead, held, k, ib, ic :
        ImagesInv(cap, prep, rel, rnd, tok, lead, held, k, ib, ic)
  BY DEF ImagesHold
<1>b. /\ RoundsInv(cap, prep, rel, rnd, tok, lead, held)
      /\ Reached(PastFrame, cap, prep, tok, lead, k)
      /\ Images(cap, rel, rnd, k, ib, ic) /\ cap \in Nat /\ prep \in Nat
  BY <1>a DEF ImagesInv, RoundsInv, Ghosts
<1>1. CASE pc[t] \in Fitted
  BY <1>b, <1>1 DEF Images
<1>2. CASE pc[t] \in PastFrame
  <2>1. pc[t] \in Preparing
    BY <1>2 DEF PastFrame, Preparing, Leading
  <2>2. rnd[t] = cap /\ wi[t] = Slot(cap)
    BY <1>b, <2>1, Leader
  <2>3. k = cap + 1
    BY <1>b, <1>2 DEF Reached
  <2>4. Captured(cap, k, ib, ic)
    BY <1>b, <2>2, <2>3 DEF Images
  <2> QED BY <2>2, <2>4 DEF Captured
<1>3. CASE pc[t] \in Doing
  <2>1. /\ rnd[t] \in Nat /\ rnd[t] \in 0 .. cap /\ rnd[t] < prep
        /\ wi[t] = Slot(rnd[t])
    BY <1>b, <1>3, Current
  <2>2. rnd[t] < k /\ rnd[t] <= rnd[t]
    BY <1>b, <2>1 DEF Reached
  <2>3. Captured(rnd[t], k, ib, ic)
    BY <1>b, <2>1, <2>2 DEF Images
  <2> QED BY <2>1, <2>3 DEF Captured
<1>4. pc[t] \in Fitted \cup PastFrame \cup Doing
  BY DEF Fitted, PastFrame, Doing, Leading, Encoding
<1> QED BY <1>1, <1>2, <1>3, <1>4

(* The buffer named by a frame's context is the one captured for it, for   *)
(* every number of works and buffers, whether or not DMAs are late.        *)
THEOREM SourceAlways == Spec => []SourceIsCaptured
<1>1. TypeOK /\ ImagesHold => SourceIsCaptured
  BY ImagesSource
<1> QED BY <1>1, TypeCorrect, ImagesAlways, PTL

(* A DMA goes into the buffer that is next, which is none of the last      *)
(* IMG_WORK_COUNT - 1 taken.                                               *)
LEMMA ImagesNoTearing ==
  ASSUME IMG_WORK_COUNT >= WORK_COUNT, TypeOK, SameFrame, ImagesHold
  PROVE  NoTearing
<1> SUFFICES ASSUME ~DMA_TIMEOUT, NEW t \in Thread, NEW w \in Work
             PROVE  /\ pc[t] \in Encoding => dma[w] # Frame_buffer(job[t])
                    /\ pc[t] = "skip_frame" => dma[w].screen # bctx[wi[t]].screen
  BY DEF NoTearing
<1>a. PICK cap, prep, rel, rnd, tok, lead, held, k, ib, ic :
        ImagesInv(cap, prep, rel, rnd, tok, lead, held, k, ib, ic)
  BY DEF ImagesHold
<1>b. /\ RoundsInv(cap, prep, rel, rnd, tok, lead, held)
      /\ Reached(PastFrame, cap, prep, tok, lead, k)
      /\ Images(cap, rel, rnd, k, ib, ic) /\ cap \in Nat /\ prep \in Nat
      /\ rnd \in [Thread -> Nat]
  BY <1>a DEF ImagesInv, RoundsInv, Ghosts
<1>c. /\ \A v \in Work : dma[v] # NoDma =>
           /\ v = Slot(cap) /\ k = cap
           /\ \A u \in Thread : rnd[u] + WORK_COUNT > cap
           /\ dma[v].img = img_index[dma[v].screen]
      /\ \A u \in Thread : pc[u] \in Synced => dma[wi[u]] = NoDma
  BY <1>a DEF ImagesInv, Dmas
<1>d. /\ bctx \in [Work -> Frame] /\ wi \in [Thread -> Work]
      /\ WORK_COUNT \in Nat /\ IMG_WORK_COUNT \in Nat \ {0}
      /\ ib \in [Nat -> Nat] /\ ic \in [Screen -> Nat]
  BY <1>b, ConstantsAssumption DEF TypeOK, Images
<1>e. bctx[wi[t]].screen \in Screen
  BY <1>d DEF Frame
<1>1. ASSUME pc[t] \in Encoding, dma[w] = Frame_buffer(job[t])
      PROVE  FALSE
  <2> DEFINE n == rnd[t]
             f == bctx[Slot(n)]
  <2>1. /\ n \in Nat /\ n \in 0 .. cap /\ n < prep /\ wi[t] = Slot(n)
    BY <1>b, <1>1, Current DEF Doing
  <2>2. job[t] = f /\ f.screen \in Screen
    BY <1>1, <1>e, <2>1 DEF SameFrame
  <2>3. dma[w].screen = f.screen /\ dma[w].img = f.img
    BY <1>1, <2>2 DEF Frame_buffer
  <2>4. dma[w] # NoDma
    BY <2>2, <2>3 DEF NoDma, Screen
  <2>5. k = cap /\ n + WORK_COUNT > cap /\ f.img = img_index[f.screen]
    BY <1>c, <2>3, <2>4
  <2>6. n < k /\ n <= n
    BY <1>b, <2>1 DEF Reached
  <2>7. Captured(n, k, ib, ic)
    BY <1>b, <2>1, <2>6 DEF Images
  <2>8. f.img = ImgSlot(ib[n]) /\ f.img = ImgSlot(ic[f.screen])
    BY <1>b, <2>2, <2>5, <2>7 DEF Captured, Images
  <2>9. /\ ib[n] \in Nat /\ ic[f.screen] \in Nat
        /\ ib[n] < ic[f.screen] /\ ic[f.screen] <= ib[n] + (cap - n)
    BY <1>d, <2>1, <2>2, <2>5, <2>7 DEF Captured
  <2>10. ib[n] <= ic[f.screen] /\ ic[f.screen] < ib[n] + IMG_WORK_COUNT
    <3> HIDE DEF n, f
    <3> QED BY <1>b, <1>d, <2>1, <2>5, <2>9
  <2>11. ib[n] = ic[f.screen]
    BY <1>d, <2>8, <2>9, <2>10, ModInjective DEF ImgSlot
  <2> HIDE DEF n, f
  <2> QED BY <2>9, <2>11
<1>2. ASSUME pc[t] = "skip_frame", dma[w].screen = bctx[wi[t]].screen
      PROVE  FALSE
  <2>1. pc[t] \in Preparing /\ pc[t] \in Synced
    BY <1>2 DEF Preparing, Leading, Synced, Fitted
  <2>2. wi[t] = Slot(cap) /\ dma[wi[t]] = NoDma
    BY <1>b, <1>c, <2>1, Leader
  <2>3. dma[w] = NoDma
    BY <1>c, <2>2
  <2> QED BY <1>2, <1>e, <2>3 DEF NoDma, Screen
<1> QED BY <1>1, <1>2

(* No DMA writes into a buffer that is being encoded or compared, when     *)
(* every DMA ends within dma_sync's wait and a screen has at least as many *)
(* buffers as there are works; IMG_WORK_COUNT and WORK_COUNT are both two. *)
THEOREM NoTearingAlways ==
  ASSUME IMG_WORK_COUNT >= WORK_COUNT
  PROVE  Spec => []NoTearing
<1>1. TypeOK /\ SameFrame /\ ImagesHold => NoTearing
  BY ImagesNoTearing
<1> QED BY <1>1, TypeCorrect, SameFrameAlways, ImagesAlways, PTL

-----------------------------------------------------------------------------
(***************************************************************************)
(* Sending, over plain UDP.  g counts the rounds whose packet header is    *)
(* written, N those the nwm thread has sent; E[n] holds the last id of     *)
(* each screen before round n.                                             *)
(***************************************************************************)

(* A thread that is not past round n finds the header of its own frame.    *)
Headed(cap, rnd, g) ==
  \A t \in Thread, n \in 0 .. cap :
    rnd[t] <= n /\ n < g => hdr[Slot(n)] = bctx[Slot(n)]

(* The nwm thread is at most WORK_COUNT rounds behind: nwm_ready is set    *)
(* for rounds it still has to send, nwm_done for rounds to come.           *)
Window(g, N) ==
  /\ N \in Nat /\ nw = Slot(N) /\ N <= g /\ g <= N + WORK_COUNT
  /\ npc \in {"send", "event", "done"} => N < g
  /\ \A n \in N .. N + WORK_COUNT - 1 :
       /\ nwm_ready[Slot(n)] = 1 => n < g
       /\ nwm_done[Slot(n)] = 1 => n >= g

(* The headers still to be sent continue the ids sent so far.              *)
InSequence(g, N, E) ==
  /\ E \in [Nat -> [Screen -> Id]]
  /\ sent = E[N]
  /\ \A n \in N .. g - 1 :
       LET h == hdr[Slot(n)] IN
       /\ h \in Frame
       /\ h.id = Next_wrapped(E[n][h.screen], FRAME_ID_COUNT)
       /\ E[n + 1] = [E[n] EXCEPT ![h.screen] = h.id]

(* CURRENT_FRAME_IDS holds the ids that come next.                         *)
Numbered(cap, k, g, N, E) ==
  /\ k <= g
  /\ \A t \in Thread : pc[t] = "nwm_ready" => N <= cap
  /\ \A s \in Screen : frame_ids[s] = Next_wrapped(E[k][s], FRAME_ID_COUNT)
  /\ \A t \in Thread :
       pc[t] \in Fitted => bctx[wi[t]].id = frame_ids[bctx[wi[t]].screen]
  /\ k = cap /\ g = cap + 1 =>
       LET f == bctx[Slot(cap)] IN
       E[cap + 1] = [E[cap] EXCEPT ![f.screen] = f.id]

Sends(cap, prep, rnd, tok, lead, k, g, N, E) ==
  /\ Reached(PastFrame, cap, prep, tok, lead, k)
  /\ Reached(PastHeader, cap, prep, tok, lead, g)
  /\ Headed(cap, rnd, g)
  /\ Window(g, N)
  /\ InSequence(g, N, E)
  /\ Numbered(cap, k, g, N, E)

SendsHold ==
  ~RELIABLE =>
    \E cap, prep, rel, rnd, tok, lead, held, k, g, N, E :
      /\ RoundsInv(cap, prep, rel, rnd, tok, lead, held)
      /\ Sends(cap, prep, rnd, tok, lead, k, g, N, E)

(* Only nwm_done_acquire writes a header, once per round.                  *)
LEMMA HeaderEdges ==
  ASSUME TypeOK, ~RELIABLE, NEW t \in Thread, Worker(t),
         ~Nwm_done_acquire(t)
  PROVE  /\ pc'[t] \in PastHeader => pc[t] \in PastHeader
         /\ pc'[t] \in Preparing \ PastHeader =>
              pc[t] \in (Preparing \ PastHeader) \cup {"claim"}
         /\ pc'[t] # "nwm_ready"
<1>1. Edge(pc[t], pc'[t])
  BY WorkerEdge
<1>2. /\ Edge(pc[t], pc'[t]) =>
           /\ pc'[t] \in PastHeader => pc[t] \in PastHeader \cup {"nwm_done"}
           /\ pc'[t] \in Preparing \ PastHeader =>
                pc[t] \in (Preparing \ PastHeader) \cup {"claim"}
           /\ pc'[t] = "nwm_ready" => pc[t] = "nwm_done"
  BY DEF Edge, PastHeader, PastFrame, Preparing, Leading
<1>3. pc[t] = "nwm_done" => pc'[t] = "exited"
  <2>1. pc[t] = "nwm_done" => Give_up(t)
    BY WorkerAt
  <2> QED BY <2>1 DEF Give_up, Goto, TypeOK
<1>4. "exited" \notin PastHeader
  BY DEF PastHeader, PastFrame
<1> QED BY <1>1, <1>2, <1>3, <1>4

(* The rows of two consecutive states when a step writes none of them.     *)
LEMMA HeadedKept ==
  ASSUME NEW cap, NEW prep, NEW rel, NEW rnd, NEW tok, NEW lead,
         NEW held, RoundsInv(cap, prep, rel, rnd, tok, lead, held),
         NEW cap2, NEW prep2, NEW rel2, NEW rnd2, NEW tok2, NEW lead2,
         NEW held2, RoundsInv(cap2, prep2, rel2, rnd2, tok2, lead2, held2)',
         Moves(cap, prep, rel, rnd, tok, lead,
               cap2, prep2, rel2, rnd2, tok2, lead2),
         NEW g, g \in {cap, cap + 1}, Headed(cap, rnd, g),
         UNCHANGED <<hdr, bctx>>
  PROVE  Headed(cap2, rnd2, g)'
<1>1. /\ cap \in Nat /\ cap2 \in Nat
      /\ rnd \in [Thread -> Nat] /\ rnd2 \in [Thread -> Nat]
      /\ \A u \in Thread : rnd[u] <= rnd2[u]
  BY DEF RoundsInv, Ghosts, Moves
<1>2. ASSUME NEW t \in Thread, NEW n \in 0 .. cap2, rnd2[t] <= n, n < g
      PROVE  hdr'[Slot(n)] = bctx'[Slot(n)]
  <2>1. n \in 0 .. cap /\ rnd[t] <= n
    BY <1>1, <1>2
  <2> QED BY <1>2, <2>1 DEF Headed
<1> QED BY <1>2 DEF Headed

(* While the leader fills in the context or writes the header of round cap,*)
(* the headers of the earlier rounds in flight stay.                       *)
LEMMA HeadedLead ==
  ASSUME TypeOK, NEW cap, NEW prep, NEW rel, NEW rnd, NEW tok, NEW lead,
         NEW held, RoundsInv(cap, prep, rel, rnd, tok, lead, held),
         NEW cap2, NEW prep2, NEW rel2, NEW rnd2, NEW tok2, NEW lead2,
         NEW held2, RoundsInv(cap2, prep2, rel2, rnd2, tok2, lead2, held2)',
         Moves(cap, prep, rel, rnd, tok, lead,
               cap2, prep2, rel2, rnd2, tok2, lead2),
         Headed(cap, rnd, cap), NEW t \in Thread, NEW g,
         \/ Init_bctx(t) /\ g = cap
         \/ Nwm_done_acquire(t) /\ g = cap + 1
  PROVE  Headed(cap2, rnd2, g)'
<1>a. /\ bctx \in [Work -> Frame] /\ hdr \in [Work -> Frame \cup {NoFrame}]
  BY DEF TypeOK
<1>b. pc[t] \in Preparing
  BY DEF Init_bctx, Nwm_done_acquire, Preparing, Leading
<1>c. /\ wi[t] = Slot(cap) /\ rel = cap + 1 /\ prep = cap
      /\ Slot(cap) \in Work
  BY <1>b, Leader
<1>d. /\ cap \in Nat /\ cap2 = cap /\ WORK_COUNT \in Nat \ {0}
      /\ rnd \in [Thread -> Nat] /\ rnd2 \in [Thread -> Nat]
      /\ \A u \in Thread : rnd[u] <= rnd2[u]
      /\ \A u \in Thread : rel <= rnd[u] + WORK_COUNT
  BY <1>c, ConstantsAssumption DEF RoundsInv, Ghosts, Moves, Rounds
<1>e. /\ \A w \in Work : w # Slot(cap) => hdr'[w] = hdr[w] /\ bctx'[w] = bctx[w]
      /\ g = cap + 1 => hdr'[Slot(cap)] = bctx'[Slot(cap)]
  BY <1>a, <1>c, <1>d DEF Init_bctx, Nwm_done_acquire, nwm, works
<1>1. ASSUME NEW u \in Thread, NEW n \in 0 .. cap, rnd2[u] <= n, n < g
      PROVE  hdr'[Slot(n)] = bctx'[Slot(n)]
  <2>1. CASE n = cap
    BY <1>d, <1>e, <1>1, <2>1
  <2>2. CASE n # cap
    <3>1. /\ n \in Nat /\ rnd[u] <= n /\ n < cap /\ rel \in Nat
          /\ n < rel /\ cap < rel /\ rel <= n + WORK_COUNT
          /\ rel <= cap + WORK_COUNT
      BY <1>c, <1>d, <1>1, <2>2
    <3>2. Slot(n) # Slot(cap)
      BY <1>d, <3>1, SlotApart
    <3>3. hdr[Slot(n)] = bctx[Slot(n)]
      BY <1>1, <3>1 DEF Headed
    <3> QED BY <1>e, <3>1, <3>2, <3>3, SlotType
  <2> QED BY <2>1, <2>2
<1> QED BY <1>1, <1>d DEF Headed

(* Steps that neither number a frame nor fill in a context.                *)
LEMMA NumberedKept ==
  ASSUME NEW cap, NEW prep, NEW rel, NEW rnd, NEW tok, NEW lead,
         NEW held, RoundsInv(cap, prep, rel, rnd, tok, lead, held),
         NEW cap2, NEW prep2, NEW rel2, NEW rnd2, NEW tok2, NEW lead2,
         NEW held2, RoundsInv(cap2, prep2, rel2, rnd2, tok2, lead2, held2)',
         Moves(cap, prep, rel, rnd, tok, lead,
               cap2, prep2, rel2, rnd2, tok2, lead2),
         NEW k, NEW g, g \in {cap, cap + 1}, NEW N \in Nat, NEW E,
         Numbered(cap, k, g, N, E), UNCHANGED <<frame_ids, bctx>>,
         \A t \in Thread :
           pc'[t] \in Fitted => pc[t] \in Fitted /\ wi'[t] = wi[t],
         \A t \in Thread : pc'[t] = "nwm_ready" => pc[t] = "nwm_ready"
  PROVE  Numbered(cap2, k, g, N, E)'
<1>1. cap \in Nat /\ cap2 \in {cap, cap + 1}
  BY DEF RoundsInv, Ghosts, Moves
<1>2. \A t \in Thread : pc'[t] = "nwm_ready" => N <= cap2
  BY <1>1 DEF Numbered
<1>3. ASSUME k = cap2, g = cap2 + 1
      PROVE  /\ cap2 = cap
             /\ E[cap + 1] = [E[cap] EXCEPT ![bctx'[Slot(cap)].screen]
                                         = bctx'[Slot(cap)].id]
  <2>1. cap2 = cap
    BY <1>1, <1>3
  <2> QED BY <1>3, <2>1 DEF Numbered
<1>4. ASSUME NEW t \in Thread, pc'[t] \in Fitted
      PROVE  bctx'[wi'[t]].id = frame_ids'[bctx'[wi'[t]].screen]
  BY <1>4 DEF Numbered
<1> QED BY <1>2, <1>3, <1>4 DEF Numbered

(* init_bctx gives the frame the id that comes next.                       *)
LEMMA NumberedInitBctx ==
  ASSUME TypeOK, NEW cap, NEW prep, NEW rel, NEW rnd, NEW tok, NEW lead,
         NEW held, RoundsInv(cap, prep, rel, rnd, tok, lead, held),
         NEW cap2, NEW prep2, NEW rel2, NEW rnd2, NEW tok2, NEW lead2,
         NEW held2, RoundsInv(cap2, prep2, rel2, rnd2, tok2, lead2, held2)',
         Moves(cap, prep, rel, rnd, tok, lead,
               cap2, prep2, rel2, rnd2, tok2, lead2),
         NEW k, NEW N, NEW E, Numbered(cap, k, cap, N, E),
         NEW t \in Thread, Init_bctx(t)
  PROVE  Numbered(cap2, k, cap, N, E)'
<1>a. /\ bctx \in [Work -> Frame] /\ pc \in [Thread -> Control]
      /\ wi \in [Thread -> Work]
  BY DEF TypeOK
<1>b. pc[t] = "init_bctx" /\ pc[t] \in Preparing
  BY DEF Init_bctx, Preparing, Leading
<1>c. /\ prep = cap /\ \A u \in Thread : pc[u] \in Preparing => u = t
  BY <1>b, Leader
<1>d. cap \in Nat /\ cap2 = cap
  BY <1>c DEF RoundsInv, Ghosts, Moves
<1>e. /\ UNCHANGED <<frame_ids, wi>> /\ pc' = [pc EXCEPT ![t] = "dma_sync"]
      /\ bctx'[wi[t]].id = frame_ids[bctx'[wi[t]].screen]
  BY <1>a DEF Init_bctx, Goto, imgs
<1>1. \A u \in Thread : pc'[u] \in Fitted \/ pc'[u] = "nwm_ready" =>
        u = t /\ pc'[u] = "dma_sync"
  BY <1>a, <1>c, <1>e DEF Fitted, Preparing, Leading
<1>2. \A u \in Thread :
        pc'[u] \in Fitted => bctx'[wi'[u]].id = frame_ids'[bctx'[wi'[u]].screen]
  BY <1>e, <1>1
<1>3. cap # cap2 + 1
  BY <1>d
<1> QED BY <1>d, <1>e, <1>1, <1>2, <1>3 DEF Numbered

(* frame_release: the id is used up.                                       *)
LEMMA NumberedFrameRelease ==
  ASSUME TypeOK, NEW cap, NEW prep, NEW rel, NEW rnd, NEW tok, NEW lead,
         NEW held, RoundsInv(cap, prep, rel, rnd, tok, lead, held),
         NEW cap2, NEW prep2, NEW rel2, NEW rnd2, NEW tok2, NEW lead2,
         NEW held2, RoundsInv(cap2, prep2, rel2, rnd2, tok2, lead2, held2)',
         Moves(cap, prep, rel, rnd, tok, lead,
               cap2, prep2, rel2, rnd2, tok2, lead2),
         NEW N, NEW E \in [Nat -> [Screen -> Id]],
         Numbered(cap, cap, cap + 1, N, E),
         NEW t \in Thread, Frame_release(t)
  PROVE  Numbered(cap2, cap + 1, cap + 1, N, E)'
<1> DEFINE f == bctx[Slot(cap)]
<1>a. /\ bctx \in [Work -> Frame] /\ pc \in [Thread -> Control]
      /\ frame_ids \in [Screen -> Id]
  BY DEF TypeOK
<1>b. pc[t] = "frame" /\ pc[t] \in Preparing
  BY DEF Frame_release, Preparing, Leading
<1>c. /\ wi[t] = Slot(cap) /\ prep = cap /\ Slot(cap) \in Work
      /\ \A u \in Thread : pc[u] \in Preparing => u = t
  BY <1>b, Leader
<1>d. cap \in Nat /\ cap2 = cap
  BY <1>c DEF RoundsInv, Ghosts, Moves
<1>e. /\ frame_ids' = [frame_ids EXCEPT ![f.screen] =
                         Next_wrapped(@, FRAME_ID_COUNT)]
      /\ pc' = [pc EXCEPT ![t] = "flags"]
  BY <1>c DEF Frame_release, Goto
<1>f. f.screen \in Screen /\ f.id = frame_ids[f.screen]
  BY <1>a, <1>b, <1>c DEF Numbered, Fitted, Frame
<1>g. E[cap + 1] = [E[cap] EXCEPT ![f.screen] = f.id] /\ E[cap] \in [Screen -> Id]
  BY <1>d DEF Numbered
<1>1. ASSUME NEW s \in Screen
      PROVE  frame_ids'[s] = Next_wrapped(E[cap + 1][s], FRAME_ID_COUNT)
  <2>1. CASE s = f.screen
    BY <1>a, <1>e, <1>f, <1>g, <2>1
  <2>2. CASE s # f.screen
    BY <1>a, <1>e, <1>f, <1>g, <2>2 DEF Numbered
  <2> QED BY <2>1, <2>2
<1>2. \A u \in Thread : pc'[u] \notin Fitted /\ pc'[u] # "nwm_ready"
  BY <1>a, <1>c, <1>e DEF Fitted, Preparing, Leading
<1>3. cap + 1 # cap2 /\ cap + 1 <= cap + 1
  BY <1>d
<1> QED BY <1>1, <1>2, <1>3 DEF Numbered

(* nwm_ready_release lets the nwm thread have round cap.                   *)
LEMMA WindowReady ==
  ASSUME TypeOK, NEW cap, NEW prep, NEW rel, NEW rnd, NEW tok, NEW lead,
         NEW held, RoundsInv(cap, prep, rel, rnd, tok, lead, held),
         NEW N, Window(cap + 1, N), NEW k, NEW E,
         Numbered(cap, k, cap + 1, N, E),
         NEW t \in Thread, Nwm_ready_release(t)
  PROVE  Window(cap + 1, N)'
<1>a. pc[t] = "nwm_ready" /\ pc[t] \in Preparing
  BY DEF Nwm_ready_release, Preparing, Leading
<1>b. wi[t] = Slot(cap) /\ cap \in Nat
  BY <1>a, Leader DEF RoundsInv, Ghosts
<1>c. /\ N \in Nat /\ N <= cap /\ cap < N + WORK_COUNT /\ WORK_COUNT \in Nat
  BY <1>a, <1>b, ConstantsAssumption DEF Window, Numbered
<1>d. /\ nwm_ready \in [Work -> 0 .. 1]
      /\ nwm_ready' = [nwm_ready EXCEPT ![Slot(cap)] = Released(@, 1, 1)]
      /\ UNCHANGED <<nwm_done, npc, nw>>
  BY <1>b DEF Nwm_ready_release, TypeOK, nwm
<1>1. ASSUME NEW n \in N .. N + WORK_COUNT - 1, nwm_ready'[Slot(n)] = 1
      PROVE  n < cap + 1
  <2>1. n \in Nat /\ Slot(n) \in Work
    BY <1>c, SlotType
  <2>2. CASE n <= cap
    BY <1>b, <2>1, <2>2
  <2>3. CASE n > cap
    <3>1. Slot(n) # Slot(cap)
      BY <1>b, <1>c, <2>1, <2>3, SlotInjective
    <3>2. nwm_ready'[Slot(n)] = nwm_ready[Slot(n)]
      BY <1>d, <2>1, <3>1
    <3> QED BY <1>1, <3>2 DEF Window
  <2> QED BY <1>b, <2>1, <2>2, <2>3
<1> QED BY <1>d, <1>1 DEF Window

(* nwm_done_acquire: round cap gets its header, which continues the ids;   *)
(* the nwm thread is through with the round that had the work before.      *)
LEMMA SendsHeader ==
  ASSUME TypeOK, NEW cap, NEW prep, NEW rel, NEW rnd, NEW tok, NEW lead,
         NEW held, RoundsInv(cap, prep, rel, rnd, tok, lead, held),
         NEW N, NEW E, Window(cap, N), InSequence(cap, N, E),
         Numbered(cap, cap, cap, N, E),
         NEW t \in Thread, Nwm_done_acquire(t)
  PROVE  \E E2 : /\ Window(cap + 1, N)'
                 /\ InSequence(cap + 1, N, E2)'
                 /\ Numbered(cap, cap, cap + 1, N, E2)'
<1> DEFINE f == bctx[Slot(cap)]
<1>a. /\ bctx \in [Work -> Frame] /\ pc \in [Thread -> Control]
      /\ hdr \in [Work -> Frame \cup {NoFrame}]
      /\ nwm_done \in [Work -> 0 .. 1] /\ wi \in [Thread -> Work]
  BY DEF TypeOK
<1>b. pc[t] = "nwm_done" /\ pc[t] \in Preparing
  BY DEF Nwm_done_acquire, Preparing, Leading
<1>c. /\ wi[t] = Slot(cap) /\ Slot(cap) \in Work /\ cap \in Nat
      /\ \A u \in Thread : pc[u] \in Preparing => u = t
  BY <1>b, Leader DEF RoundsInv, Ghosts
<1>d. /\ nwm_done[Slot(cap)] = 1
      /\ nwm_done' = [nwm_done EXCEPT ![Slot(cap)] = 0]
      /\ hdr' = [hdr EXCEPT ![Slot(cap)] = f]
      /\ pc' = [pc EXCEPT ![t] = "nwm_ready"]
      /\ UNCHANGED <<nwm_ready, npc, nw, sent, bctx, wi, frame_ids>>
  <2>1. nwm_done[Slot(cap)] > 0
    BY <1>c DEF Nwm_done_acquire
  <2>2. nwm_done[Slot(cap)] = 1
    BY <1>a, <1>c, <2>1
  <2>3. nwm_done' = [nwm_done EXCEPT ![Slot(cap)] = 0]
    BY <1>a, <1>c, <2>2 DEF Nwm_done_acquire
  <2> QED BY <1>c, <2>2, <2>3 DEF Nwm_done_acquire, Goto, works, imgs
<1>e. /\ N \in Nat /\ N <= cap /\ cap <= N + WORK_COUNT
      /\ WORK_COUNT \in Nat \ {0}
      /\ E \in [Nat -> [Screen -> Id]]
  BY ConstantsAssumption DEF Window, InSequence
<1>f. cap < N + WORK_COUNT
  <2> SUFFICES ASSUME cap = N + WORK_COUNT PROVE FALSE
    BY <1>c, <1>e
  <2>1. Slot(N) = Slot(cap) /\ N \in N .. N + WORK_COUNT - 1
    BY <1>e, SlotWrap
  <2>2. N >= cap
    BY <1>d, <2>1 DEF Window
  <2> QED BY <1>e, <2>2
<1>g. /\ f \in Frame /\ f.screen \in Screen /\ f.id \in Id
      /\ f.id = frame_ids[f.screen]
      /\ f.id = Next_wrapped(E[cap][f.screen], FRAME_ID_COUNT)
  <2>1. f \in Frame /\ f.screen \in Screen /\ f.id \in Id
    BY <1>a, <1>c DEF Frame
  <2>2. f.id = frame_ids[f.screen]
    BY <1>b, <1>c DEF Numbered, Fitted
  <2> QED BY <2>1, <2>2 DEF Numbered
<1>h. PICK E2 : E2 = [E EXCEPT ![cap + 1] = [E[cap] EXCEPT ![f.screen] = f.id]]
  OBVIOUS
<1>i. /\ E2 \in [Nat -> [Screen -> Id]]
      /\ E2[cap + 1] = [E[cap] EXCEPT ![f.screen] = f.id]
      /\ \A n \in Nat : n # cap + 1 => E2[n] = E[n]
  BY <1>c, <1>e, <1>g, <1>h
<1>1. Window(cap + 1, N)'
  <2>1. ASSUME NEW n \in N .. N + WORK_COUNT - 1
        PROVE  /\ nwm_ready'[Slot(n)] = 1 => n < cap + 1
               /\ nwm_done'[Slot(n)] = 1 => n >= cap + 1
    <3>1. n \in Nat /\ Slot(n) \in Work
      BY <1>e, SlotType
    <3>2. nwm_ready[Slot(n)] = 1 => n < cap
      BY <2>1 DEF Window
    <3>3. ASSUME nwm_done'[Slot(n)] = 1
          PROVE  n >= cap /\ n # cap
      <4>1. Slot(n) # Slot(cap)
        BY <1>a, <1>d, <3>1, <3>3
      <4>2. nwm_done[Slot(n)] = 1
        BY <1>a, <1>d, <3>1, <3>3, <4>1
      <4> QED BY <4>1, <4>2 DEF Window
    <3> QED BY <1>c, <1>d, <3>1, <3>2, <3>3
  <2> QED BY <1>c, <1>d, <1>e, <1>f, <2>1 DEF Window
<1>2. InSequence(cap + 1, N, E2)'
  <2>1. sent' = E2[N]
    <3>1. N # cap + 1
      BY <1>c, <1>e
    <3> QED BY <1>d, <1>e, <1>i, <3>1 DEF InSequence
  <2>2. ASSUME NEW n \in N .. (cap + 1) - 1
        PROVE  /\ hdr'[Slot(n)] \in Frame
               /\ hdr'[Slot(n)].id =
                    Next_wrapped(E2[n][hdr'[Slot(n)].screen], FRAME_ID_COUNT)
               /\ E2[n + 1] = [E2[n] EXCEPT ![hdr'[Slot(n)].screen] =
                                              hdr'[Slot(n)].id]
    <3>1. /\ n \in Nat /\ n + 1 \in Nat /\ n <= cap /\ n # cap + 1
          /\ N <= n
      BY <1>c, <1>e
    <3>2. E2[n] = E[n] /\ Slot(n) \in Work
      BY <1>i, <3>1, SlotType
    <3>3. CASE n = cap
      <4>1. hdr'[Slot(n)] = f
        BY <1>a, <1>c, <1>d, <3>3
      <4> QED BY <1>g, <1>i, <3>2, <3>3, <4>1
    <3>4. CASE n # cap
      <4>1. cap < n + WORK_COUNT /\ n + 1 # cap + 1
        BY <1>c, <1>e, <1>f, <3>1, <3>4
      <4>2. Slot(n) # Slot(cap)
        BY <1>c, <3>1, <3>4, <4>1, SlotInjective
      <4>3. hdr'[Slot(n)] = hdr[Slot(n)] /\ E2[n + 1] = E[n + 1]
        BY <1>a, <1>d, <1>i, <3>1, <3>2, <4>1, <4>2
      <4>4. n \in N .. cap - 1
        BY <1>c, <1>e, <3>1, <3>4
      <4> QED BY <3>2, <4>3, <4>4 DEF InSequence
    <3> QED BY <3>3, <3>4
  <2> QED BY <1>i, <2>1, <2>2 DEF InSequence
<1>3. Numbered(cap, cap, cap + 1, N, E2)'
  <2>1. ASSUME NEW u \in Thread, pc'[u] \in Fitted
        PROVE  bctx'[wi'[u]].id = frame_ids'[bctx'[wi'[u]].screen]
    <3>1. u = t
      BY <1>a, <1>c, <1>d, <2>1 DEF Fitted, Preparing, Leading
    <3> QED BY <1>c, <1>d, <1>g, <3>1
  <2>2. E2[cap] = E[cap]
    BY <1>c, <1>i
  <2>3. cap <= cap + 1
    BY <1>c
  <2>4. \A s \in Screen :
          frame_ids'[s] = Next_wrapped(E2[cap][s], FRAME_ID_COUNT)
    BY <1>d, <2>2 DEF Numbered
  <2>5. E2[cap + 1] = [E2[cap] EXCEPT ![bctx'[Slot(cap)].screen] =
                                        bctx'[Slot(cap)].id]
    BY <1>d, <1>i, <2>2
  <2> QED BY <1>e, <2>1, <2>3, <2>4, <2>5 DEF Numbered
<1> QED BY <1>1, <1>2, <1>3

(* The nwm thread has sent round N.                                        *)
LEMMA SendsNwmDone ==
  ASSUME TypeOK, NwmToken, NEW cap, NEW prep, NEW rel, NEW rnd, NEW tok,
         NEW lead, NEW held, RoundsInv(cap, prep, rel, rnd, tok, lead, held),
         NEW k, NEW g \in Nat, NEW N, NEW E, Window(g, N), InSequence(g, N, E),
         Numbered(cap, k, g, N, E), Nwm_done_release
  PROVE  /\ sent'[hdr[nw].screen] =
              Next_wrapped(sent[hdr[nw].screen], FRAME_ID_COUNT)
         /\ Window(g, N + 1)' /\ InSequence(g, N + 1, E)'
         /\ Numbered(cap, k, g, N + 1, E)'
<1>a. /\ npc = "done" /\ npc' = "acquire"
      /\ nwm_done' = [nwm_done EXCEPT ![nw] = Released(@, 1, 1)]
      /\ sent' = [sent EXCEPT ![hdr[nw].screen] = hdr[nw].id]
      /\ nw' = Next_wrapped(nw, WORK_COUNT)
      /\ UNCHANGED <<nwm_ready, hdr, pc, wi, bctx, frame_ids>>
  BY DEF Nwm_done_release, Need_syn, nwm_frame, works, imgs, worker
<1>b. /\ N \in Nat /\ nw = Slot(N) /\ N < g /\ g <= N + WORK_COUNT
      /\ WORK_COUNT \in Nat \ {0} /\ N \in N .. g - 1 /\ Slot(N) \in Work
      /\ E \in [Nat -> [Screen -> Id]]
  <2>1. /\ N \in Nat /\ nw = Slot(N) /\ N < g /\ g <= N + WORK_COUNT
        /\ WORK_COUNT \in Nat \ {0} /\ E \in [Nat -> [Screen -> Id]]
    BY <1>a, ConstantsAssumption DEF Window, InSequence
  <2> QED BY <2>1, SlotType
<1>c. /\ nwm_done \in [Work -> 0 .. 1] /\ nwm_ready \in [Work -> 0 .. 1]
      /\ sent \in [Screen -> Id]
  BY DEF TypeOK
<1>d. nwm_ready[Slot(N)] = 0
  <2>1. Sending(Slot(N)) = 1
    BY <1>a, <1>b DEF Sending
  <2>2. nwm_done[Slot(N)] + nwm_ready[Slot(N)] + Sending(Slot(N)) <= 1
    BY <1>b DEF NwmToken
  <2> QED BY <1>b, <1>c, <2>1, <2>2
<1>e. /\ hdr[Slot(N)] \in Frame /\ sent = E[N]
      /\ hdr[Slot(N)].id =
           Next_wrapped(E[N][hdr[Slot(N)].screen], FRAME_ID_COUNT)
      /\ E[N + 1] = [E[N] EXCEPT ![hdr[Slot(N)].screen] = hdr[Slot(N)].id]
  BY <1>b DEF InSequence
<1>1. /\ sent' = E[N + 1]
      /\ sent'[hdr[nw].screen] =
           Next_wrapped(sent[hdr[nw].screen], FRAME_ID_COUNT)
  <2>1. hdr[Slot(N)].screen \in Screen
    BY <1>e DEF Frame
  <2> QED BY <1>a, <1>b, <1>c, <1>e, <2>1
<1>2. Window(g, N + 1)'
  <2>1. ASSUME NEW n \in N + 1 .. (N + 1) + WORK_COUNT - 1
        PROVE  /\ nwm_ready'[Slot(n)] = 1 => n < g
               /\ nwm_done'[Slot(n)] = 1 => n >= g
    <3>1. n \in Nat /\ N < n /\ n <= N + WORK_COUNT /\ Slot(n) \in Work
      <4>1. n \in Nat /\ N < n /\ n <= N + WORK_COUNT
        BY <1>b
      <4> QED BY <4>1, SlotType
    <3>2. CASE n = N + WORK_COUNT
      <4>1. Slot(n) = Slot(N)
        BY <1>b, <3>2, SlotWrap
      <4> QED BY <1>a, <1>b, <1>d, <3>2, <4>1
    <3>3. CASE n < N + WORK_COUNT
      <4>1. Slot(n) # Slot(N)
        BY <1>b, <3>1, <3>3, SlotInjective
      <4>2. /\ nwm_done'[Slot(n)] = nwm_done[Slot(n)]
            /\ nwm_ready'[Slot(n)] = nwm_ready[Slot(n)]
        BY <1>a, <1>b, <1>c, <3>1, <4>1
      <4>3. n \in N .. N + WORK_COUNT - 1
        BY <1>b, <3>1, <3>3
      <4> QED BY <4>2, <4>3 DEF Window
    <3> QED BY <1>b, <3>1, <3>2, <3>3
  <2>2. nw' = Slot(N + 1)
    BY <1>a, <1>b, SlotNext
  <2> QED BY <1>a, <1>b, <2>1, <2>2 DEF Window
<1>3. InSequence(g, N + 1, E)'
  <2>1. ASSUME NEW n \in N + 1 .. g - 1
        PROVE  /\ hdr'[Slot(n)] \in Frame
               /\ hdr'[Slot(n)].id =
                    Next_wrapped(E[n][hdr'[Slot(n)].screen], FRAME_ID_COUNT)
               /\ E[n + 1] = [E[n] EXCEPT ![hdr'[Slot(n)].screen] =
                                            hdr'[Slot(n)].id]
    <3>1. n \in N .. g - 1
      BY <1>b
    <3> QED BY <1>a, <3>1 DEF InSequence
  <2> QED BY <1>1, <1>b, <2>1 DEF InSequence
<1>4. Numbered(cap, k, g, N + 1, E)'
  <2>1. ASSUME NEW t \in Thread, pc[t] = "nwm_ready"
        PROVE  N + 1 <= cap
    <3>1. pc[t] \in Preparing
      BY <2>1 DEF Preparing, Leading
    <3>2. wi[t] = Slot(cap) /\ cap \in Nat
      BY <3>1, Leader DEF RoundsInv, Ghosts
    <3>3. Sending(Slot(cap)) = 0
      BY <2>1, <3>2 DEF NwmToken
    <3>4. N # cap
      BY <1>a, <1>b, <3>3 DEF Sending
    <3>5. N <= cap
      BY <2>1 DEF Numbered
    <3> QED BY <1>b, <3>2, <3>4, <3>5
  <2> QED BY <1>a, <2>1 DEF Numbered
<1> QED BY <1>1, <1>2, <1>3, <1>4

(* Every step of a work thread keeps the frames in order.                  *)
LEMMA SendsWorker ==
  ASSUME TypeOK, ~RELIABLE, SendsHold, NEW t \in Thread, Worker(t)
  PROVE  SendsHold'
<1>a. PICK cap, prep, rel, rnd, tok, lead, held, k, g, N, E :
        /\ RoundsInv(cap, prep, rel, rnd, tok, lead, held)
        /\ Sends(cap, prep, rnd, tok, lead, k, g, N, E)
  BY DEF SendsHold
<1>b. /\ Reached(PastFrame, cap, prep, tok, lead, k)
      /\ Reached(PastHeader, cap, prep, tok, lead, g)
      /\ Headed(cap, rnd, g) /\ Window(g, N) /\ InSequence(g, N, E)
      /\ Numbered(cap, k, g, N, E)
  BY <1>a DEF Sends
<1>c. PICK cap2, prep2, rel2, rnd2, tok2, lead2, held2 :
        /\ RoundsInv(cap2, prep2, rel2, rnd2, tok2, lead2, held2)'
        /\ Moves(cap, prep, rel, rnd, tok, lead,
                 cap2, prep2, rel2, rnd2, tok2, lead2)
  BY <1>a, RoundsNext DEF Follows, Next
<1>d. /\ "quality" \in PastFrame /\ "skip_release" \notin PastFrame
      /\ PastFrame \subseteq Preparing
      /\ "quality" \in PastHeader /\ "skip_release" \notin PastHeader
      /\ PastHeader \subseteq Preparing
  BY DEF PastHeader, PastFrame, Preparing, Leading
<1>e. /\ cap \in Nat /\ g \in {cap, cap + 1} /\ N \in Nat
      /\ E \in [Nat -> [Screen -> Id]] /\ pc \in [Thread -> Control]
  BY <1>a, <1>b DEF RoundsInv, Ghosts, Reached, Window, InSequence, TypeOK
<1>f. \A u \in Thread : u # t => pc'[u] = pc[u] /\ wi'[u] = wi[u]
  BY WorkerEdge
<1>g. ~Frame_release(t) =>
        /\ Reached(PastFrame, cap2, prep2, tok2, lead2, k)'
        /\ ~Init_bctx(t) => \A u \in Thread :
             pc'[u] \in Fitted => pc[u] \in Fitted /\ wi'[u] = wi[u]
  <2> SUFFICES ASSUME ~Frame_release(t)
               PROVE  /\ Reached(PastFrame, cap2, prep2, tok2, lead2, k)'
                      /\ ~Init_bctx(t) => \A u \in Thread :
                           pc'[u] \in Fitted =>
                             pc[u] \in Fitted /\ wi'[u] = wi[u]
    OBVIOUS
  <2>1. /\ pc'[t] \in PastFrame => pc[t] \in PastFrame
        /\ pc'[t] \in Preparing \ PastFrame =>
             pc[t] \in (Preparing \ PastFrame) \cup {"claim"}
        /\ pc'[t] \in Fitted => wi'[t] = wi[t]
        /\ pc'[t] \in Fitted /\ ~Init_bctx(t) => pc[t] \in Fitted
    BY FrameEdges
  <2>2. Reached(PastFrame, cap2, prep2, tok2, lead2, k)'
    BY <1>a, <1>b, <1>c, <1>d, <1>f, <2>1, ReachedKept
  <2> QED BY <1>f, <2>1, <2>2
<1>h. ~Nwm_done_acquire(t) =>
        /\ Reached(PastHeader, cap2, prep2, tok2, lead2, g)'
        /\ \A u \in Thread : pc'[u] = "nwm_ready" => pc[u] = "nwm_ready"
  <2> SUFFICES ASSUME ~Nwm_done_acquire(t)
               PROVE  /\ Reached(PastHeader, cap2, prep2, tok2, lead2, g)'
                      /\ \A u \in Thread :
                           pc'[u] = "nwm_ready" => pc[u] = "nwm_ready"
    OBVIOUS
  <2>1. /\ pc'[t] \in PastHeader => pc[t] \in PastHeader
        /\ pc'[t] \in Preparing \ PastHeader =>
             pc[t] \in (Preparing \ PastHeader) \cup {"claim"}
        /\ pc'[t] # "nwm_ready"
    BY HeaderEdges
  <2>2. Reached(PastHeader, cap2, prep2, tok2, lead2, g)'
    BY <1>a, <1>b, <1>c, <1>d, <1>f, <2>1, ReachedKept
  <2> QED BY <1>f, <2>1, <2>2
<1> SUFFICES \E k2, g2, E2 :
               /\ Reached(PastFrame, cap2, prep2, tok2, lead2, k2)'
               /\ Reached(PastHeader, cap2, prep2, tok2, lead2, g2)'
               /\ Headed(cap2, rnd2, g2)' /\ Window(g2, N)'
               /\ InSequence(g2, N, E2)' /\ Numbered(cap2, k2, g2, N, E2)'
  <2>1. PICK k2, g2, E2 :
               /\ Reached(PastFrame, cap2, prep2, tok2, lead2, k2)'
               /\ Reached(PastHeader, cap2, prep2, tok2, lead2, g2)'
               /\ Headed(cap2, rnd2, g2)' /\ Window(g2, N)'
               /\ InSequence(g2, N, E2)' /\ Numbered(cap2, k2, g2, N, E2)'
    OBVIOUS
  <2>2. Sends(cap2, prep2, rnd2, tok2, lead2, k2, g2, N, E2)'
    BY <2>1 DEF Sends
  <2> QED BY <1>c, <2>2 DEF SendsHold
<1>1. CASE Nwm_done_acquire(t)
  <2>1. /\ pc[t] = "nwm_done" /\ pc'[t] = "nwm_ready" /\ ~Frame_release(t)
    BY <1>1, <1>e DEF Nwm_done_acquire, Goto, Frame_release
  <2>2. /\ pc[t] \in Preparing \ PastHeader /\ pc[t] \in Preparing \ PastFrame
        /\ pc[t] \notin {"skip_release", "skip_wait"} /\ pc'[t] \in PastHeader
    BY <2>1 DEF PastHeader, PastFrame, Preparing, Leading
  <2>3. /\ g = cap /\ k = cap /\ cap2 = cap
        /\ Reached(PastHeader, cap2, prep2, tok2, lead2, cap + 1)'
    <3>1. k = cap
      BY <1>b, <2>2 DEF Reached
    <3> QED BY <1>a, <1>b, <1>c, <1>d, <1>f, <2>2, <3>1, ReachedNew
  <2>4. Headed(cap2, rnd2, cap + 1)'
    BY <1>1, <1>a, <1>b, <1>c, <2>3, HeadedLead
  <2>5. \E E2 : /\ Window(cap + 1, N)' /\ InSequence(cap + 1, N, E2)'
                /\ Numbered(cap, cap, cap + 1, N, E2)'
    BY <1>1, <1>a, <1>b, <2>3, SendsHeader
  <2> QED BY <1>g, <2>1, <2>3, <2>4, <2>5
<1>2. CASE Init_bctx(t)
  <2>1. pc[t] = "init_bctx"
    BY <1>2 DEF Init_bctx
  <2>2. ~Nwm_done_acquire(t) /\ ~Frame_release(t) /\ ~Nwm_ready_release(t)
    BY <2>1 DEF Nwm_done_acquire, Frame_release, Nwm_ready_release
  <2>3. pc[t] \in Preparing \ PastHeader
    BY <2>1 DEF PastHeader, PastFrame, Preparing, Leading
  <2>4. g = cap
    BY <1>b, <2>3 DEF Reached
  <2>5. Headed(cap2, rnd2, g)'
    BY <1>2, <1>a, <1>b, <1>c, <2>4, HeadedLead
  <2>6. Numbered(cap2, k, g, N, E)'
    BY <1>2, <1>a, <1>b, <1>c, <2>4, NumberedInitBctx
  <2>7. UNCHANGED <<nwm_done, nwm_ready, npc, nw, sent, hdr>>
    BY <2>2, WorkerEffect
  <2>8. Window(g, N)' /\ InSequence(g, N, E)'
    BY <1>b, <2>7 DEF Window, InSequence
  <2> QED BY <1>g, <1>h, <2>2, <2>5, <2>6, <2>8
<1>3. CASE Frame_release(t)
  <2>1. pc[t] = "frame" /\ pc'[t] = "flags"
    BY <1>3, <1>e DEF Frame_release, Goto
  <2>2. /\ ~Nwm_done_acquire(t) /\ ~Init_bctx(t) /\ ~Nwm_ready_release(t)
    BY <2>1 DEF Nwm_done_acquire, Init_bctx, Nwm_ready_release
  <2>3. /\ pc[t] \in PastHeader /\ pc[t] \in Preparing \ PastFrame
        /\ pc[t] \notin {"skip_release", "skip_wait"} /\ pc'[t] \in PastFrame
    BY <2>1 DEF PastHeader, PastFrame, Preparing, Leading
  <2>4. /\ g = cap + 1 /\ k = cap
        /\ Reached(PastFrame, cap2, prep2, tok2, lead2, cap + 1)'
    <3>1. g = cap + 1
      BY <1>b, <2>3 DEF Reached
    <3> QED BY <1>a, <1>b, <1>c, <1>d, <1>f, <2>3, <3>1, ReachedNew
  <2>5. UNCHANGED <<nwm_done, nwm_ready, npc, nw, sent, hdr, bctx>>
    BY <2>2, WorkerEffect
  <2>6. Headed(cap2, rnd2, g)'
    BY <1>a, <1>b, <1>c, <1>e, <2>5, HeadedKept
  <2>7. Numbered(cap2, cap + 1, g, N, E)'
    BY <1>3, <1>a, <1>b, <1>c, <1>e, <2>4, NumberedFrameRelease
  <2>8. Window(g, N)' /\ InSequence(g, N, E)'
    BY <1>b, <2>5 DEF Window, InSequence
  <2> QED BY <1>h, <2>2, <2>4, <2>6, <2>7, <2>8
<1>4. CASE ~Nwm_done_acquire(t) /\ ~Init_bctx(t) /\ ~Frame_release(t)
  <2>1. UNCHANGED <<nwm_done, npc, nw, sent, hdr, bctx, frame_ids>>
    BY <1>4, WorkerEffect
  <2>2. Headed(cap2, rnd2, g)'
    BY <1>a, <1>b, <1>c, <1>e, <2>1, HeadedKept
  <2>3. Numbered(cap2, k, g, N, E)'
    BY <1>4, <1>a, <1>b, <1>c, <1>e, <1>g, <1>h, <2>1, NumberedKept
  <2>4. InSequence(g, N, E)'
    BY <1>b, <2>1 DEF InSequence
  <2>5. Window(g, N)'
    <3>1. CASE Nwm_ready_release(t)
      <4>1. pc[t] = "nwm_ready" /\ pc[t] \in PastHeader
        BY <3>1 DEF Nwm_ready_release, PastHeader
      <4>2. g = cap + 1
        BY <1>b, <4>1 DEF Reached
      <4> QED BY <1>a, <1>b, <3>1, <4>2, WindowReady
    <3>2. CASE UNCHANGED nwm_ready
      BY <1>b, <2>1, <3>2 DEF Window
    <3> QED BY <3>1, <3>2, WorkerEffect
  <2> QED BY <1>4, <1>g, <1>h, <2>2, <2>3, <2>4, <2>5
<1> QED BY <1>1, <1>2, <1>3, <1>4

(* So does every step of the nwm thread.                                   *)
LEMMA SendsNwm ==
  ASSUME TypeOK, ~RELIABLE, NwmToken, SendsHold, Nwm_thread
  PROVE  /\ SendsHold'
         /\ npc = "done" => sent'[hdr[nw].screen] =
              Next_wrapped(sent[hdr[nw].screen], FRAME_ID_COUNT)
<1>a. PICK cap, prep, rel, rnd, tok, lead, held, k, g, N, E :
        /\ RoundsInv(cap, prep, rel, rnd, tok, lead, held)
        /\ Sends(cap, prep, rnd, tok, lead, k, g, N, E)
  BY DEF SendsHold
<1>b. /\ Reached(PastFrame, cap, prep, tok, lead, k)
      /\ Reached(PastHeader, cap, prep, tok, lead, g)
      /\ Headed(cap, rnd, g) /\ Window(g, N) /\ InSequence(g, N, E)
      /\ Numbered(cap, k, g, N, E)
  BY <1>a DEF Sends
<1>c. UNCHANGED <<screen_ready, work_done, thread_ready, work_ready,
                  work_ready_flag, work_done_count, work_done_flag,
                  should_capture, work_index, thread_index, skip_frames,
                  pc, wi, cursor, spc, sw, srel, quality_can_update,
                  taken, upc, bctx, hdr, frame_ids>>
  BY DEF Nwm_thread, Nwm_ready_acquire, Send_next_buffer, Nwm_idle,
         Nwm_event, Nwm_done_release, Nwm_give_up, nwm_frame, works,
         params, imgs, worker, screen, quality
<1>d. Permits(prep, rnd, held)'
  BY <1>a, <1>c DEF RoundsInv, Permits
<1>e. RoundsInv(cap, prep, rel, rnd, tok, lead, held)'
  BY <1>a, <1>c, <1>d, Untouched
<1>f. /\ Reached(PastFrame, cap, prep, tok, lead, k)'
      /\ Reached(PastHeader, cap, prep, tok, lead, g)' /\ Headed(cap, rnd, g)'
  BY <1>b, <1>c DEF Reached, Headed
<1>g. g \in Nat /\ N \in Nat /\ nwm_ready \in [Work -> 0 .. 1] /\ nw \in Work
  BY <1>a, <1>b DEF RoundsInv, Ghosts, Reached, Window, TypeOK
<1>1. CASE Nwm_done_release
  <2>1. /\ sent'[hdr[nw].screen] =
             Next_wrapped(sent[hdr[nw].screen], FRAME_ID_COUNT)
        /\ Window(g, N + 1)' /\ InSequence(g, N + 1, E)'
        /\ Numbered(cap, k, g, N + 1, E)'
    BY <1>1, <1>a, <1>b, <1>g, SendsNwmDone
  <2>2. Sends(cap, prep, rnd, tok, lead, k, g, N + 1, E)'
    BY <1>f, <2>1 DEF Sends
  <2> QED BY <1>e, <2>1, <2>2 DEF SendsHold
<1>2. CASE ~Nwm_done_release
  <2>1. npc # "done"
    BY <1>2 DEF Nwm_thread, Nwm_ready_acquire, Send_next_buffer, Nwm_idle,
                Nwm_event, Nwm_give_up
  <2>2. UNCHANGED <<nw, sent, nwm_done>>
    BY <1>2 DEF Nwm_thread, Nwm_ready_acquire, Send_next_buffer, Nwm_idle,
                Nwm_event, Nwm_give_up
  <2>3. Numbered(cap, k, g, N, E)' /\ InSequence(g, N, E)'
    BY <1>b, <1>c, <2>2 DEF Numbered, InSequence
  <2>4. Window(g, N)'
    <3>1. CASE Nwm_ready_acquire
      <4>1. /\ nwm_ready[nw] = 1 /\ npc' = "send"
            /\ nwm_ready' = [nwm_ready EXCEPT ![nw] = 0]
        <5>1. /\ nwm_ready[nw] > 0 /\ npc' = "send"
              /\ nwm_ready' = [nwm_ready EXCEPT ![nw] = nwm_ready[nw] - 1]
          BY <3>1 DEF Nwm_ready_acquire
        <5>2. nwm_ready[nw] \in 0 .. 1
          BY <1>g
        <5>3. nwm_ready[nw] = 1 /\ nwm_ready[nw] - 1 = 0
          BY <5>1, <5>2
        <5> QED BY <5>1, <5>3
      <4>2. N < g
        <5>1. N \in N .. N + WORK_COUNT - 1 /\ nw = Slot(N)
          BY <1>b, <1>g, ConstantsAssumption DEF Window
        <5> QED BY <1>b, <4>1, <5>1 DEF Window
      <4>3. \A w \in Work : nwm_ready'[w] = 1 => nwm_ready[w] = 1
        BY <1>g, <4>1
      <4>4. \A n \in N .. N + WORK_COUNT - 1 : Slot(n) \in Work
        <5>1. \A n \in N .. N + WORK_COUNT - 1 : n \in Nat
          BY <1>g, ConstantsAssumption
        <5> QED BY <5>1, SlotType
      <4> QED BY <1>b, <2>2, <4>2, <4>3, <4>4 DEF Window
    <3>2. CASE ~Nwm_ready_acquire
      <4>1. /\ UNCHANGED nwm_ready
            /\ npc' \in {"send", "event", "done"} =>
                 npc \in {"send", "event", "done"}
        BY <1>2, <3>2 DEF Nwm_thread, Send_next_buffer, Nwm_idle, Nwm_event,
                          Nwm_give_up
      <4> QED BY <1>b, <2>2, <4>1 DEF Window
    <3> QED BY <3>1, <3>2
  <2>5. Sends(cap, prep, rnd, tok, lead, k, g, N, E)'
    BY <1>f, <2>3, <2>4 DEF Sends
  <2> QED BY <1>e, <2>1, <2>5 DEF SendsHold
<1> QED BY <1>1, <1>2

(* The other threads do not touch what is sent.                            *)
LEMMA SendsOther ==
  ASSUME TypeOK, ~RELIABLE, SendsHold, Others, ~Nwm_thread
  PROVE  SendsHold'
<1>a. PICK cap, prep, rel, rnd, tok, lead, held, k, g, N, E :
        /\ RoundsInv(cap, prep, rel, rnd, tok, lead, held)
        /\ Sends(cap, prep, rnd, tok, lead, k, g, N, E)
  BY DEF SendsHold
<1>b. /\ Reached(PastFrame, cap, prep, tok, lead, k)
      /\ Reached(PastHeader, cap, prep, tok, lead, g)
      /\ Headed(cap, rnd, g) /\ Window(g, N) /\ InSequence(g, N, E)
      /\ Numbered(cap, k, g, N, E) /\ g \in {cap, cap + 1} /\ N \in Nat
  BY <1>a DEF Sends, Reached, Window
<1>c. PICK cap2, prep2, rel2, rnd2, tok2, lead2, held2 :
        /\ RoundsInv(cap2, prep2, rel2, rnd2, tok2, lead2, held2)'
        /\ Moves(cap, prep, rel, rnd, tok, lead,
                 cap2, prep2, rel2, rnd2, tok2, lead2)
  BY <1>a, RoundsNext DEF Follows, Next, Others
<1>d. /\ "quality" \in PastFrame /\ "skip_release" \notin PastFrame
      /\ PastFrame \subseteq Preparing
      /\ "quality" \in PastHeader /\ "skip_release" \notin PastHeader
      /\ PastHeader \subseteq Preparing
  BY DEF PastHeader, PastFrame, Preparing, Leading
<1>e. UNCHANGED <<bctx, hdr, pc, wi, frame_ids, nwm_done, nwm_ready, npc, nw,
                  sent>>
  BY OtherEffect
<1>1. /\ Reached(PastFrame, cap2, prep2, tok2, lead2, k)'
      /\ Reached(PastHeader, cap2, prep2, tok2, lead2, g)'
  BY <1>a, <1>b, <1>c, <1>d, <1>e, ReachedKept
<1>2. Headed(cap2, rnd2, g)'
  BY <1>a, <1>b, <1>c, <1>e, HeadedKept
<1>3. Numbered(cap2, k, g, N, E)'
  BY <1>a, <1>b, <1>c, <1>e, NumberedKept
<1>4. Window(g, N)' /\ InSequence(g, N, E)'
  BY <1>b, <1>e DEF Window, InSequence
<1>5. Sends(cap2, prep2, rnd2, tok2, lead2, k, g, N, E)'
  BY <1>1, <1>2, <1>3, <1>4 DEF Sends
<1> QED BY <1>c, <1>5 DEF SendsHold

(* At the start the nwm thread waits for the first round.                  *)
LEMMA SendsInit ==
  ASSUME Init
  PROVE  SendsHold
<1> SUFFICES ASSUME ~RELIABLE PROVE SendsHold
  BY DEF SendsHold
<1> DEFINE w == WORK_COUNT
<1>1. PICK prep, rel, rnd, tok, lead, held :
        RoundsInv(w, prep, rel, rnd, tok, lead, held) /\ prep = w
        /\ \A t \in Thread : rnd[t] = w
  <2>1. \A t \in Thread : [u \in Thread |-> WORK_COUNT][t] = WORK_COUNT
    OBVIOUS
  <2> QED BY <2>1, RoundsInit
<1>2. w \in Nat \ {0} /\ FRAME_ID_COUNT \in Nat \ {0}
  BY ConstantsAssumption
<1>3. \A t \in Thread :
        /\ pc[t] \notin Preparing /\ pc[t] \notin PastFrame
        /\ pc[t] \notin PastHeader /\ pc[t] \notin Fitted
        /\ pc[t] # "nwm_ready"
  BY DEF Init, Preparing, Leading, PastFrame, PastHeader, Fitted
<1>4. /\ Reached(PastFrame, w, prep, tok, lead, w)
      /\ Reached(PastHeader, w, prep, tok, lead, w)
  BY <1>1, <1>2, <1>3 DEF Reached
<1>5. Headed(w, rnd, w)
  BY <1>1, <1>2 DEF Headed
<1>6. Slot(w) = 0
  <2>1. Slot(0) = 0
    BY ConstantsAssumption, ModUnique DEF Slot
  <2> QED BY <1>2, <2>1, SlotWrap
<1>7. Window(w, w)
  <2>1. \A n \in w .. w + w - 1 : n \in Nat /\ n >= w
    BY <1>2
  <2>2. \A n \in w .. w + w - 1 : nwm_ready[Slot(n)] = 0
    BY <2>1, SlotType DEF Init
  <2>3. npc = "acquire" /\ nw = 0
    BY DEF Init
  <2> QED BY <1>2, <1>6, <2>1, <2>2, <2>3 DEF Window
<1>8. PICK E : E = [n \in Nat |-> [s \in Screen |-> FRAME_ID_COUNT - 1]]
  OBVIOUS
<1>9. E \in [Nat -> [Screen -> Id]] /\ E[w] = [s \in Screen |-> FRAME_ID_COUNT - 1]
  <2>1. FRAME_ID_COUNT - 1 \in Id
    BY <1>2 DEF Id
  <2> QED BY <1>2, <1>8, <2>1
<1>10. InSequence(w, w, E)
  <2>1. sent = E[w]
    BY <1>9 DEF Init
  <2>2. w .. w - 1 = {}
    BY <1>2
  <2> QED BY <1>9, <2>1, <2>2 DEF InSequence
<1>11. Numbered(w, w, w, w, E)
  <2>1. Next_wrapped(FRAME_ID_COUNT - 1, FRAME_ID_COUNT) = 0
    BY <1>2 DEF Next_wrapped
  <2>2. \A s \in Screen : frame_ids[s] = Next_wrapped(E[w][s], FRAME_ID_COUNT)
    BY <1>9, <2>1 DEF Init
  <2>3. w <= w /\ w # w + 1
    BY <1>2
  <2> QED BY <1>3, <2>2, <2>3 DEF Numbered
<1>12. Sends(w, prep, rnd, tok, lead, w, w, w, E)
  BY <1>4, <1>5, <1>7, <1>10, <1>11 DEF Sends
<1> QED BY <1>1, <1>12 DEF SendsHold

(* Headers, ids and the nwm thread's window agree in every state.          *)
LEMMA SendsAlways == Spec => []SendsHold
<1>1. Init => SendsHold
  BY SendsInit
<1>2. TypeOK /\ NwmToken /\ SendsHold /\ [Next]_vars => SendsHold'
  <2> SUFFICES ASSUME TypeOK, NwmToken, SendsHold, [Next]_vars
               PROVE  SendsHold'
    OBVIOUS
  <2>1. CASE RELIABLE
    BY <2>1 DEF SendsHold
  <2>2. CASE ~RELIABLE /\ \E t \in Thread : Worker(t)
    BY <2>2, SendsWorker
  <2>3. CASE ~RELIABLE /\ Nwm_thread
    BY <2>3, SendsNwm
  <2>4. CASE ~RELIABLE /\ Others /\ ~Nwm_thread
    BY <2>4, SendsOther
  <2> QED BY <2>1, <2>2, <2>3, <2>4, NextSplit
<1> QED BY <1>1, <1>2, TypeCorrect, NwmTokenAlways, PTL DEF Spec

(* The reliable stream uses neither the rows nor the nwm thread.           *)
NwmUnused ==
  RELIABLE => /\ npc = "exited"
              /\ \A w \in Work, t \in Thread : data[w][t] = NoFrame

(* Nothing it does changes that.                                           *)
LEMMA NwmUnusedNext ==
  ASSUME TypeOK, NwmUnused, [Next]_vars
  PROVE  NwmUnused'
<1> SUFFICES ASSUME RELIABLE PROVE NwmUnused'
  BY DEF NwmUnused
<1>a. /\ npc = "exited" /\ \A w \in Work, t \in Thread : data[w][t] = NoFrame
      /\ data \in [Work -> [Thread -> Frame \cup {NoFrame}]]
  BY DEF NwmUnused, TypeOK
<1>1. ASSUME NEW t \in Thread, Worker(t) PROVE NwmUnused'
  <2>1. UNCHANGED npc
    BY <1>1, WorkerEffect
  <2>2. CASE Nwm_done_acquire(t)
    <3>1. data' = [data EXCEPT ![wi[t]] = [j \in Thread |-> NoFrame]]
      BY <2>2 DEF Nwm_done_acquire, Emptied
    <3>2. \A w \in Work, u \in Thread : data'[w][u] = NoFrame
      BY <1>a, <3>1
    <3> QED BY <1>a, <2>1, <3>2 DEF NwmUnused
  <2>3. CASE ~Nwm_done_acquire(t)
    <3>1. UNCHANGED data
      BY <1>1, <2>3, WorkerEffect DEF Term
    <3> QED BY <1>a, <2>1, <3>1 DEF NwmUnused
  <2> QED BY <2>2, <2>3
<1>2. CASE Others
  <2>1. ~Nwm_thread
    BY <1>a DEF Nwm_thread, Nwm_ready_acquire, Send_next_buffer, Nwm_idle,
                Nwm_event, Nwm_done_release, Nwm_give_up
  <2>2. UNCHANGED <<npc, data>>
    BY <1>2, <2>1, OtherEffect
  <2> QED BY <1>a, <2>2 DEF NwmUnused
<1> QED BY <1>1, <1>2, NextSplit

(* A thread's last rows go under the header of the frame it encoded.       *)
LEMMA RowsNext ==
  ASSUME TypeOK, NwmUnused, SameFrame, SendsHold, RowsMatchHeader, [Next]_vars
  PROVE  RowsMatchHeader'
<1>a. /\ data \in [Work -> [Thread -> Frame \cup {NoFrame}]]
      /\ hdr \in [Work -> Frame \cup {NoFrame}] /\ wi \in [Thread -> Work]
  BY DEF TypeOK
<1>b. \A w \in Work, t \in Thread : data[w][t] \in {NoFrame, hdr[w]}
  BY DEF RowsMatchHeader
<1>1. ASSUME NEW t \in Thread, Nwm_done_acquire(t) PROVE RowsMatchHeader'
  <2>1. /\ data' = [data EXCEPT ![wi[t]] = [j \in Thread |-> NoFrame]]
        /\ hdr' = [hdr EXCEPT ![wi[t]] = bctx[wi[t]]]
    BY <1>1 DEF Nwm_done_acquire, Emptied
  <2>2. ASSUME NEW w \in Work, NEW u \in Thread
        PROVE  data'[w][u] \in {NoFrame, hdr'[w]}
    <3>1. CASE w = wi[t]
      BY <1>a, <2>1, <3>1
    <3>2. CASE w # wi[t]
      BY <1>a, <1>b, <2>1, <3>2
    <3> QED BY <3>1, <3>2
  <2> QED BY <2>2 DEF RowsMatchHeader
<1>2. ASSUME NEW t \in Thread, Term(t) PROVE RowsMatchHeader'
  <2>1. CASE RELIABLE
    BY <1>2, <1>b, <2>1 DEF Term, RowsMatchHeader
  <2>2. CASE ~RELIABLE
    <3>1. /\ data' = [data EXCEPT ![wi[t]][t] = job[t]] /\ UNCHANGED hdr
          /\ pc[t] = "term"
      BY <1>2, <2>2 DEF Term
    <3>2. job[t] = bctx[wi[t]]
      BY <3>1 DEF SameFrame, Encoding
    <3>3. PICK cap, prep, rel, rnd, tok, lead, held, k, g, N, E :
            /\ RoundsInv(cap, prep, rel, rnd, tok, lead, held)
            /\ Sends(cap, prep, rnd, tok, lead, k, g, N, E)
      BY <2>2 DEF SendsHold
    <3>4. /\ rnd[t] \in Nat /\ rnd[t] \in 0 .. cap /\ rnd[t] < prep
          /\ wi[t] = Slot(rnd[t])
      BY <3>1, <3>3, Current DEF Doing, Encoding
    <3>5. rnd[t] <= rnd[t] /\ rnd[t] < g
      BY <3>3, <3>4 DEF Sends, Reached, RoundsInv, Ghosts
    <3>6. hdr[wi[t]] = bctx[wi[t]]
      BY <3>3, <3>4, <3>5 DEF Sends, Headed
    <3>7. ASSUME NEW w \in Work, NEW u \in Thread
          PROVE  data'[w][u] \in {NoFrame, hdr'[w]}
      <4>1. CASE w = wi[t] /\ u = t
        BY <1>a, <3>1, <3>2, <3>6, <4>1
      <4>2. CASE ~(w = wi[t] /\ u = t)
        <5>1. data'[w][u] = data[w][u]
          BY <1>a, <3>1, <4>2
        <5> QED BY <1>b, <3>1, <5>1
      <4> QED BY <4>1, <4>2
    <3> QED BY <3>7 DEF RowsMatchHeader
  <2> QED BY <2>1, <2>2
<1>3. ASSUME NEW t \in Thread, Worker(t), ~Nwm_done_acquire(t), ~Term(t)
      PROVE  RowsMatchHeader'
  <2>1. UNCHANGED <<data, hdr>>
    BY <1>3, WorkerEffect
  <2> QED BY <1>b, <2>1 DEF RowsMatchHeader
<1>4. CASE Others
  <2>1. UNCHANGED <<data, hdr>>
    BY <1>4, OtherEffect
  <2> QED BY <1>b, <2>1 DEF RowsMatchHeader
<1> QED BY <1>1, <1>2, <1>3, <1>4, NextSplit

(* The rows under a packet header are rows of that header's frame, however *)
(* far the work threads and the nwm thread are apart.                      *)
THEOREM RowsAlways == Spec => []RowsMatchHeader
<1>1. Init => RowsMatchHeader /\ NwmUnused
  BY DEF Init, RowsMatchHeader, NwmUnused
<1>2. TypeOK /\ NwmUnused /\ [Next]_vars => NwmUnused'
  BY NwmUnusedNext
<1>3. TypeOK /\ NwmUnused /\ SameFrame /\ SendsHold /\ RowsMatchHeader
        /\ [Next]_vars => RowsMatchHeader'
  BY RowsNext
<1> QED BY <1>1, <1>2, <1>3, TypeCorrect, SameFrameAlways, SendsAlways, PTL
        DEF Spec

(* Frames of a screen are completed on the network in the order of their   *)
(* ids, for every number of works and every width of the id: a work that   *)
(* send_next_buffer finishes carries the id after the last one sent.       *)
THEOREM SentInOrderAlways == Spec => SentInOrder
<1>1. TypeOK /\ NwmUnused /\ NwmToken /\ SendsHold /\ [Next]_vars =>
        [ (npc = "done" /\ npc' # "done") =>
            LET s == hdr[nw].screen IN
            sent'[s] = Next_wrapped(sent[s], FRAME_ID_COUNT) ]_vars
  <2> SUFFICES ASSUME TypeOK, NwmUnused, NwmToken, SendsHold, [Next]_vars,
                      npc = "done", npc' # "done"
               PROVE  sent'[hdr[nw].screen] =
                        Next_wrapped(sent[hdr[nw].screen], FRAME_ID_COUNT)
    OBVIOUS
  <2>1. ~RELIABLE
    BY DEF NwmUnused
  <2>2. Nwm_thread
    BY NextSplit, WorkerEffect, OtherEffect
  <2> QED BY <2>1, <2>2, SendsNwm
<1>2. Init => NwmUnused
  BY DEF Init, NwmUnused
<1>3. TypeOK /\ NwmUnused /\ [Next]_vars => NwmUnused'
  BY NwmUnusedNext
<1> QED BY <1>1, <1>2, <1>3, TypeCorrect, NwmTokenAlways, SendsAlways, PTL
        DEF Spec, SentInOrder
=============================================================================
