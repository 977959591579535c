------------------------------- MODULE DeltaQ -------------------------------
(***************************************************************************)
(* The delta-coded stream (delta_prog).  The work threads encode a frame   *)
(* as differences to the coefficients of the last frame of its screen,     *)
(* kept in dq_prev_coeffs, at a precision ("delta-Q level") that is chosen *)
(* anew for every frame from a sample of its first row.  Two works may be  *)
(* in progress, of the same screen even, and the row at which one thread's *)
(* share ends and the next one's begins moves from frame to frame.         *)
(*                                                                         *)
(* The coefficients are abstracted to the level they are expressed at, one *)
(* per row of MCUs; CoefDelta has their values.  The rate control itself   *)
(* (floating point) is a free choice of the next level.  How works are     *)
(* handed from frame to frame is reduced to "a work is set up again once   *)
(* every thread has left it", which FramePipeline shows of the real        *)
(* semaphores.                                                             *)
(***************************************************************************)
EXTENDS Naturals, FiniteSets

CONSTANTS
  CORE_COUNT,   \* RP_CONFIG.core_count
  WORK_COUNT,   \* frames in flight
  TOP_ROWS,     \* mcu_rows of the top screen
  BOT_ROWS,     \* mcu_rows of the bottom screen
  RANGE,        \* last_restart_range
  EVEN_ODD,     \* screens whose downsampling alternates two half images
  DELTA_Q_COUNT \* levels; the last one is full precision

ASSUME DeltaQAssumption ==
  /\ CORE_COUNT \in Nat \ {0} /\ WORK_COUNT \in Nat \ {0}
  /\ TOP_ROWS \in Nat \ {0} /\ BOT_ROWS \in Nat \ {0}
  /\ RANGE \in Nat /\ RANGE >= CORE_COUNT
  /\ EVEN_ODD \subseteq {"top", "bot"}
  /\ DELTA_Q_COUNT \in Nat \ {0}

Thread == 0 .. CORE_COUNT - 1
Work   == 0 .. WORK_COUNT - 1
Screen == {"top", "bot"}
Level  == 0 .. DELTA_Q_COUNT - 1
Full   == DELTA_Q_COUNT - 1

Mcu_rows(s) == IF s = "top" THEN TOP_ROWS ELSE BOT_ROWS
Row(s)      == 0 .. Mcu_rows(s) - 1

VARIABLES
  (* init_work: LAST_ROW_LAST_N, LAST_ROW_LAST_W, ENCODE_EVEN_ODD, and     *)
  (* CInfo with the row shares of each work                                *)
  last_n, last_w, even_odd, info,
  left,            \* the threads that still have to leave each work
  (* SYN: work_inited, work_sem_count, work_sem; screen_bool, screen_sem,  *)
  (* last_restart_interval                                                 *)
  inited, sem_count, work_sem, screen_bool, screen_sem, last_interval,
  (* delta_q per screen and half image; work_delta_q and the level it is   *)
  (* rescaled from (dq_rescale_prev and rp_shifts are their difference);   *)
  (* the level dq_prev_coeffs is expressed at                              *)
  delta_q, work_delta_q, work_from, prev,
  (* work threads: control, work, next row of the share *)
  pc, wi, row

split == <<last_n, last_w, even_odd, info>>
syn   == <<inited, sem_count, work_sem, screen_bool, screen_sem,
           last_interval>>
level == <<delta_q, work_delta_q, work_from, prev>>

vars == <<split, left, syn, level, pc, wi, row>>

Info == [s : Screen, e : {0, 1}, rows : Nat, last : Nat]

Control == {"idle", "empty", "claim", "sync", "screen_sem", "own",
            "read", "compute", "wake", "work_sem", "rows", "count", "hand",
            "clear", "give", "finish"}

TypeOK ==
  /\ last_n \in 0 .. RANGE
  /\ last_w \in Work
  /\ even_odd \in [Screen -> {0, 1}]
  /\ info \in [Work -> Info]
  /\ left \in [Work -> SUBSET Thread]
  /\ inited \in [Work -> BOOLEAN]
  /\ sem_count \in [Work -> 0 .. CORE_COUNT]
  /\ work_sem \in [Work -> 0 .. CORE_COUNT - 1]
  /\ screen_bool \in [Screen -> BOOLEAN]
  /\ screen_sem \in [Screen -> 0 .. 1]
  /\ last_interval \in [Screen -> Nat]
  /\ delta_q \in [Screen -> [{0, 1} -> Level]]
  /\ work_delta_q \in [Work -> Level]
  /\ work_from \in [Work -> Level]
  /\ \A s \in Screen : prev[s] \in [{0, 1} -> [Row(s) -> Level]]
  /\ pc \in [Thread -> Control]
  /\ wi \in [Thread -> Work]
  /\ row \in [Thread -> Nat]

Goto(t, l) == pc' = [pc EXCEPT ![t] = l]

Released(count, n, max) == IF count + n <= max THEN count + n ELSE count

(* Encoder::init, and the statics cleared when streaming starts.           *)
Init ==
  /\ last_n = 0 /\ last_w = WORK_COUNT - 1
  /\ even_odd = [s \in Screen |-> 0]
  /\ info = [w \in Work |-> [s |-> "top", e |-> 0, rows |-> 0, last |-> 0]]
  /\ left = [w \in Work |-> {}]
  /\ inited = [w \in Work |-> FALSE]
  /\ sem_count = [w \in Work |-> CORE_COUNT]
  /\ work_sem = [w \in Work |-> 0]
  /\ screen_bool = [s \in Screen |-> FALSE]
  /\ screen_sem = [s \in Screen |-> 1]
  /\ last_interval = [s \in Screen |-> 0]
  /\ delta_q = [s \in Screen |-> [e \in {0, 1} |-> Full]]
  /\ work_delta_q = [w \in Work |-> 0]
  /\ work_from = [w \in Work |-> 0]
  /\ prev = [s \in Screen |-> [e \in {0, 1} |-> [r \in Row(s) |-> Full]]]
  /\ pc = [t \in Thread |-> "idle"]
  /\ wi = [t \in Thread |-> 0]
  /\ row = [t \in Thread |-> 0]

-----------------------------------------------------------------------------
(***************************************************************************)
(* init_work: how the rows are shared out.  Every thread but the last gets *)
(* the same number of rows; the last one's share shrinks while it is the   *)
(* slowest (its part of the work before is not finished when the next work *)
(* is set up) and grows back, at most to the even split, when it is not.   *)
(***************************************************************************)
Ceil(a, b) == (a + b - 1) \div b

Even_rows(n)      == Ceil(n, CORE_COUNT)
Even_rows_last(n) == n - Even_rows(n) * (CORE_COUNT - 1)

(* n_last is a u32: the screens have rows enough for the even split.       *)
ASSUME SplitAssumption ==
  \A s \in Screen : Even_rows_last(Mcu_rows(s)) >= 0

Adjusts == last_n > 0 /\ CORE_COUNT > 1

Next_last_n(w) ==
  IF ~Adjusts THEN RANGE
  ELSE IF last_w = (IF w = 0 THEN WORK_COUNT - 1 ELSE w - 1)
  THEN IF last_n < RANGE - (CORE_COUNT - 1)
       THEN last_n + (CORE_COUNT - 1) ELSE RANGE
  ELSE IF last_n > 1 THEN last_n - 1 ELSE 1

Rows(n, next) ==
  IF Adjusts THEN (n - Ceil(Even_rows_last(n) * next, RANGE))
                    \div (CORE_COUNT - 1)
  ELSE Even_rows(n)

(* The remainder of the division goes to the last thread.                  *)
Rows_last_even(n, next) == Even_rows_last(n)
Rows_last(n, next) ==
  IF Adjusts THEN n - Rows(n, next) * (CORE_COUNT - 1)
  ELSE Even_rows_last(n)

(* The thread that finds the work free sets it up for a captured screen.   *)
Init_work(t, s) ==
  LET w == wi[t]
      next == Next_last_n(w)
      n == Mcu_rows(s) IN
  /\ pc[t] = "idle"
  /\ left[w] = {}
  /\ last_n' = next
  /\ info' = [info EXCEPT ![w] = [s |-> s, e |-> even_odd[s],
                                  rows |-> Rows(n, next),
                                  last |-> Rows_last(n, next)]]
  /\ even_odd' = [even_odd EXCEPT ![s] = IF s \in EVEN_ODD THEN 1 - @ ELSE @]
  /\ left' = [left EXCEPT ![w] = Thread]
  /\ UNCHANGED <<last_w, syn, level, pc, wi, row>>

I_count(w, t) == IF t = CORE_COUNT - 1 THEN info[w].last ELSE info[w].rows
I_start(w, t) == info[w].rows * t
Share(w, t)   == I_start(w, t) .. I_start(w, t) + I_count(w, t) - 1

(* encode, by the thread that set the work up and by the others once       *)
(* work_ready is released.  A thread without rows only waits for the level *)
(* of the frame.                                                           *)
Encode(t) ==
  LET w == wi[t] IN
  /\ pc[t] = "idle"
  /\ t \in left[w]
  /\ Goto(t, IF Share(w, t) = {} THEN "empty" ELSE "claim")
  /\ UNCHANGED <<split, left, syn, level, wi, row>>

-----------------------------------------------------------------------------
(***************************************************************************)
(* screen_work_acquire, before the first row.  The first thread to arrive  *)
(* chooses the level; it may overtake the rest of the screen's work before *)
(* when the shares are the same, once.                                     *)
(***************************************************************************)
Claim(t) ==
  LET w == wi[t] IN
  /\ pc[t] = "claim"
  /\ inited' = [inited EXCEPT ![w] = TRUE]
  /\ Goto(t, IF inited[w] THEN "work_sem"
             ELSE IF CORE_COUNT = 1 THEN "read" ELSE "sync")
  /\ UNCHANGED <<split, left, sem_count, work_sem, screen_bool, screen_sem,
                 last_interval, level, wi, row>>

Interval_changed_never(w) == FALSE
Interval_changed(w) == info[w].rows # last_interval[info[w].s]

Need_sync(t) ==
  LET w == wi[t]
      s == info[w].s IN
  /\ pc[t] = "sync"
  /\ screen_bool' = [screen_bool EXCEPT
                       ![s] = IF Interval_changed(w) THEN @ ELSE TRUE]
  /\ Goto(t, IF Interval_changed(w) \/ screen_bool[s]
             THEN "screen_sem" ELSE "read")
  /\ UNCHANGED <<split, left, inited, sem_count, work_sem, screen_sem,
                 last_interval, level, wi, row>>

Screen_sem_acquire(t) ==
  LET s == info[wi[t]].s IN
  /\ pc[t] = "screen_sem"
  /\ screen_sem[s] > 0
  /\ screen_sem' = [screen_sem EXCEPT ![s] = @ - 1]
  /\ Goto(t, "own")
  /\ UNCHANGED <<split, left, inited, sem_count, work_sem, screen_bool,
                 last_interval, level, wi, row>>

Screen_owned_kept(t) ==
  LET w == wi[t] IN
  /\ pc[t] = "own"
  /\ last_interval' = [last_interval EXCEPT ![info[w].s] = info[w].rows]
  /\ Goto(t, "read")
  /\ UNCHANGED <<split, left, inited, sem_count, work_sem, screen_bool,
                 screen_sem, level, wi, row>>

Screen_owned(t) ==
  LET w == wi[t]
      s == info[w].s IN
  /\ pc[t] = "own"
  /\ screen_bool' = [screen_bool EXCEPT ![s] = FALSE]
  /\ last_interval' = [last_interval EXCEPT ![s] = info[w].rows]
  /\ Goto(t, "read")
  /\ UNCHANGED <<split, left, inited, sem_count, work_sem, screen_sem,
                 level, wi, row>>

(* compute_dq: the level so far, by which the sampled blocks are scaled ...*)
Sample_row(t) ==
  LET w == wi[t] IN
  /\ pc[t] = "read"
  /\ work_from' = [work_from EXCEPT ![w] = delta_q[info[w].s][info[w].e]]
  /\ Goto(t, "compute")
  /\ UNCHANGED <<split, left, syn, delta_q, work_delta_q, prev, wi, row>>

(* ... and the new one, kept for the screen and for the threads of the work*)
Compute_dq_for_work(t, q) ==
  LET w == wi[t] IN
  /\ pc[t] = "compute"
  /\ work_delta_q' = [work_delta_q EXCEPT ![w] = q]
  /\ Goto(t, "wake")
  /\ UNCHANGED <<split, left, syn, delta_q, work_from, prev, wi, row>>

Compute_dq(t, q) ==
  LET w == wi[t] IN
  /\ pc[t] = "compute"
  /\ delta_q' = [delta_q EXCEPT ![info[w].s][info[w].e] = q]
  /\ work_delta_q' = [work_delta_q EXCEPT ![w] = q]
  /\ Goto(t, "wake")
  /\ UNCHANGED <<split, left, syn, work_from, prev, wi, row>>

Release_work_sem(t) ==
  /\ pc[t] = "wake"
  /\ work_sem' = [work_sem EXCEPT
                    ![wi[t]] = Released(@, CORE_COUNT - 1, CORE_COUNT - 1)]
  /\ Goto(t, "rows")
  /\ UNCHANGED <<split, left, inited, sem_count, screen_bool, screen_sem,
                 last_interval, level, wi, row>>

(* The threads that did not choose, those without rows included.           *)
May_enter_at_once(w) == TRUE
May_enter(w) == work_sem[w] > 0

Work_sem_acquire(t) ==
  LET w == wi[t] IN
  /\ pc[t] \in {"work_sem", "empty"}
  /\ May_enter(w)
  /\ work_sem' = [work_sem EXCEPT ![w] = IF @ > 0 THEN @ - 1 ELSE @]
  /\ Goto(t, "rows")
  /\ UNCHANGED <<split, left, inited, sem_count, screen_bool, screen_sem,
                 last_interval, level, wi, row>>

(* do_process: rescale the row's old coefficients by work_delta_q -        *)
(* work_from, subtract them and keep the new ones in their place.          *)
Compress(t) ==
  LET w == wi[t]
      r == I_start(w, t) + row[t] IN
  /\ pc[t] = "rows"
  /\ row[t] < I_count(w, t)
  /\ prev' = [prev EXCEPT ![info[w].s][info[w].e][r] = work_delta_q[w]]
  /\ row' = [row EXCEPT ![t] = @ + 1]
  /\ UNCHANGED <<split, left, syn, delta_q, work_delta_q, work_from, pc, wi>>

-----------------------------------------------------------------------------
(***************************************************************************)
(* screen_work_release, after the last row.                                *)
(***************************************************************************)
Work_sem_count(t) ==
  LET w == wi[t] IN
  /\ pc[t] = "rows"
  /\ row[t] = I_count(w, t)
  /\ sem_count' = [sem_count EXCEPT ![w] = @ - 1]
  /\ Goto(t, IF sem_count[w] = 1 THEN "hand" ELSE "finish")
  /\ UNCHANGED <<split, left, inited, work_sem, screen_bool, screen_sem,
                 last_interval, level, wi, row>>

(* The last thread hands the screen on: to the work that overtook this one,*)
(* if any did, or to the next to come.                                     *)
Overtaken_never(s) == FALSE
Overtaken(s) == screen_bool[s]

Hand_on(t) ==
  LET w == wi[t]
      s == info[w].s IN
  /\ pc[t] = "hand"
  /\ sem_count' = [sem_count EXCEPT ![w] = CORE_COUNT]
  /\ inited' = [inited EXCEPT ![w] = FALSE]
  /\ IF CORE_COUNT = 1
     THEN Goto(t, "finish") /\ UNCHANGED screen_bool
     ELSE /\ screen_bool' = [screen_bool EXCEPT ![s] = TRUE]
          /\ Goto(t, IF Overtaken(s) THEN "clear" ELSE "give")
  /\ UNCHANGED <<split, left, work_sem, screen_sem, last_interval, level,
                 wi, row>>

Clear_screen_bool(t) ==
  /\ pc[t] = "clear"
  /\ screen_bool' = [screen_bool EXCEPT ![info[wi[t]].s] = FALSE]
  /\ Goto(t, "finish")
  /\ UNCHANGED <<split, left, inited, sem_count, work_sem, screen_sem,
                 last_interval, level, wi, row>>

Release_screen_sem(t) ==
  /\ pc[t] = "give"
  /\ screen_sem' = [screen_sem EXCEPT ![info[wi[t]].s] = Released(@, 1, 1)]
  /\ Goto(t, "finish")
  /\ UNCHANGED <<split, left, inited, sem_count, work_sem, screen_bool,
                 last_interval, level, wi, row>>

(* send_frame notes that the last thread got this far; the thread leaves   *)
(* the work and goes on to the next.                                       *)
Finish(t) ==
  LET w == wi[t] IN
  /\ pc[t] = "finish"
  /\ last_w' = (IF t = CORE_COUNT - 1 THEN w ELSE last_w)
  /\ left' = [left EXCEPT ![w] = @ \ {t}]
  /\ wi' = [wi EXCEPT ![t] = IF w + 1 = WORK_COUNT THEN 0 ELSE w + 1]
  /\ row' = [row EXCEPT ![t] = 0]
  /\ Goto(t, "idle")
  /\ UNCHANGED <<last_n, even_odd, info, syn, level>>

Step(t) ==
  \/ Encode(t)
  \/ Claim(t)
  \/ Need_sync(t)
  \/ Screen_sem_acquire(t)
  \/ Screen_owned(t)
  \/ Sample_row(t)
  \/ \E q \in Level : Compute_dq(t, q)
  \/ Release_work_sem(t)
  \/ Work_sem_acquire(t)
  \/ Compress(t)
  \/ Work_sem_count(t)
  \/ Hand_on(t)
  \/ Clear_screen_bool(t)
  \/ Release_screen_sem(t)
  \/ Finish(t)

Next == \E t \in Thread : Step(t) \/ \E s \in Screen : Init_work(t, s)

Spec == Init /\ [][Next]_vars

(* The scheduler runs every thread that can run; frames need not come.     *)
FairSpec == Spec /\ \A t \in Thread : WF_vars(Step(t))

-----------------------------------------------------------------------------
Touching == {"read", "compute", "wake", "rows"}

(* The rows of dq_prev_coeffs a thread may still read or write.            *)
Rest(t) ==
  LET w == wi[t] IN
  IF pc[t] \in Touching
  THEN {<<info[w].s, info[w].e, r>> :
          r \in {x \in Share(w, t) : x >= I_start(w, t) + row[t]}}
  ELSE {}

(* init_work: the threads' shares are disjoint and together are the screen,*)
(* wherever the boundary has moved to.                                     *)
SharesTile ==
  \A w \in Work : left[w] # {} =>
    /\ UNION {Share(w, t) : t \in Thread} = Row(info[w].s)
    /\ \A t, u \in Thread : t # u => Share(w, t) \cap Share(w, u) = {}

(* encode.rs, screen_sem and screen_bool: no two threads ever have rows of *)
(* the same coefficients before them, whichever works they are in; in      *)
(* particular none when the shares of two works in progress differ.        *)
RowsOwned ==
  \A t, u \in Thread : t # u => Rest(t) \cap Rest(u) = {}

(* compute_dq and rescale_prev: what a thread is about to rescale is at the*)
(* level the rescaling starts from, though that was read by another thread,*)
(* while the work before was still being compressed.                       *)
PrevAtLevel ==
  \A t \in Thread : pc[t] \in {"compute", "wake", "rows"} =>
    \A x \in Rest(t) : prev[x[1]][x[2]][x[3]] = work_from[wi[t]]

(* delta_q is the level of the last frame of its screen: with no work in   *)
(* progress every row is at that level.                                    *)
LevelKept ==
  (\A w \in Work : left[w] = {}) =>
    \A s \in Screen, e \in {0, 1} :
      \A r \in Row(s) : prev[s][e][r] = delta_q[s][e]

(* release_sem: no permit is dropped by a full semaphore, none is left over*)
(* for the next frame of the work.                                         *)
NoLeftover ==
  \A t \in Thread : LET w == wi[t] IN
    /\ pc[t] = "wake" => work_sem[w] = 0
    /\ pc[t] = "give" => screen_sem[info[w].s] = 0
    /\ left[w] = {} => work_sem[w] = 0 /\ sem_count[w] = CORE_COUNT

(* Every frame that is begun is finished: neither the wait for the level   *)
(* nor the wait for the screen lasts for ever.                             *)
FramesFinish == \A w \in Work : left[w] # {} ~> left[w] = {}
=============================================================================
