------------------------------- MODULE Restart -------------------------------
(***************************************************************************)
(* How the streaming threads are stopped and started again.  Three threads *)
(* take part: the main thread, which pauses, initialises everything from   *)
(* RP_CONFIG, starts the streaming threads, works as one of them and joins *)
(* the others (entries/thread_main.rs); the service port thread, which     *)
(* takes new settings from the menu at any time (entries/handle_port); and *)
(* the system's notification thread, which pauses the stream around sleep  *)
(* and shutdown (nwm/main_nwm.c).  They share RESET_THREADS, RP_CONFIG,    *)
(* the restart flags and events, and the JPEG quality semaphore.           *)
(*                                                                         *)
(* The streaming threads themselves are FramePipeline; here they are "run" *)
(* and end when RESET_THREADS is set.  A setting is "mode" (any that needs *)
(* a restart), "quality" or "qos" (updated in place, as they are for JPEG  *)
(* over UDP).  Permits of the quality semaphore the encoders hold are left *)
(* out: FramePipeline shows that they hand them over.                      *)
(***************************************************************************)
EXTENDS Naturals, Sequences

CONSTANTS
  Val,         \* values of a setting
  WORK_COUNT,  \* permits of quality_can_update
  UPDATES,     \* bound on the updates sent by the menu
  ERRORS,      \* bound on the resets after a streaming error
  SLEEPS       \* bound on the times the console goes to sleep

ASSUME RestartAssumption ==
  /\ Val # {}
  /\ WORK_COUNT \in Nat \ {0}
  /\ UPDATES \in Nat /\ ERRORS \in Nat /\ SLEEPS \in Nat

Field == {"mode", "quality", "qos"}

(* the order of the fields of RP_CONFIG *)
FieldOrder == << "mode", "quality", "qos" >>

VARIABLES
  reset,      \* RESET_THREADS
  config,     \* RP_CONFIG
  used,       \* the settings the streaming threads go by
  can_update, \* count of quality_can_update
  created,    \* whether its handle was ever created
  (* main thread *)
  mpc, read, mtaken,
  (* port thread: the new settings, how many are stored, which differed,  *)
  (* permits taken, whether the handle it waits on has been closed        *)
  ppc, new, stored, changed, ptaken, stale,
  (* notification thread and what it shares with the main thread *)
  npc, restart_pending, restart_shutdown, ready_event, done_event,
  (* what is left of the bounds *)
  updates, errors, sleeps

config_vars == << reset, config, used >>
sem_vars    == << can_update, created >>
main_vars   == << mpc, read, mtaken >>
port_vars   == << ppc, new, stored, changed, ptaken, stale >>
pause_vars  == << restart_pending, restart_shutdown, ready_event, done_event >>
bounds      == << updates, errors, sleeps >>
vars == << config_vars, sem_vars, main_vars, port_vars, npc, pause_vars, bounds >>

MainControl == {"pause", "shutdown", "wait_done", "clear", "mode", "qos", "lock",
                "set_qos", "quality", "create", "take", "write", "release", "run",
                "exited"}
PortControl == {"idle", "store", "decide", "wait", "take", "write", "release"}
NotificationControl ==
  {"awake", "pending", "reset", "ready", "asleep", "off_pending", "off_reset",
   "off_ready", "off"}

TypeOK ==
  /\ reset \in BOOLEAN
  /\ config \in [Field -> Val]
  /\ used \in [Field -> Val]
  /\ can_update \in 0 .. WORK_COUNT
  /\ created \in BOOLEAN
  /\ mpc \in MainControl
  /\ read \in Val
  /\ mtaken \in 0 .. WORK_COUNT
  /\ ppc \in PortControl
  /\ new \in [Field -> Val]
  /\ stored \in 0 .. Len(FieldOrder)
  /\ changed \subseteq Field
  /\ ptaken \in 0 .. WORK_COUNT
  /\ stale \in BOOLEAN
  /\ npc \in NotificationControl
  /\ restart_pending \in BOOLEAN /\ restart_shutdown \in BOOLEAN
  /\ ready_event \in BOOLEAN /\ done_event \in BOOLEAN
  /\ updates \in 0 .. UPDATES
  /\ errors \in 0 .. ERRORS
  /\ sleeps \in 0 .. SLEEPS

Init ==
  /\ \E v \in Val : /\ config = [f \in Field |-> v]
                    /\ used = config /\ new = config /\ read = v
  /\ reset = FALSE
  /\ can_update = 0 /\ created = FALSE
  /\ mpc = "pause" /\ mtaken = 0
  /\ ppc = "idle" /\ stored = 0 /\ changed = {} /\ ptaken = 0 /\ stale = FALSE
  /\ npc = "awake"
  /\ restart_pending = FALSE /\ restart_shutdown = FALSE
  /\ ready_event = FALSE /\ done_event = FALSE
  /\ updates = UPDATES /\ errors = ERRORS /\ sleeps = SLEEPS

(* svcReleaseSemaphore is refused above the maximum. *)
Released_past(n) == can_update + n
Released(n) == IF can_update + n <= WORK_COUNT THEN can_update + n ELSE can_update

-----------------------------------------------------------------------------
(* The main thread: pause, init, run.                                      *)

(* pause: a pending restart is acknowledged, ...                           *)
Ready_kept == ready_event
Ready_signalled == TRUE

Main_pause ==
  /\ mpc = "pause"
  /\ \/ /\ restart_pending
        /\ restart_pending' = FALSE
        /\ ready_event' = Ready_signalled
        /\ mpc' = "shutdown"
     \/ /\ ~restart_pending
        /\ mpc' = "clear"
        /\ UNCHANGED << restart_pending, ready_event >>
  /\ UNCHANGED << config_vars, sem_vars, read, mtaken, port_vars, npc,
                  restart_shutdown, done_event, bounds >>

(* ... ends the main loop before a shutdown and waits out a sleep.         *)
Pauses_not == "clear"
Pauses == "wait_done"

Main_shutdown ==
  /\ mpc = "shutdown"
  /\ mpc' = IF restart_shutdown THEN "exited" ELSE Pauses
  /\ UNCHANGED << config_vars, sem_vars, read, mtaken, port_vars, npc,
                  pause_vars, bounds >>

Main_wait_done ==
  /\ mpc = "wait_done"
  /\ done_event
  /\ done_event' = FALSE
  /\ mpc' = "clear"
  /\ UNCHANGED << config_vars, sem_vars, read, mtaken, port_vars, npc,
                  restart_pending, restart_shutdown, ready_event, bounds >>

(* init: clear_reset_threads comes first.                                  *)
Main_clear ==
  /\ mpc = "clear"
  /\ reset' = FALSE
  /\ mpc' = "mode"
  /\ UNCHANGED << config, used, sem_vars, read, mtaken, port_vars, npc,
                  pause_vars, bounds >>

(* The settings read once per restart.                                     *)
Main_mode ==
  /\ mpc = "mode"
  /\ used' = [used EXCEPT !["mode"] = config["mode"]]
  /\ mpc' = "qos"
  /\ UNCHANGED << reset, config, sem_vars, read, mtaken, port_vars, npc,
                  pause_vars, bounds >>

Main_qos ==
  /\ mpc = "qos"
  /\ read' = config["qos"]
  /\ mpc' = "lock"
  /\ UNCHANGED << config_vars, sem_vars, mtaken, port_vars, npc, pause_vars,
                  bounds >>

(* init_reliable_stream takes the stream's lock with wait_syn, which gives *)
(* up once RESET_THREADS is set; then init fails and the main loop ends.   *)
Main_lock ==
  /\ mpc = "lock"
  /\ mpc' = IF reset THEN "exited" ELSE "set_qos"
  /\ UNCHANGED << config_vars, sem_vars, read, mtaken, port_vars, npc,
                  pause_vars, bounds >>

(* init_min_send_interval                                                  *)
Main_set_qos ==
  /\ mpc = "set_qos"
  /\ used' = [used EXCEPT !["qos"] = read]
  /\ mpc' = "quality"
  /\ UNCHANGED << reset, config, sem_vars, read, mtaken, port_vars, npc,
                  pause_vars, bounds >>

Main_quality ==
  /\ mpc = "quality"
  /\ read' = config["quality"]
  /\ mpc' = "create"
  /\ UNCHANGED << config_vars, sem_vars, mtaken, port_vars, npc, pause_vars,
                  bounds >>

(* Encoder::init closes the quality semaphore, whoever waits on it, and    *)
(* makes a new one.                                                        *)
Main_create ==
  /\ mpc = "create"
  /\ can_update' = WORK_COUNT
  /\ created' = TRUE
  /\ stale' = (stale \/ ppc = "take")
  /\ mtaken' = 0
  /\ mpc' = "take"
  /\ UNCHANGED << config_vars, read, ppc, new, stored, changed, ptaken, npc,
                  pause_vars, bounds >>

(* JpegShared::init takes every permit, one at a time, ...                 *)
Main_take ==
  /\ mpc = "take"
  /\ can_update > 0
  /\ can_update' = can_update - 1
  /\ mtaken' = mtaken + 1
  /\ mpc' = IF mtaken' = WORK_COUNT THEN "write" ELSE "take"
  /\ UNCHANGED << config_vars, created, read, port_vars, npc, pause_vars, bounds >>

(* ... or skips the tables when a reset comes first, ...                   *)
Main_give_up ==
  /\ mpc = "take"
  /\ reset
  /\ mpc' = "run"
  /\ UNCHANGED << config_vars, sem_vars, read, mtaken, port_vars, npc,
                  pause_vars, bounds >>

(* ... computes the tables and gives the permits back.                     *)
Main_write ==
  /\ mpc = "write"
  /\ used' = [used EXCEPT !["quality"] = read]
  /\ mpc' = "release"
  /\ UNCHANGED << reset, config, sem_vars, read, mtaken, port_vars, npc,
                  pause_vars, bounds >>

Main_release ==
  /\ mpc = "release"
  /\ can_update' = Released(WORK_COUNT)
  /\ mpc' = "run"
  /\ UNCHANGED << config_vars, created, read, mtaken, port_vars, npc, pause_vars,
                  bounds >>

(* The streaming threads end after a reset and are joined.                 *)
Main_run ==
  /\ mpc = "run"
  /\ reset
  /\ mpc' = "pause"
  /\ UNCHANGED << config_vars, sem_vars, read, mtaken, port_vars, npc,
                  pause_vars, bounds >>

(* A streaming thread meets an error and calls set_reset_threads.          *)
Streaming_error ==
  /\ mpc = "run"
  /\ errors > 0
  /\ errors' = errors - 1
  /\ reset' = TRUE
  /\ UNCHANGED << config, used, sem_vars, main_vars, port_vars, npc, pause_vars,
                  updates, sleeps >>

Main ==
  \/ Main_pause \/ Main_shutdown \/ Main_wait_done \/ Main_clear \/ Main_mode
  \/ Main_qos \/ Main_lock \/ Main_set_qos \/ Main_quality \/ Main_create
  \/ Main_take \/ Main_give_up \/ Main_write \/ Main_release \/ Main_run

-----------------------------------------------------------------------------
(* The port thread: SVC_NWM_CMD_PARAMS_UPDATE, set_config.                 *)

Port_receive ==
  /\ ppc = "idle"
  /\ updates > 0
  /\ updates' = updates - 1
  /\ new' \in [Field -> Val]
  /\ ppc' = "store"
  /\ UNCHANGED << config_vars, sem_vars, main_vars, stored, changed, ptaken,
                  stale, npc, pause_vars, errors, sleeps >>

(* One field of RP_CONFIG after the other, stored if it differs.           *)
Port_store ==
  /\ ppc = "store"
  /\ LET f == FieldOrder[stored + 1]
     IN  /\ config' = [config EXCEPT ![f] = new[f]]
         /\ changed' = IF config[f] = new[f] THEN changed ELSE changed \cup {f}
  /\ stored' = stored + 1
  /\ ppc' = IF stored' = Len(FieldOrder) THEN "decide" ELSE "store"
  /\ UNCHANGED << reset, used, sem_vars, main_vars, new, ptaken, stale, npc,
                  pause_vars, bounds >>

(* A restart if any setting needs one; otherwise what changed is updated   *)
(* in place.                                                               *)
Needs_restart_alone == changed = {"mode"}
Needs_restart == "mode" \in changed

Port_decide ==
  /\ ppc = "decide"
  /\ \/ /\ Needs_restart
        /\ reset' = TRUE
        /\ ppc' = "idle"
        /\ UNCHANGED used
     \/ /\ ~Needs_restart
        /\ used' = [used EXCEPT !["qos"] = IF "qos" \in changed THEN new["qos"] ELSE @]
        /\ ppc' = IF "quality" \in changed THEN "wait" ELSE "idle"
        /\ UNCHANGED reset
  /\ stored' = 0 /\ changed' = {} /\ ptaken' = 0
  /\ UNCHANGED << config, sem_vars, main_vars, new, stale, npc, pause_vars,
                  bounds >>

(* jpeg_update_quality: every permit, one at a time.  Each wait goes by    *)
(* the handle as it is when the wait begins (none before the first init).  *)
Port_wait ==
  /\ ppc = "wait"
  /\ stale' = ~created
  /\ ppc' = "take"
  /\ UNCHANGED << config_vars, sem_vars, main_vars, new, stored, changed, ptaken,
                  npc, pause_vars, bounds >>

Port_take ==
  /\ ppc = "take"
  /\ ~stale
  /\ can_update > 0
  /\ can_update' = can_update - 1
  /\ ptaken' = ptaken + 1
  /\ ppc' = IF ptaken' = WORK_COUNT THEN "write" ELSE "wait"
  /\ UNCHANGED << config_vars, created, main_vars, new, stored, changed, stale,
                  npc, pause_vars, bounds >>

(* The handle was closed under the wait: an error, which resets.           *)
Port_stale ==
  /\ ppc = "take"
  /\ stale
  /\ stale' = FALSE
  /\ reset' = TRUE
  /\ ppc' = "idle"
  /\ UNCHANGED << config, used, sem_vars, main_vars, new, stored, changed, ptaken,
                  npc, pause_vars, bounds >>

Port_give_up ==
  /\ ppc = "take"
  /\ reset
  /\ ppc' = "idle"
  /\ UNCHANGED << config_vars, sem_vars, main_vars, new, stored, changed, ptaken,
                  stale, npc, pause_vars, bounds >>

Port_write ==
  /\ ppc = "write"
  /\ used' = [used EXCEPT !["quality"] = new["quality"]]
  /\ ppc' = "release"
  /\ UNCHANGED << reset, config, sem_vars, main_vars, new, stored, changed, ptaken,
                  stale, npc, pause_vars, bounds >>

Port_release ==
  /\ ppc = "release"
  /\ can_update' = Released(WORK_COUNT)
  /\ ppc' = "idle"
  /\ UNCHANGED << config_vars, created, main_vars, new, stored, changed, ptaken,
                  stale, npc, pause_vars, bounds >>

Port ==
  \/ Port_store \/ Port_decide \/ Port_wait \/ Port_take \/ Port_stale
  \/ Port_give_up \/ Port_write \/ Port_release

-----------------------------------------------------------------------------
(* The notification thread.  The system lets the console sleep, wakes it   *)
(* again, and shuts it down at the end.                                    *)

Nwm_pause_begin ==
  /\ npc = "awake"
  /\ \/ /\ sleeps > 0
        /\ sleeps' = sleeps - 1
        /\ restart_shutdown' = FALSE
        /\ npc' = "pending"
     \/ /\ restart_shutdown' = TRUE
        /\ npc' = "off_pending"
        /\ UNCHANGED sleeps
  /\ UNCHANGED << config_vars, sem_vars, main_vars, port_vars, restart_pending,
                  ready_event, done_event, updates, errors >>

Nwm_pause_pending ==
  /\ npc \in {"pending", "off_pending"}
  /\ restart_pending' = TRUE
  /\ npc' = IF npc = "pending" THEN "reset" ELSE "off_reset"
  /\ UNCHANGED << config_vars, sem_vars, main_vars, port_vars, restart_shutdown,
                  ready_event, done_event, bounds >>

Nwm_pause_reset ==
  /\ npc \in {"reset", "off_reset"}
  /\ reset' = TRUE
  /\ npc' = IF npc = "reset" THEN "ready" ELSE "off_ready"
  /\ UNCHANGED << config, used, sem_vars, main_vars, port_vars, pause_vars, bounds >>

Nwm_pause_ready ==
  /\ npc \in {"ready", "off_ready"}
  /\ ready_event
  /\ ready_event' = FALSE
  /\ npc' = IF npc = "ready" THEN "asleep" ELSE "off"
  /\ UNCHANGED << config_vars, sem_vars, main_vars, port_vars, restart_pending,
                  restart_shutdown, done_event, bounds >>

Nwm_unpause ==
  /\ npc = "asleep"
  /\ done_event' = TRUE
  /\ npc' = "awake"
  /\ UNCHANGED << config_vars, sem_vars, main_vars, port_vars, restart_pending,
                  restart_shutdown, ready_event, bounds >>

Nwm_pause == Nwm_pause_pending \/ Nwm_pause_reset \/ Nwm_pause_ready

Notification == Nwm_pause_begin \/ Nwm_pause \/ Nwm_unpause

-----------------------------------------------------------------------------
Next ==
  \/ Main
  \/ Streaming_error
  \/ Port_receive
  \/ Port
  \/ Notification

(* Each thread runs on when it can.  Nothing obliges the menu to send      *)
(* settings or the console to sleep; what wakes it is up to its owner.     *)
Fairness == WF_vars(Main) /\ WF_vars(Port) /\ WF_vars(Nwm_pause)

Spec     == Init /\ [][Next]_vars
FairSpec == Spec /\ Fairness

-----------------------------------------------------------------------------
(* Properties.                                                             *)

(* While the console sleeps nothing streams: once nwmPause has returned    *)
(* the main thread is held in pause until nwmUnpause.                      *)
AsleepStopped == npc = "asleep" => mpc \in {"shutdown", "wait_done"}

(* No update of a setting that needs a restart is lost, whatever restart   *)
(* it falls into: when the port thread is done and the stream runs with no *)
(* reset to come, it runs with the settings in RP_CONFIG.                  *)
RestartReadsConfig ==
  ppc = "idle" /\ mpc = "run" /\ ~reset => used["mode"] = config["mode"]

(* A pause that finds the stream running is acknowledged.                  *)
PauseAcknowledged ==
  (npc \in {"ready", "off_ready"} /\ mpc = "run" /\ reset)
    ~> (npc \in {"asleep", "off"})

(* The main loop ends only for a shutdown: changing settings while         *)
(* streaming does not stop the stream for good.                            *)
StreamSurvives == mpc = "exited" => restart_shutdown

(* An update of the quality made while streaming comes to an end.          *)
QualityUpdateEnds == (ppc = "wait") ~> (ppc = "idle")

-----------------------------------------------------------------------------
(* The inductive invariant.                                                *)

(* Who may be where around a pause: an acknowledgement answers the pause   *)
(* in progress, and no done event is left over from an earlier one.        *)
PauseInv ==
  /\ npc \in {"pending", "reset", "ready", "asleep"} => ~restart_shutdown
  /\ restart_pending => npc \in {"reset", "ready", "off_reset", "off_ready"}
  /\ ready_event =>
       /\ npc \in {"reset", "ready", "off_reset", "off_ready"}
       /\ ~restart_pending /\ ~done_event
       /\ npc \in {"reset", "ready"} => mpc \in {"shutdown", "wait_done"}
  /\ done_event => mpc \in {"shutdown", "wait_done", "exited"}
  /\ npc = "asleep" =>
       /\ mpc \in {"shutdown", "wait_done"}
       /\ ~restart_pending /\ ~ready_event /\ ~done_event

(* An initialised stream that misses a new setting has a reset coming.     *)
ConfigInv ==
  mpc \notin {"pause", "shutdown", "wait_done", "clear", "mode", "exited"}
  /\ used["mode"] # config["mode"] =>
       \/ reset
       \/ ppc \in {"store", "decide"} /\ "mode" \in changed

(* The counters of a thread are below their ends where it goes on counting. *)
CountInv ==
  /\ ppc = "store" => stored < Len(FieldOrder)
  /\ ppc \notin {"store", "decide"} => stored = 0
  /\ ppc \in {"wait", "take"} => ptaken < WORK_COUNT
  /\ mpc = "take" => mtaken < WORK_COUNT

Inv == TypeOK /\ CountInv /\ PauseInv /\ ConfigInv

=============================================================================
