--------------------------- MODULE RestartProofs ---------------------------
(***************************************************************************)
(* The restart protocol for any values of the settings, any number of      *)
(* permits and any number of updates, errors and sleeps: Inv of Restart is *)
(* inductive, and the two safety properties of its run follow from it.     *)
(* The four parts of Inv are preserved one by one; each step lemma has one *)
(* case per action.                                                        *)
(***************************************************************************)
EXTENDS Restart, TLAPS

USE RestartAssumption

(* The fields of RP_CONFIG are stored in three steps.                      *)
LEMMA FieldOrderType ==
  /\ Len(FieldOrder) = 3
  /\ \A i \in 1 .. 3 : FieldOrder[i] \in Field
BY DEF FieldOrder, Field

(* The state main_loop starts from satisfies the invariant.                *)
LEMMA InitInv == Init => Inv
<1> SUFFICES ASSUME Init PROVE Inv
  OBVIOUS
<1>1. PICK v \in Val : /\ config = [f \in Field |-> v]
                       /\ used = config /\ new = config /\ read = v
  BY DEF Init
<1>2. TypeOK
  <2>1. /\ reset \in BOOLEAN /\ created \in BOOLEAN /\ stale \in BOOLEAN
        /\ restart_pending \in BOOLEAN /\ restart_shutdown \in BOOLEAN
        /\ ready_event \in BOOLEAN /\ done_event \in BOOLEAN
    BY Zenon DEF Init
  <2>2. /\ config \in [Field -> Val] /\ used \in [Field -> Val]
        /\ new \in [Field -> Val] /\ read \in Val
    BY <1>1
  <2>3. /\ mpc \in MainControl /\ ppc \in PortControl
        /\ npc \in NotificationControl /\ changed \subseteq Field
    BY DEF Init, MainControl, PortControl, NotificationControl
  <2>4. /\ can_update \in 0 .. WORK_COUNT /\ mtaken \in 0 .. WORK_COUNT
        /\ ptaken \in 0 .. WORK_COUNT /\ stored \in 0 .. Len(FieldOrder)
        /\ updates \in 0 .. UPDATES /\ errors \in 0 .. ERRORS
        /\ sleeps \in 0 .. SLEEPS
    BY FieldOrderType DEF Init
  <2>5. QED
    BY <2>1, <2>2, <2>3, <2>4 DEF TypeOK
<1>3. CountInv /\ PauseInv /\ ConfigInv
  BY DEF Init, CountInv, PauseInv, ConfigInv
<1>4. QED
  BY <1>2, <1>3 DEF Inv

(* Every step of the three threads keeps the types. *)
LEMMA TypeStep ==
  ASSUME Inv, [Next]_vars
  PROVE  TypeOK'
<1>1. Inv
  OBVIOUS
<1>2. CASE Main_pause
  <2>1. restart_pending' \in BOOLEAN /\ ready_event' \in BOOLEAN
    BY <1>1, <1>2, Zenon DEF Inv, TypeOK, Main_pause, Ready_signalled
  <2>2. QED
    BY <1>1, <1>2, <2>1, FieldOrderType
       DEF Inv, TypeOK, CountInv, MainControl, PortControl,
         NotificationControl, Field, Main_pause, Ready_signalled,
           config_vars, sem_vars, main_vars, port_vars, pause_vars, bounds
<1>3. CASE Main_shutdown
  BY <1>1, <1>3, FieldOrderType
     DEF Inv, TypeOK, CountInv, MainControl, PortControl,
         NotificationControl, Field, Main_shutdown, Pauses,
         config_vars, sem_vars, main_vars, port_vars, pause_vars, bounds
<1>4. CASE Main_wait_done
  <2>1. done_event' \in BOOLEAN
    BY <1>1, <1>4, Zenon DEF Inv, TypeOK, Main_wait_done
  <2>2. QED
    BY <1>1, <1>4, <2>1, FieldOrderType
       DEF Inv, TypeOK, CountInv, MainControl, PortControl,
         NotificationControl, Field, Main_wait_done,
           config_vars, sem_vars, main_vars, port_vars, pause_vars, bounds
<1>5. CASE Main_clear
  <2>1. reset' \in BOOLEAN
    BY <1>1, <1>5, Zenon DEF Inv, TypeOK, Main_clear
  <2>2. QED
    BY <1>1, <1>5, <2>1, FieldOrderType
       DEF Inv, TypeOK, CountInv, MainControl, PortControl,
         NotificationControl, Field, Main_clear,
           config_vars, sem_vars, main_vars, port_vars, pause_vars, bounds
<1>6. CASE Main_mode
  BY <1>1, <1>6, FieldOrderType
     DEF Inv, TypeOK, CountInv, MainControl, PortControl,
         NotificationControl, Field, Main_mode,
         config_vars, sem_vars, main_vars, port_vars, pause_vars, bounds
<1>7. CASE Main_qos
  BY <1>1, <1>7, FieldOrderType
     DEF Inv, TypeOK, CountInv, MainControl, PortControl,
         NotificationControl, Field, Main_qos,
         config_vars, sem_vars, main_vars, port_vars, pause_vars, bounds
<1>8. CASE Main_lock
  BY <1>1, <1>8, FieldOrderType
     DEF Inv, TypeOK, CountInv, MainControl, PortControl,
         NotificationControl, Field, Main_lock,
         config_vars, sem_vars, main_vars, port_vars, pause_vars, bounds
<1>9. CASE Main_set_qos
  BY <1>1, <1>9, FieldOrderType
     DEF Inv, TypeOK, CountInv, MainControl, PortControl,
         NotificationControl, Field, Main_set_qos,
         config_vars, sem_vars, main_vars, port_vars, pause_vars, bounds
<1>10. CASE Main_quality
  BY <1>1, <1>10, FieldOrderType
     DEF Inv, TypeOK, CountInv, MainControl, PortControl,
         NotificationControl, Field, Main_quality,
         config_vars, sem_vars, main_vars, port_vars, pause_vars, bounds
<1>11. CASE Main_create
  BY <1>1, <1>11, FieldOrderType
     DEF Inv, TypeOK, CountInv, MainControl, PortControl,
         NotificationControl, Field, Main_create,
         config_vars, sem_vars, main_vars, port_vars, pause_vars, bounds
<1>12. CASE Main_take
  BY <1>1, <1>12, FieldOrderType
     DEF Inv, TypeOK, CountInv, MainControl, PortControl,
         NotificationControl, Field, Main_take,
         config_vars, sem_vars, main_vars, port_vars, pause_vars, bounds
<1>13. CASE Main_give_up
  BY <1>1, <1>13, FieldOrderType
     DEF Inv, TypeOK, CountInv, MainControl, PortControl,
         NotificationControl, Field, Main_give_up,
         config_vars, sem_vars, main_vars, port_vars, pause_vars, bounds
<1>14. CASE Main_write
  BY <1>1, <1>14, FieldOrderType
     DEF Inv, TypeOK, CountInv, MainControl, PortControl,
         NotificationControl, Field, Main_write,
         config_vars, sem_vars, main_vars, port_vars, pause_vars, bounds
<1>15. CASE Main_release
  BY <1>1, <1>15, FieldOrderType
     DEF Inv, TypeOK, CountInv, MainControl, PortControl,
         NotificationControl, Field, Main_release, Released,
         config_vars, sem_vars, main_vars, port_vars, pause_vars, bounds
<1>16. CASE Main_run
  BY <1>1, <1>16, FieldOrderType
     DEF Inv, TypeOK, CountInv, MainControl, PortControl,
         NotificationControl, Field, Main_run,
         config_vars, sem_vars, main_vars, port_vars, pause_vars, bounds
<1>17. CASE Streaming_error
  BY <1>1, <1>17, FieldOrderType
     DEF Inv, TypeOK, CountInv, MainControl, PortControl,
         NotificationControl, Field, Streaming_error,
         config_vars, sem_vars, main_vars, port_vars, pause_vars, bounds
<1>18. CASE Port_receive
  BY <1>1, <1>18, FieldOrderType
     DEF Inv, TypeOK, CountInv, MainControl, PortControl,
         NotificationControl, Field, Port_receive,
         config_vars, sem_vars, main_vars, port_vars, pause_vars, bounds
<1>19. CASE Port_store
  <2>1. stored + 1 \in 1 .. 3 /\ FieldOrder[stored + 1] \in Field
    BY <1>1, <1>19, FieldOrderType DEF Inv, TypeOK, CountInv, Port_store
  <2>2. config' \in [Field -> Val] /\ changed' \subseteq Field
    BY <1>1, <1>19, <2>1 DEF Inv, TypeOK, Port_store
  <2>3. stored' \in 0 .. Len(FieldOrder) /\ ppc' \in PortControl
    BY <1>1, <1>19, <2>1, FieldOrderType DEF Inv, TypeOK, Port_store, PortControl
  <2>4. QED
    BY <1>1, <1>19, <2>2, <2>3
       DEF Inv, TypeOK, Port_store, config_vars, sem_vars, main_vars, port_vars,
           pause_vars, bounds
<1>20. CASE Port_decide
  <2>1. reset' \in BOOLEAN
    BY <1>1, <1>20, Zenon DEF Inv, TypeOK, Port_decide, Needs_restart
  <2>2. QED
    BY <1>1, <1>20, <2>1, FieldOrderType
       DEF Inv, TypeOK, CountInv, MainControl, PortControl,
         NotificationControl, Field, Port_decide, Needs_restart,
           config_vars, sem_vars, main_vars, port_vars, pause_vars, bounds
<1>21. CASE Port_wait
  BY <1>1, <1>21, FieldOrderType
     DEF Inv, TypeOK, CountInv, MainControl, PortControl,
         NotificationControl, Field, Port_wait,
         config_vars, sem_vars, main_vars, port_vars, pause_vars, bounds
<1>22. CASE Port_take
  BY <1>1, <1>22, FieldOrderType
     DEF Inv, TypeOK, CountInv, MainControl, PortControl,
         NotificationControl, Field, Port_take,
         config_vars, sem_vars, main_vars, port_vars, pause_vars, bounds
<1>23. CASE Port_stale
  <2>1. reset' \in BOOLEAN /\ stale' \in BOOLEAN
    BY <1>1, <1>23, Zenon DEF Inv, TypeOK, Port_stale
  <2>2. QED
    BY <1>1, <1>23, <2>1, FieldOrderType
       DEF Inv, TypeOK, CountInv, MainControl, PortControl,
         NotificationControl, Field, Port_stale,
           config_vars, sem_vars, main_vars, port_vars, pause_vars, bounds
<1>24. CASE Port_give_up
  BY <1>1, <1>24, FieldOrderType
     DEF Inv, TypeOK, CountInv, MainControl, PortControl,
         NotificationControl, Field, Port_give_up,
         config_vars, sem_vars, main_vars, port_vars, pause_vars, bounds
<1>25. CASE Port_write
  BY <1>1, <1>25, FieldOrderType
     DEF Inv, TypeOK, CountInv, MainControl, PortControl,
         NotificationControl, Field, Port_write,
         config_vars, sem_vars, main_vars, port_vars, pause_vars, bounds
<1>26. CASE Port_release
  BY <1>1, <1>26, FieldOrderType
     DEF Inv, TypeOK, CountInv, MainControl, PortControl,
         NotificationControl, Field, Port_release, Released,
         config_vars, sem_vars, main_vars, port_vars, pause_vars, bounds
<1>27. CASE Nwm_pause_begin
  <2>1. restart_shutdown' \in BOOLEAN
    BY <1>1, <1>27, Zenon DEF Inv, TypeOK, Nwm_pause_begin
  <2>2. QED
    BY <1>1, <1>27, <2>1, FieldOrderType
       DEF Inv, TypeOK, CountInv, MainControl, PortControl,
         NotificationControl, Field, Nwm_pause_begin,
           config_vars, sem_vars, main_vars, port_vars, pause_vars, bounds
<1>28. CASE Nwm_pause_pending
  BY <1>1, <1>28, FieldOrderType
     DEF Inv, TypeOK, CountInv, MainControl, PortControl,
         NotificationControl, Field, Nwm_pause_pending,
         config_vars, sem_vars, main_vars, port_vars, pause_vars, bounds
<1>29. CASE Nwm_pause_reset
  BY <1>1, <1>29, FieldOrderType
     DEF Inv, TypeOK, CountInv, MainControl, PortControl,
         NotificationControl, Field, Nwm_pause_reset,
         config_vars, sem_vars, main_vars, port_vars, pause_vars, bounds
<1>30. CASE Nwm_pause_ready
  <2>1. ready_event' \in BOOLEAN
    BY <1>1, <1>30, Zenon DEF Inv, TypeOK, Nwm_pause_ready
  <2>2. QED
    BY <1>1, <1>30, <2>1, FieldOrderType
       DEF Inv, TypeOK, CountInv, MainControl, PortControl,
         NotificationControl, Field, Nwm_pause_ready,
           config_vars, sem_vars, main_vars, port_vars, pause_vars, bounds
<1>31. CASE Nwm_unpause
  BY <1>1, <1>31, FieldOrderType
     DEF Inv, TypeOK, CountInv, MainControl, PortControl,
         NotificationControl, Field, Nwm_unpause,
         config_vars, sem_vars, main_vars, port_vars, pause_vars, bounds
<1>32. CASE UNCHANGED vars
  BY <1>1, <1>32 DEF Inv, TypeOK, CountInv, MainControl, PortControl, NotificationControl, vars, config_vars, sem_vars, main_vars, port_vars, pause_vars, bounds
<1>33. QED
  BY <1>2, <1>3, <1>4, <1>5, <1>6, <1>7, <1>8, <1>9, <1>10, <1>11, <1>12, <1>13, <1>14, <1>15, <1>16, <1>17, <1>18, <1>19, <1>20, <1>21, <1>22, <1>23, <1>24, <1>25, <1>26, <1>27, <1>28, <1>29, <1>30, <1>31, <1>32
     DEF Next, Main, Port, Notification, Nwm_pause

(* Every step keeps the counters below their ends. *)
LEMMA CountStep ==
  ASSUME Inv, [Next]_vars
  PROVE  CountInv'
<1>1. Inv
  OBVIOUS
<1>2. CASE Main_pause
  BY <1>1, <1>2, FieldOrderType
     DEF Inv, TypeOK, CountInv, Field, Main_pause, Ready_signalled,
         config_vars, sem_vars, main_vars, port_vars, pause_vars, bounds
<1>3. CASE Main_shutdown
  BY <1>1, <1>3, FieldOrderType
     DEF Inv, TypeOK, CountInv, Field, Main_shutdown, Pauses,
         config_vars, sem_vars, main_vars, port_vars, pause_vars, bounds
<1>4. CASE Main_wait_done
  BY <1>1, <1>4, FieldOrderType
     DEF Inv, TypeOK, CountInv, Field, Main_wait_done,
         config_vars, sem_vars, main_vars, port_vars, pause_vars, bounds
<1>5. CASE Main_clear
  BY <1>1, <1>5, FieldOrderType
     DEF Inv, TypeOK, CountInv, Field, Main_clear,
         config_vars, sem_vars, main_vars, port_vars, pause_vars, bounds
<1>6. CASE Main_mode
  BY <1>1, <1>6, FieldOrderType
     DEF Inv, TypeOK, CountInv, Field, Main_mode,
         config_vars, sem_vars, main_vars, port_vars, pause_vars, bounds
<1>7. CASE Main_qos
  BY <1>1, <1>7, FieldOrderType
     DEF Inv, TypeOK, CountInv, Field, Main_qos,
         config_vars, sem_vars, main_vars, port_vars, pause_vars, bounds
<1>8. CASE Main_lock
  BY <1>1, <1>8, FieldOrderType
     DEF Inv, TypeOK, CountInv, Field, Main_lock,
         config_vars, sem_vars, main_vars, port_vars, pause_vars, bounds
<1>9. CASE Main_set_qos
  BY <1>1, <1>9, FieldOrderType
     DEF Inv, TypeOK, CountInv, Field, Main_set_qos,
         config_vars, sem_vars, main_vars, port_vars, pause_vars, bounds
<1>10. CASE Main_quality
  BY <1>1, <1>10, FieldOrderType
     DEF Inv, TypeOK, CountInv, Field, Main_quality,
         config_vars, sem_vars, main_vars, port_vars, pause_vars, bounds
<1>11. CASE Main_create
  BY <1>1, <1>11, FieldOrderType
     DEF Inv, TypeOK, CountInv, Field, Main_create,
         config_vars, sem_vars, main_vars, port_vars, pause_vars, bounds
<1>12. CASE Main_take
  BY <1>1, <1>12, FieldOrderType
     DEF Inv, TypeOK, CountInv, Field, Main_take,
         config_vars, sem_vars, main_vars, port_vars, pause_vars, bounds
<1>13. CASE Main_give_up
  BY <1>1, <1>13, FieldOrderType
     DEF Inv, TypeOK, CountInv, Field, Main_give_up,
         config_vars, sem_vars, main_vars, port_vars, pause_vars, bounds
<1>14. CASE Main_write
  BY <1>1, <1>14, FieldOrderType
     DEF Inv, TypeOK, CountInv, Field, Main_write,
         config_vars, sem_vars, main_vars, port_vars, pause_vars, bounds
<1>15. CASE Main_release
  BY <1>1, <1>15, FieldOrderType
     DEF Inv, TypeOK, CountInv, Field, Main_release, Released,
         config_vars, sem_vars, main_vars, port_vars, pause_vars, bounds
<1>16. CASE Main_run
  BY <1>1, <1>16, FieldOrderType
     DEF Inv, TypeOK, CountInv, Field, Main_run,
         config_vars, sem_vars, main_vars, port_vars, pause_vars, bounds
<1>17. CASE Streaming_error
  BY <1>1, <1>17, FieldOrderType
     DEF Inv, TypeOK, CountInv, Field, Streaming_error,
         config_vars, sem_vars, main_vars, port_vars, pause_vars, bounds
<1>18. CASE Port_receive
  BY <1>1, <1>18, FieldOrderType
     DEF Inv, TypeOK, CountInv, Field, Port_receive,
         config_vars, sem_vars, main_vars, port_vars, pause_vars, bounds
<1>19. CASE Port_store
  BY <1>1, <1>19, FieldOrderType
     DEF Inv, TypeOK, CountInv, Field, Port_store, FieldOrder,
         config_vars, sem_vars, main_vars, port_vars, pause_vars, bounds
<1>20. CASE Port_decide
  BY <1>1, <1>20, FieldOrderType
     DEF Inv, TypeOK, CountInv, Field, Port_decide, Needs_restart,
         config_vars, sem_vars, main_vars, port_vars, pause_vars, bounds
<1>21. CASE Port_wait
  BY <1>1, <1>21, FieldOrderType
     DEF Inv, TypeOK, CountInv, Field, Port_wait,
         config_vars, sem_vars, main_vars, port_vars, pause_vars, bounds
<1>22. CASE Port_take
  BY <1>1, <1>22, FieldOrderType
     DEF Inv, TypeOK, CountInv, Field, Port_take,
         config_vars, sem_vars, main_vars, port_vars, pause_vars, bounds
<1>23. CASE Port_stale
  BY <1>1, <1>23, FieldOrderType
     DEF Inv, TypeOK, CountInv, Field, Port_stale,
         config_vars, sem_vars, main_vars, port_vars, pause_vars, bounds
<1>24. CASE Port_give_up
  BY <1>1, <1>24, FieldOrderType
     DEF Inv, TypeOK, CountInv, Field, Port_give_up,
         config_vars, sem_vars, main_vars, port_vars, pause_vars, bounds
<1>25. CASE Port_write
  BY <1>1, <1>25, FieldOrderType
     DEF Inv, TypeOK, CountInv, Field, Port_write,
         config_vars, sem_vars, main_vars, port_vars, pause_vars, bounds
<1>26. CASE Port_release
  BY <1>1, <1>26, FieldOrderType
     DEF Inv, TypeOK, CountInv, Field, Port_release, Released,
         config_vars, sem_vars, main_vars, port_vars, pause_vars, bounds
<1>27. CASE Nwm_pause_begin
  BY <1>1, <1>27, FieldOrderType
     DEF Inv, TypeOK, CountInv, Field, Nwm_pause_begin,
         config_vars, sem_vars, main_vars, port_vars, pause_vars, bounds
<1>28. CASE Nwm_pause_pending
  BY <1>1, <1>28, FieldOrderType
     DEF Inv, TypeOK, CountInv, Field, Nwm_pause_pending,
         config_vars, sem_vars, main_vars, port_vars, pause_vars, bounds
<1>29. CASE Nwm_pause_reset
  BY <1>1, <1>29, FieldOrderType
     DEF Inv, TypeOK, CountInv, Field, Nwm_pause_reset,
         config_vars, sem_vars, main_vars, port_vars, pause_vars, bounds
<1>30. CASE Nwm_pause_ready
  BY <1>1, <1>30, FieldOrderType
     DEF Inv, TypeOK, CountInv, Field, Nwm_pause_ready,
         config_vars, sem_vars, main_vars, port_vars, pause_vars, bounds
<1>31. CASE Nwm_unpause
  BY <1>1, <1>31, FieldOrderType
     DEF Inv, TypeOK, CountInv, Field, Nwm_unpause,
         config_vars, sem_vars, main_vars, port_vars, pause_vars, bounds
<1>32. CASE UNCHANGED vars
  BY <1>1, <1>32 DEF Inv, TypeOK, CountInv, vars, config_vars, sem_vars, main_vars, port_vars, pause_vars, bounds
<1>33. QED
  BY <1>2, <1>3, <1>4, <1>5, <1>6, <1>7, <1>8, <1>9, <1>10, <1>11, <1>12, <1>13, <1>14, <1>15, <1>16, <1>17, <1>18, <1>19, <1>20, <1>21, <1>22, <1>23, <1>24, <1>25, <1>26, <1>27, <1>28, <1>29, <1>30, <1>31, <1>32
     DEF Next, Main, Port, Notification, Nwm_pause

(* Every step keeps the handshake of nwmPause and pause. *)
LEMMA PauseStep ==
  ASSUME Inv, [Next]_vars
  PROVE  PauseInv'
<1>1. Inv
  OBVIOUS
<1>2. CASE Main_pause
  BY <1>1, <1>2, FieldOrderType
     DEF Inv, TypeOK, PauseInv, Field, Main_pause, Ready_signalled,
         config_vars, sem_vars, main_vars, port_vars, pause_vars, bounds
<1>3. CASE Main_shutdown
  BY <1>1, <1>3, FieldOrderType
     DEF Inv, TypeOK, PauseInv, Field, Main_shutdown, Pauses,
         config_vars, sem_vars, main_vars, port_vars, pause_vars, bounds
<1>4. CASE Main_wait_done
  BY <1>1, <1>4, FieldOrderType
     DEF Inv, TypeOK, PauseInv, Field, Main_wait_done,
         config_vars, sem_vars, main_vars, port_vars, pause_vars, bounds
<1>5. CASE Main_clear
  BY <1>1, <1>5, FieldOrderType
     DEF Inv, TypeOK, PauseInv, Field, Main_clear,
         config_vars, sem_vars, main_vars, port_vars, pause_vars, bounds
<1>6. CASE Main_mode
  BY <1>1, <1>6, FieldOrderType
     DEF Inv, TypeOK, PauseInv, Field, Main_mode,
         config_vars, sem_vars, main_vars, port_vars, pause_vars, bounds
<1>7. CASE Main_qos
  BY <1>1, <1>7, FieldOrderType
     DEF Inv, TypeOK, PauseInv, Field, Main_qos,
         config_vars, sem_vars, main_vars, port_vars, pause_vars, bounds
<1>8. CASE Main_lock
  BY <1>1, <1>8, FieldOrderType
     DEF Inv, TypeOK, PauseInv, Field, Main_lock,
         config_vars, sem_vars, main_vars, port_vars, pause_vars, bounds
<1>9. CASE Main_set_qos
  BY <1>1, <1>9, FieldOrderType
     DEF Inv, TypeOK, PauseInv, Field, Main_set_qos,
         config_vars, sem_vars, main_vars, port_vars, pause_vars, bounds
<1>10. CASE Main_quality
  BY <1>1, <1>10, FieldOrderType
     DEF Inv, TypeOK, PauseInv, Field, Main_quality,
         config_vars, sem_vars, main_vars, port_vars, pause_vars, bounds
<1>11. CASE Main_create
  BY <1>1, <1>11, FieldOrderType
     DEF Inv, TypeOK, PauseInv, Field, Main_create,
         config_vars, sem_vars, main_vars, port_vars, pause_vars, bounds
<1>12. CASE Main_take
  BY <1>1, <1>12, FieldOrderType
     DEF Inv, TypeOK, PauseInv, Field, Main_take,
         config_vars, sem_vars, main_vars, port_vars, pause_vars, bounds
<1>13. CASE Main_give_up
  BY <1>1, <1>13, FieldOrderType
     DEF Inv, TypeOK, PauseInv, Field, Main_give_up,
         config_vars, sem_vars, main_vars, port_vars, pause_vars, bounds
<1>14. CASE Main_write
  BY <1>1, <1>14, FieldOrderType
     DEF Inv, TypeOK, PauseInv, Field, Main_write,
         config_vars, sem_vars, main_vars, port_vars, pause_vars, bounds
<1>15. CASE Main_release
  BY <1>1, <1>15, FieldOrderType
     DEF Inv, TypeOK, PauseInv, Field, Main_release, Released,
         config_vars, sem_vars, main_vars, port_vars, pause_vars, bounds
<1>16. CASE Main_run
  BY <1>1, <1>16, FieldOrderType
     DEF Inv, TypeOK, PauseInv, Field, Main_run,
         config_vars, sem_vars, main_vars, port_vars, pause_vars, bounds
<1>17. CASE Streaming_error
  BY <1>1, <1>17, FieldOrderType
     DEF Inv, TypeOK, PauseInv, Field, Streaming_error,
         config_vars, sem_vars, main_vars, port_vars, pause_vars, bounds
<1>18. CASE Port_receive
  BY <1>1, <1>18, FieldOrderType
     DEF Inv, TypeOK, PauseInv, Field, Port_receive,
         config_vars, sem_vars, main_vars, port_vars, pause_vars, bounds
<1>19. CASE Port_store
  BY <1>1, <1>19, FieldOrderType
     DEF Inv, TypeOK, PauseInv, Field, Port_store, FieldOrder,
         config_vars, sem_vars, main_vars, port_vars, pause_vars, bounds
<1>20. CASE Port_decide
  BY <1>1, <1>20, FieldOrderType
     DEF Inv, TypeOK, PauseInv, Field, Port_decide, Needs_restart,
         config_vars, sem_vars, main_vars, port_vars, pause_vars, bounds
<1>21. CASE Port_wait
  BY <1>1, <1>21, FieldOrderType
     DEF Inv, TypeOK, PauseInv, Field, Port_wait,
         config_vars, sem_vars, main_vars, port_vars, pause_vars, bounds
<1>22. CASE Port_take
  BY <1>1, <1>22, FieldOrderType
     DEF Inv, TypeOK, PauseInv, Field, Port_take,
         config_vars, sem_vars, main_vars, port_vars, pause_vars, bounds
<1>23. CASE Port_stale
  BY <1>1, <1>23, FieldOrderType
     DEF Inv, TypeOK, PauseInv, Field, Port_stale,
         config_vars, sem_vars, main_vars, port_vars, pause_vars, bounds
<1>24. CASE Port_give_up
  BY <1>1, <1>24, FieldOrderType
     DEF Inv, TypeOK, PauseInv, Field, Port_give_up,
         config_vars, sem_vars, main_vars, port_vars, pause_vars, bounds
<1>25. CASE Port_write
  BY <1>1, <1>25, FieldOrderType
     DEF Inv, TypeOK, PauseInv, Field, Port_write,
         config_vars, sem_vars, main_vars, port_vars, pause_vars, bounds
<1>26. CASE Port_release
  BY <1>1, <1>26, FieldOrderType
     DEF Inv, TypeOK, PauseInv, Field, Port_release, Released,
         config_vars, sem_vars, main_vars, port_vars, pause_vars, bounds
<1>27. CASE Nwm_pause_begin
  BY <1>1, <1>27, FieldOrderType
     DEF Inv, TypeOK, PauseInv, Field, Nwm_pause_begin,
         config_vars, sem_vars, main_vars, port_vars, pause_vars, bounds
<1>28. CASE Nwm_pause_pending
  BY <1>1, <1>28, FieldOrderType
     DEF Inv, TypeOK, PauseInv, Field, Nwm_pause_pending,
         config_vars, sem_vars, main_vars, port_vars, pause_vars, bounds
<1>29. CASE Nwm_pause_reset
  BY <1>1, <1>29, FieldOrderType
     DEF Inv, TypeOK, PauseInv, Field, Nwm_pause_reset,
         config_vars, sem_vars, main_vars, port_vars, pause_vars, bounds
<1>30. CASE Nwm_pause_ready
  BY <1>1, <1>30, FieldOrderType
     DEF Inv, TypeOK, PauseInv, Field, Nwm_pause_ready,
         config_vars, sem_vars, main_vars, port_vars, pause_vars, bounds
<1>31. CASE Nwm_unpause
  BY <1>1, <1>31, FieldOrderType
     DEF Inv, TypeOK, PauseInv, Field, Nwm_unpause,
         config_vars, sem_vars, main_vars, port_vars, pause_vars, bounds
<1>32. CASE UNCHANGED vars
  BY <1>1, <1>32 DEF Inv, TypeOK, PauseInv, vars, config_vars, sem_vars, main_vars, port_vars, pause_vars, bounds
<1>33. QED
  BY <1>2, <1>3, <1>4, <1>5, <1>6, <1>7, <1>8, <1>9, <1>10, <1>11, <1>12, <1>13, <1>14, <1>15, <1>16, <1>17, <1>18, <1>19, <1>20, <1>21, <1>22, <1>23, <1>24, <1>25, <1>26, <1>27, <1>28, <1>29, <1>30, <1>31, <1>32
     DEF Next, Main, Port, Notification, Nwm_pause

(* Every step keeps a missed setting covered by a reset. *)
LEMMA ConfigStep ==
  ASSUME Inv, [Next]_vars
  PROVE  ConfigInv'
<1>1. Inv
  OBVIOUS
<1>2. CASE Main_pause
  BY <1>1, <1>2, FieldOrderType
     DEF Inv, TypeOK, CountInv, ConfigInv, Field, Main_pause, Ready_signalled,
         config_vars, sem_vars, main_vars, port_vars, pause_vars, bounds
<1>3. CASE Main_shutdown
  BY <1>1, <1>3, FieldOrderType
     DEF Inv, TypeOK, CountInv, ConfigInv, Field, Main_shutdown, Pauses,
         config_vars, sem_vars, main_vars, port_vars, pause_vars, bounds
<1>4. CASE Main_wait_done
  BY <1>1, <1>4, FieldOrderType
     DEF Inv, TypeOK, CountInv, ConfigInv, Field, Main_wait_done,
         config_vars, sem_vars, main_vars, port_vars, pause_vars, bounds
<1>5. CASE Main_clear
  BY <1>1, <1>5, FieldOrderType
     DEF Inv, TypeOK, CountInv, ConfigInv, Field, Main_clear,
         config_vars, sem_vars, main_vars, port_vars, pause_vars, bounds
<1>6. CASE Main_mode
  BY <1>1, <1>6, FieldOrderType
     DEF Inv, TypeOK, CountInv, ConfigInv, Field, Main_mode,
         config_vars, sem_vars, main_vars, port_vars, pause_vars, bounds
<1>7. CASE Main_qos
  BY <1>1, <1>7, FieldOrderType
     DEF Inv, TypeOK, CountInv, ConfigInv, Field, Main_qos,
         config_vars, sem_vars, main_vars, port_vars, pause_vars, bounds
<1>8. CASE Main_lock
  BY <1>1, <1>8, FieldOrderType
     DEF Inv, TypeOK, CountInv, ConfigInv, Field, Main_lock,
         config_vars, sem_vars, main_vars, port_vars, pause_vars, bounds
<1>9. CASE Main_set_qos
  BY <1>1, <1>9, FieldOrderType
     DEF Inv, TypeOK, CountInv, ConfigInv, Field, Main_set_qos,
         config_vars, sem_vars, main_vars, port_vars, pause_vars, bounds
<1>10. CASE Main_quality
  BY <1>1, <1>10, FieldOrderType
     DEF Inv, TypeOK, CountInv, ConfigInv, Field, Main_quality,
         config_vars, sem_vars, main_vars, port_vars, pause_vars, bounds
<1>11. CASE Main_create
  BY <1>1, <1>11, FieldOrderType
     DEF Inv, TypeOK, CountInv, ConfigInv, Field, Main_create,
         config_vars, sem_vars, main_vars, port_vars, pause_vars, bounds
<1>12. CASE Main_take
  BY <1>1, <1>12, FieldOrderType
     DEF Inv, TypeOK, CountInv, ConfigInv, Field, Main_take,
         config_vars, sem_vars, main_vars, port_vars, pause_vars, bounds
<1>13. CASE Main_give_up
  BY <1>1, <1>13, FieldOrderType
     DEF Inv, TypeOK, CountInv, ConfigInv, Field, Main_give_up,
         config_vars, sem_vars, main_vars, port_vars, pause_vars, bounds
<1>14. CASE Main_write
  BY <1>1, <1>14, FieldOrderType
     DEF Inv, TypeOK, CountInv, ConfigInv, Field, Main_write,
         config_vars, sem_vars, main_vars, port_vars, pause_vars, bounds
<1>15. CASE Main_release
  BY <1>1, <1>15, FieldOrderType
     DEF Inv, TypeOK, CountInv, ConfigInv, Field, Main_release, Released,
         config_vars, sem_vars, main_vars, port_vars, pause_vars, bounds
<1>16. CASE Main_run
  BY <1>1, <1>16, FieldOrderType
     DEF Inv, TypeOK, CountInv, ConfigInv, Field, Main_run,
         config_vars, sem_vars, main_vars, port_vars, pause_vars, bounds
<1>17. CASE Streaming_error
  BY <1>1, <1>17, FieldOrderType
     DEF Inv, TypeOK, CountInv, ConfigInv, Field, Streaming_error,
         config_vars, sem_vars, main_vars, port_vars, pause_vars, bounds
<1>18. CASE Port_receive
  BY <1>1, <1>18, FieldOrderType
     DEF Inv, TypeOK, CountInv, ConfigInv, Field, Port_receive,
         config_vars, sem_vars, main_vars, port_vars, pause_vars, bounds
<1>19. CASE Port_store
  BY <1>1, <1>19, FieldOrderType
     DEF Inv, TypeOK, CountInv, ConfigInv, Field, Port_store, FieldOrder,
         config_vars, sem_vars, main_vars, port_vars, pause_vars, bounds
<1>20. CASE Port_decide
  BY <1>1, <1>20, FieldOrderType
     DEF Inv, TypeOK, CountInv, ConfigInv, Field, Port_decide, Needs_restart,
         config_vars, sem_vars, main_vars, port_vars, pause_vars, bounds
<1>21. CASE Port_wait
  BY <1>1, <1>21, FieldOrderType
     DEF Inv, TypeOK, CountInv, ConfigInv, Field, Port_wait,
         config_vars, sem_vars, main_vars, port_vars, pause_vars, bounds
<1>22. CASE Port_take
  BY <1>1, <1>22, FieldOrderType
     DEF Inv, TypeOK, CountInv, ConfigInv, Field, Port_take,
         config_vars, sem_vars, main_vars, port_vars, pause_vars, bounds
<1>23. CASE Port_stale
  BY <1>1, <1>23, FieldOrderType
     DEF Inv, TypeOK, CountInv, ConfigInv, Field, Port_stale,
         config_vars, sem_vars, main_vars, port_vars, pause_vars, bounds
<1>24. CASE Port_give_up
  BY <1>1, <1>24, FieldOrderType
     DEF Inv, TypeOK, CountInv, ConfigInv, Field, Port_give_up,
         config_vars, sem_vars, main_vars, port_vars, pause_vars, bounds
<1>25. CASE Port_write
  BY <1>1, <1>25, FieldOrderType
     DEF Inv, TypeOK, CountInv, ConfigInv, Field, Port_write,
         config_vars, sem_vars, main_vars, port_vars, pause_vars, bounds
<1>26. CASE Port_release
  BY <1>1, <1>26, FieldOrderType
     DEF Inv, TypeOK, CountInv, ConfigInv, Field, Port_release, Released,
         config_vars, sem_vars, main_vars, port_vars, pause_vars, bounds
<1>27. CASE Nwm_pause_begin
  BY <1>1, <1>27, FieldOrderType
     DEF Inv, TypeOK, CountInv, ConfigInv, Field, Nwm_pause_begin,
         config_vars, sem_vars, main_vars, port_vars, pause_vars, bounds
<1>28. CASE Nwm_pause_pending
  BY <1>1, <1>28, FieldOrderType
     DEF Inv, TypeOK, CountInv, ConfigInv, Field, Nwm_pause_pending,
         config_vars, sem_vars, main_vars, port_vars, pause_vars, bounds
<1>29. CASE Nwm_pause_reset
  BY <1>1, <1>29, FieldOrderType
     DEF Inv, TypeOK, CountInv, ConfigInv, Field, Nwm_pause_reset,
         config_vars, sem_vars, main_vars, port_vars, pause_vars, bounds
<1>30. CASE Nwm_pause_ready
  BY <1>1, <1>30, FieldOrderType
     DEF Inv, TypeOK, CountInv, ConfigInv, Field, Nwm_pause_ready,
         config_vars, sem_vars, main_vars, port_vars, pause_vars, bounds
<1>31. CASE Nwm_unpause
  BY <1>1, <1>31, FieldOrderType
     DEF Inv, TypeOK, CountInv, ConfigInv, Field, Nwm_unpause,
         config_vars, sem_vars, main_vars, port_vars, pause_vars, bounds
<1>32. CASE UNCHANGED vars
  BY <1>1, <1>32 DEF Inv, TypeOK, CountInv, ConfigInv, vars, config_vars, sem_vars, main_vars, port_vars, pause_vars, bounds
<1>33. QED
  BY <1>2, <1>3, <1>4, <1>5, <1>6, <1>7, <1>8, <1>9, <1>10, <1>11, <1>12, <1>13, <1>14, <1>15, <1>16, <1>17, <1>18, <1>19, <1>20, <1>21, <1>22, <1>23, <1>24, <1>25, <1>26, <1>27, <1>28, <1>29, <1>30, <1>31, <1>32
     DEF Next, Main, Port, Notification, Nwm_pause

(* Inv holds in every state of the restart protocol.                       *)
THEOREM RestartInvariant == Spec => []Inv
<1>1. Init => Inv
  BY InitInv
<1>2. Inv /\ [Next]_vars => Inv'
  BY TypeStep, CountStep, PauseStep, ConfigStep DEF Inv
<1>3. QED
  BY <1>1, <1>2, PTL DEF Spec

(* While the console sleeps the main thread is held in pause (nwmPause).   *)
THEOREM SleepStopsStream == Spec => []AsleepStopped
<1>1. Inv => AsleepStopped
  BY DEF Inv, PauseInv, AsleepStopped
<1>2. QED
  BY <1>1, RestartInvariant, PTL

(* A stream that runs with no reset to come, and no update under way, runs *)
(* with the settings set_config stored.                                    *)
THEOREM ConfigReachesStream == Spec => []RestartReadsConfig
<1>1. Inv => RestartReadsConfig
  BY DEF Inv, ConfigInv, RestartReadsConfig
<1>2. QED
  BY <1>1, RestartInvariant, PTL

=============================================================================
