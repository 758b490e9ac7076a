------------------------------ MODULE Recharger ------------------------------
(***************************************************************************)
(* The recharger of the ARM firmware, src/firmware/arm/lib_recharger.c: a  *)
(* finite-state automaton that finds the charging dock by its infrared     *)
(* beacon and drives into it.  recharger_event runs once per tick of the   *)
(* event loop and takes one step of the automaton every CF_EVENT_INTERVAL  *)
(* ticks; the console starts, stops and re-initialises it.  All of it runs *)
(* in the main loop; what it reads (light sensors, obstacles, wheel clicks *)
(* and bus voltage) is written by interrupts between any two steps.        *)
(***************************************************************************)
EXTENDS Integers, FiniteSets, FiniteSetsExt

CONSTANTS
  IR_LIGHT_SIZE,                     (* 8 beacon sensors, 0 looks ahead     *)
  IR_HISTORY_SIZE,                   (* 4 readings are kept of each         *)
  CF_EVENT_INTERVAL,                 (* 5 ticks per step                    *)
  CF_WANDER_LENGTH,                  (* 20 steps in one direction           *)
  CF_ROTATE_DOCK_IMMOBILE_TIMEOUT,   (* 100 steps without motion            *)
  CF_ROTATE_DOCK_FAIL_TIMEOUT,       (* 500 steps with motion               *)
  CLOSE_IMMOBILE,                    (* 5 steps without motion at the dock  *)
  DOCK_SIDEWAYS, DOCK_TURN, DOCK_CYCLE,  (* 20, 40 and 50: the docking cycle *)
  LightReadings,                     (* what the light sensors may read     *)
  Obstacles,                         (* the sets of distance sensors above threshold *)
  Directions,                        (* what armrandom() % 5 may return     *)
  Voltages                           (* the voltage bytes of the power board *)

Sensor == 0 .. IR_LIGHT_SIZE - 1
Reading == [Sensor -> 0 .. 255]

ASSUME SensorAssumption == IR_LIGHT_SIZE \in Nat \ {0}
ASSUME HistoryAssumption ==     \* "This should be even"
  IR_HISTORY_SIZE \in Nat \ {0} /\ IR_HISTORY_SIZE % 2 = 0
ASSUME LengthAssumption ==
  /\ CF_EVENT_INTERVAL \in 1 .. 255
  /\ CF_WANDER_LENGTH \in 1 .. 32767
  /\ CF_ROTATE_DOCK_FAIL_TIMEOUT \in 1 .. 32767
  /\ CF_ROTATE_DOCK_IMMOBILE_TIMEOUT \in 1 .. 255
  /\ CLOSE_IMMOBILE \in 1 .. 255
  /\ DOCK_SIDEWAYS \in Nat /\ DOCK_TURN \in Nat /\ DOCK_CYCLE \in Nat
ASSUME InputAssumption ==
  /\ LightReadings \subseteq [Sensor -> 0 .. 1023]
  /\ Obstacles \subseteq SUBSET (0 .. 9)
  /\ Directions \subseteq 0 .. 4
  /\ Voltages \subseteq 0 .. 255

VARIABLES
  recharger_enabled,
  counter,            \* ticks since the last step
  time,               \* steps since recharger_enable, counted to IR_HISTORY_SIZE
  irHistory,          \* the last readings, the newest first
  fsaState, lastFSAState,
  wanderCounter, wanderDirection, immobileCounter, alignAvoid, docking_cycle,
  drive,              \* the velocity the last step gave to the motor task, if any
  mi_disabled_commands,
  busy,               \* the LEDs show 'busy'
  fresh,              \* history variable: readings taken since recharger_enable
  moving,             \* some wheel clicked: motor_rx_data of the motor task
  volts               \* power_rx_data[1] of the motor task

fsa == <<fsaState, lastFSAState, wanderCounter, wanderDirection, immobileCounter,
         alignAvoid, docking_cycle>>
input == <<moving, volts>>
vars == <<recharger_enabled, counter, time, irHistory, fsa, drive, mi_disabled_commands,
          busy, fresh, input>>

States == {"WANDER", "ALIGN", "FORWARD", "CLOSE", "ROTATE", "DOCK", "DONE"}

IR_MINIMUM_THRESHOLD == 10
IR_SATURATION_THRESHOLD == 150
SHORE_POWER_MIN_VOLTAGE == 170
FSA_TARGET_SENSOR == 0

----------------------------------------------------------------------------
(* The beacon: recharger_update_history and its readers *)

Abs(a) == IF a >= 0 THEN a ELSE -a

Dark == [s \in Sensor |-> 0]

\* The beacon blinks in step with the readings, so a sensor's signal is the
\* alternating sum of its history.
beaconSensor(history) ==
  LET sum(s) == MapThenSumSet(LAMBDA j : (IF j % 2 = 1 THEN 1 ELSE -1) * history[j][s],
                              1 .. IR_HISTORY_SIZE)
  IN  [s \in Sensor |-> Abs(sum(s)) \div (IR_HISTORY_SIZE \div 2)]

\* The first of the sensors with the strongest signal.
recharger_beacon_dir(history) ==
  LET beacon == beaconSensor(history)
  IN  Min({s \in Sensor : \A t \in Sensor : beacon[t] <= beacon[s]})

recharger_sees_beacon(history) ==
  \E s \in Sensor : beaconSensor(history)[s] >= IR_MINIMUM_THRESHOLD

Ahead(history) == recharger_beacon_dir(history) = FSA_TARGET_SENSOR

\* Mutant: the reading is not truncated.
UpdateWhole(light) ==
  irHistory' = [j \in 1 .. IR_HISTORY_SIZE |-> IF j = 1 THEN light ELSE irHistory[j - 1]]

\* A reading of the 10-bit converter is stored in an unsigned char.
recharger_update_history(light) ==
  irHistory' = [j \in 1 .. IR_HISTORY_SIZE |->
                  IF j = 1 THEN [s \in Sensor |-> light[s] % 256] ELSE irHistory[j - 1]]

----------------------------------------------------------------------------
(* Motion *)

Velocity(x, y, theta) == [x |-> x, y |-> y, theta |-> theta]
recharger_act(v) == drive' = {v}
Idle == drive' = {}

\* Every distance sensor near an obstacle adds its own push away from it.
recharger_act_avoid(v) ==
  \E near \in Obstacles :
    LET count(sensors) == Cardinality(near \cap sensors)
    IN  recharger_act(
          IF near = {} THEN v
          ELSE Velocity(-15 * count({0, 1, 6}) + 7 * count({9}),
                        7 * count({4, 5, 6, 9}) - 7 * count({1, 2, 3}),
                        4 * count({7, 8})))

\* FSA_MAX_ROTATION_COMPONENT is 0, which clamps the rotation of
\* recharger_act_forward to 0 whatever the gradient of the beacon.
Forward(v) == Velocity(v, 0, 0)

\* Direction 4 falls to the default case: a pause, then direction 0.
WanderVelocity(direction) ==
  Velocity(IF direction = 0 THEN 20 ELSE IF direction = 1 THEN -20 ELSE 0,
           IF direction = 2 THEN 20 ELSE IF direction = 3 THEN -20 ELSE 0,
           0)

DockVelocity(cycle) ==
  IF cycle <= DOCK_SIDEWAYS THEN Velocity(0, -8, 0)
  ELSE IF cycle <= DOCK_TURN THEN Velocity(0, 0, -4)
  ELSE Velocity(0, 0, 0)

----------------------------------------------------------------------------
(* The states of the automaton.  Each handler reads irHistory' and gives     *)
(* fsa' and drive'.                                                          *)

\* recharger_enter_state from state s, wander and avoid being the values of
\* wanderCounter and alignAvoid at the call.
EnterFrom(s, new, wander, avoid) ==
  /\ lastFSAState' = s
  /\ fsaState' = new
  /\ wanderCounter' = IF new = "WANDER" THEN CF_WANDER_LENGTH
                      ELSE IF new \in {"ROTATE", "DOCK"} THEN CF_ROTATE_DOCK_FAIL_TIMEOUT
                      ELSE wander
  /\ alignAvoid' = (avoid \/ new \in {"WANDER", "ALIGN"})

\* The value immobile gets from recharger_enter_state.
Armed(new, immobile) ==
  IF new \in {"ROTATE", "DOCK"} THEN CF_ROTATE_DOCK_IMMOBILE_TIMEOUT ELSE immobile

recharger_enter_state(new) ==
  /\ EnterFrom(fsaState, new, wanderCounter, alignAvoid)
  /\ immobileCounter' = Armed(new, immobileCounter)
  /\ UNCHANGED <<wanderDirection, docking_cycle>>

recharger_fsa_wander ==
  /\ fsaState = "WANDER"
  /\ IF recharger_sees_beacon(irHistory') /\ wanderCounter = 0
     THEN recharger_enter_state("FORWARD") /\ Idle
     ELSE /\ \E direction \in IF wanderCounter <= 0 THEN Directions ELSE {wanderDirection} :
               /\ recharger_act_avoid(WanderVelocity(direction))
               /\ wanderDirection' = IF direction = 4 THEN 0 ELSE direction
          /\ wanderCounter' = (IF wanderCounter <= 0 THEN CF_WANDER_LENGTH
                                                     ELSE wanderCounter) - 1
          /\ UNCHANGED <<fsaState, lastFSAState, immobileCounter, alignAvoid, docking_cycle>>

recharger_fsa_align ==
  /\ fsaState = "ALIGN"
  /\ IF Ahead(irHistory')
     THEN recharger_enter_state(lastFSAState) /\ Idle
     ELSE LET v == Velocity(0, 0, IF recharger_beacon_dir(irHistory') <= 4 THEN 10 ELSE -10)
          IN  /\ IF alignAvoid THEN recharger_act_avoid(v) ELSE recharger_act(v)
              /\ UNCHANGED fsa

recharger_fsa_forward ==
  LET near == beaconSensor(irHistory')[FSA_TARGET_SENSOR] >= IR_SATURATION_THRESHOLD
      sees == recharger_sees_beacon(irHistory')
  IN  /\ fsaState = "FORWARD"
      /\ \/ ~sees /\ recharger_enter_state("WANDER") /\ Idle
         \/ /\ sees /\ near
            /\ EnterFrom("FORWARD", "CLOSE", wanderCounter, alignAvoid)
            /\ immobileCounter' = CLOSE_IMMOBILE
            /\ UNCHANGED <<wanderDirection, docking_cycle>>
            /\ Idle
         \/ /\ sees /\ ~near /\ ~Ahead(irHistory')
            /\ recharger_enter_state("ALIGN") /\ Idle
         \/ /\ sees /\ ~near /\ Ahead(irHistory')
            /\ recharger_act_avoid(Forward(20))
            /\ UNCHANGED fsa

\* --immobileCounter on an unsigned char.
Decremented(x) == (x - 1) % 256

\* Mutant: every step of CLOSE arms the counter anew.
CloseRearmed == CLOSE_IMMOBILE

CloseCount == Decremented(immobileCounter)

\* The state, last state, wanderCounter and alignAvoid after a lost beacon has
\* sent CLOSE to WANDER; the handler goes on.
Lost == [state |-> "WANDER", last |-> "CLOSE", wander |-> CF_WANDER_LENGTH, avoid |-> TRUE]
Held == [state |-> "CLOSE", last |-> lastFSAState, wander |-> wanderCounter,
         avoid |-> alignAvoid]

recharger_fsa_close ==
  LET now == IF recharger_sees_beacon(irHistory') THEN Held ELSE Lost
      stay == /\ fsaState' = now.state /\ lastFSAState' = now.last
              /\ wanderCounter' = now.wander /\ alignAvoid' = now.avoid
  IN  /\ fsaState = "CLOSE"
      /\ UNCHANGED <<wanderDirection, docking_cycle>>
      /\ \/ /\ ~Ahead(irHistory')       \* fsaState is assigned, the last state is kept
            /\ fsaState' = "ALIGN" /\ lastFSAState' = now.last
            /\ wanderCounter' = now.wander /\ alignAvoid' = FALSE
            /\ UNCHANGED immobileCounter
            /\ Idle
         \/ /\ Ahead(irHistory') /\ ~moving
            /\ IF CloseCount = 0
               THEN /\ EnterFrom(now.state, "ROTATE", now.wander, now.avoid)
                    /\ immobileCounter' = CF_ROTATE_DOCK_IMMOBILE_TIMEOUT
               ELSE stay /\ immobileCounter' = CloseCount
            /\ Idle
         \/ /\ Ahead(irHistory') /\ moving
            /\ stay /\ UNCHANGED immobileCounter
            /\ recharger_act(Forward(8))

recharger_fsa_rotate ==
  /\ fsaState = "ROTATE"
  /\ recharger_enter_state("DOCK")
  /\ Idle

\* power_get_voltage of the motor task: 0 is a communication error.
power_get_voltage == IF volts = 0 THEN 255 ELSE volts

Attempting == UNCHANGED <<fsaState, lastFSAState, wanderCounter, alignAvoid>>
GiveUp == EnterFrom("DOCK", "WANDER", wanderCounter, alignAvoid)

\* Mutant: motion resets the immobile counter and nothing counts it.
DockForever ==
  \/ moving /\ immobileCounter' = CF_ROTATE_DOCK_IMMOBILE_TIMEOUT /\ Attempting
  \/ /\ ~moving /\ immobileCounter' = Decremented(immobileCounter)
     /\ IF Decremented(immobileCounter) = 0 THEN GiveUp ELSE Attempting

\* Mutant: the counter is tested before it is decremented.
DockLate ==
  \/ /\ ~moving /\ immobileCounter' = Decremented(immobileCounter)
     /\ IF immobileCounter = 0 THEN GiveUp ELSE Attempting
  \/ moving /\ GiveUp /\ UNCHANGED immobileCounter

\* What a docking attempt counts before it is given up.
DockAttempt ==
  \/ /\ ~moving /\ immobileCounter' = Decremented(immobileCounter)
     /\ IF Decremented(immobileCounter) = 0 THEN GiveUp ELSE Attempting
  \/ /\ moving /\ wanderCounter - 1 <= 0
     /\ GiveUp
     /\ UNCHANGED immobileCounter
  \/ /\ moving /\ wanderCounter - 1 > 0
     /\ wanderCounter' = wanderCounter - 1
     /\ immobileCounter' = CF_ROTATE_DOCK_IMMOBILE_TIMEOUT
     /\ UNCHANGED <<fsaState, lastFSAState, alignAvoid>>

\* The motion of the docking cycle is given even in the step that gives up.
recharger_fsa_dock ==
  /\ fsaState = "DOCK"
  /\ UNCHANGED wanderDirection
  /\ IF power_get_voltage > SHORE_POWER_MIN_VOLTAGE
     THEN recharger_enter_state("DONE") /\ Idle
     ELSE /\ DockAttempt
          /\ recharger_act(DockVelocity(docking_cycle))
          /\ docking_cycle' = IF docking_cycle + 1 > DOCK_CYCLE THEN 0 ELSE docking_cycle + 1

----------------------------------------------------------------------------
(* recharger_event *)

\* Mutant: one reading of the history is left over from before.
WarmedUpEarly == time + 2 >= IR_HISTORY_SIZE

WarmedUp == time + 1 >= IR_HISTORY_SIZE

\* "Do nothing until we have one full history of data."  The switch has no
\* case for DONE: recharger_fsa_done is never called.
recharger_step ==
  /\ \E light \in LightReadings : recharger_update_history(light)
  /\ time' = Min({time + 1, IR_HISTORY_SIZE})
  /\ fresh' = Min({fresh + 1, IR_HISTORY_SIZE})
  /\ IF WarmedUp /\ fsaState # "DONE"
     THEN \/ recharger_fsa_wander
          \/ recharger_fsa_align
          \/ recharger_fsa_forward
          \/ recharger_fsa_close
          \/ recharger_fsa_rotate
          \/ recharger_fsa_dock
     ELSE UNCHANGED fsa /\ Idle

recharger_event ==
  /\ recharger_enabled
  /\ IF counter + 1 >= CF_EVENT_INTERVAL
     THEN counter' = 0 /\ recharger_step
     ELSE counter' = counter + 1 /\ UNCHANGED <<time, irHistory, fsa, drive, fresh>>
  /\ UNCHANGED <<recharger_enabled, mi_disabled_commands, busy, input>>

----------------------------------------------------------------------------
(* The console *)

\* Mutant: the state is kept.
ResetKeepsState ==
  /\ wanderCounter' = CF_WANDER_LENGTH
  /\ irHistory' = [j \in 1 .. IR_HISTORY_SIZE |-> Dark]
  /\ counter' = 0
  /\ time' = 0
  /\ alignAvoid' = TRUE
  /\ UNCHANGED <<fsaState, lastFSAState, wanderDirection, immobileCounter, docking_cycle>>

\* The counters of docking, the direction and the docking cycle are kept.
recharger_reset ==
  /\ wanderCounter' = CF_WANDER_LENGTH
  /\ irHistory' = [j \in 1 .. IR_HISTORY_SIZE |-> Dark]
  /\ counter' = 0
  /\ time' = 0
  /\ alignAvoid' = TRUE
  /\ fsaState' = "WANDER" /\ lastFSAState' = "WANDER"
  /\ UNCHANGED <<wanderDirection, immobileCounter, docking_cycle>>

\* "recharge start": recharger_reset and recharger_enable.
Start ==
  /\ recharger_reset
  /\ recharger_enabled' = TRUE
  /\ mi_disabled_commands' = TRUE
  /\ busy' = TRUE
  /\ fresh' = 0
  /\ UNCHANGED <<drive, input>>

\* "recharge stop".
recharger_disable ==
  /\ recharger_enabled' = FALSE
  /\ mi_disabled_commands' = FALSE
  /\ busy' = FALSE
  /\ UNCHANGED <<counter, time, irHistory, fsa, drive, fresh, input>>

\* "pid init" of the recharger: the machine interface stays disabled.
recharger_init ==
  /\ recharger_enabled' = FALSE
  /\ recharger_reset
  /\ UNCHANGED <<mi_disabled_commands, busy, drive, fresh, input>>

\* The motor task's buffers, which the SPI interrupt fills.
Replies ==
  /\ moving' \in BOOLEAN
  /\ volts' \in Voltages
  /\ input' # input
  /\ UNCHANGED <<recharger_enabled, counter, time, irHistory, fsa, drive,
                 mi_disabled_commands, busy, fresh>>

----------------------------------------------------------------------------
\* The C variables start as zero and recharger_init has run at boot.
Init ==
  /\ recharger_enabled = FALSE
  /\ counter = 0 /\ time = 0 /\ fresh = 0
  /\ irHistory = [j \in 1 .. IR_HISTORY_SIZE |-> Dark]
  /\ fsaState = "WANDER" /\ lastFSAState = "WANDER"
  /\ wanderCounter = CF_WANDER_LENGTH /\ wanderDirection = 0
  /\ immobileCounter = 0 /\ alignAvoid = TRUE /\ docking_cycle = 0
  /\ drive = {}
  /\ mi_disabled_commands = FALSE
  /\ busy = FALSE
  /\ moving = FALSE
  /\ volts \in Voltages

Next ==
  \/ recharger_event
  \/ Start
  \/ recharger_disable
  \/ recharger_init
  \/ Replies

\* events_do calls recharger_event on every tick of the event loop.
Spec == Init /\ [][Next]_vars /\ WF_vars(recharger_event)

----------------------------------------------------------------------------
(* Properties *)

TypeOK ==
  /\ {recharger_enabled, alignAvoid, mi_disabled_commands, busy, moving} \subseteq BOOLEAN
  /\ counter \in 0 .. CF_EVENT_INTERVAL - 1
  /\ {time, fresh} \subseteq 0 .. IR_HISTORY_SIZE
  /\ irHistory \in [1 .. IR_HISTORY_SIZE -> Reading]
  /\ fsaState \in States /\ lastFSAState \in States
  /\ wanderCounter \in 0 .. Max({CF_WANDER_LENGTH, CF_ROTATE_DOCK_FAIL_TIMEOUT})
  /\ wanderDirection \in 0 .. 3
  /\ immobileCounter \in 0 .. 255
  /\ docking_cycle \in 0 .. DOCK_CYCLE
  /\ drive \subseteq [x: Int, y: Int, theta: Int]
  /\ volts \in Voltages

\* immobileCounter is an unsigned char tested after a decrement, and one value
\* of it serves CLOSE, ROTATE and DOCK: wherever the next step may decrement it
\* or may return to a state that does, it is not yet 0, so that it never wraps
\* to 255 and never stretches an attempt.
NeverWraps ==
  /\ fsaState \in {"CLOSE", "DOCK"} => immobileCounter > 0
  /\ fsaState = "DOCK" => wanderCounter > 0
  /\ fsaState = "ALIGN" /\ lastFSAState = "CLOSE" => immobileCounter > 0

\* The automaton acts only on readings all taken after it was enabled
\* ("Do nothing until we have one full history of data"), however the console
\* stops, initialises and restarts it.
FreshHistory ==
  [][recharger_event /\ fsa' # fsa => fresh' = IR_HISTORY_SIZE]_vars

\* A docking attempt ends, in the dock or in a new search, however the wheels
\* move: each counter is reset or kept while the other one counts.
DockingEnds ==
  recharger_enabled /\ fsaState = "DOCK" ~> ~recharger_enabled \/ fsaState # "DOCK"

\* A robot blocked against something near the beacon does not stay in CLOSE.
BlockedCloseEnds ==
  <>[](recharger_enabled /\ ~moving) => []<>(fsaState # "CLOSE")

\* The automaton is a dock search.
phase ==
  IF fsaState = "WANDER" THEN "search"
  ELSE IF fsaState \in {"FORWARD", "ALIGN", "CLOSE"} THEN "approach"
  ELSE IF fsaState \in {"ROTATE", "DOCK"} THEN "dock" ELSE "docked"

Search == INSTANCE DockSearch WITH enabled <- recharger_enabled

\* Every step of recharger_event and of the console is a step of the search.
ImplementsSearch == Search!Spec

\* "If aligned, drive forward": a step of ALIGN that finds the beacon ahead
\* leaves ALIGN for the state the alignment interrupted.
AlignedDrivesOn ==
  [][recharger_event /\ fsaState = "ALIGN" /\ fresh' = IR_HISTORY_SIZE
       /\ counter' = 0 /\ Ahead(irHistory') => fsaState' # "ALIGN"]_vars

\* "Disable routine after a little while": once docked, the recharger gives the
\* robot back.
DoneDisables == fsaState = "DONE" ~> ~recharger_enabled

\* The recharger is done only on a bus voltage above that of shore power.
DoneOnShorePower ==
  [][fsaState' = "DONE" /\ fsaState # "DONE" => volts > SHORE_POWER_MIN_VOLTAGE]_vars
=============================================================================
