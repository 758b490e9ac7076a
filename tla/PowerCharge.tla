----------------------------- MODULE PowerCharge -----------------------------
(***************************************************************************)
(* The power board, src/firmware/avr/CritterbotAVRPower: the main loop     *)
(* samples the voltages, filters them into the bits of system_state,       *)
(* switches the batteries and the computer, and takes one step of the      *)
(* charging automaton, charge().  The automaton charges the batteries 40,  *)
(* 160 and 280 one after the other and saves its progress in the EEPROM;   *)
(* the board may lose power at any point, and the robot may leave the dock *)
(* in any state.  The SPI interrupt stores the ARM's command byte between  *)
(* any two steps; charge() reads it once.                                  *)
(***************************************************************************)
EXTENDS Integers, FiniteSets

CONSTANTS
  LOW_VOLT_COUNT,         (* 50 samples below SYS_LOW_VOLT_THRESH switch off     *)
  CHARGE_VOLTAGE_DELAY,   (* 10 samples above CHARGE_THRESH allow charging       *)
  BAT_COUNT_MAX,          (* 10 ...                                              *)
  BAT_COUNT_BAD,          (* 7: this many unequal samples clear BAT_OK           *)
  BAT_COUNT_GOOD,         (* 3: at this many left BAT_OK is set                  *)
  INITIAL_SAMPLES,        (* 55 samples before the loop                          *)
  SystemVoltages,         (* what get_vsys may return                            *)
  BatteryVoltages         (* what the get_bat*_voltage functions may return      *)

Battery == {40, 160, 280}

ASSUME CountAssumption ==
  /\ {LOW_VOLT_COUNT, CHARGE_VOLTAGE_DELAY, INITIAL_SAMPLES} \subseteq 1 .. 255
  /\ 0 <= BAT_COUNT_GOOD /\ BAT_COUNT_GOOD < BAT_COUNT_BAD /\ BAT_COUNT_BAD <= BAT_COUNT_MAX
  /\ {BAT_COUNT_MAX, BAT_COUNT_BAD, BAT_COUNT_GOOD} \subseteq 0 .. 255
ASSUME VoltageAssumption ==
  /\ SystemVoltages \subseteq 0 .. 255
  /\ BatteryVoltages \subseteq [Battery -> 0 .. 255]

VARIABLES
  phase,          \* where main is: the two initial samplings, the wait for the charger, the loop
  samples,        \* samples taken in an initial sampling
  charge_state,
  eeprom,         \* the byte at CHARGE_STAT_EEPROM
  chargers,       \* the chargers that are enabled
  voltage_ok, charge_ok, bat_ok, errors, fatal,     \* the bits of system_state
  low_count, off, bat_count, delay,   \* the static variables of the filters
  batteries, cpu,       \* BATEN and CPUEN
  no_charge,            \* commands & POWER_CHARGING_DISABLED
  charging_disabled     \* as the last charge() computed it

state_bits == <<voltage_ok, charge_ok, bat_ok>>
filters == <<low_count, off, bat_count, delay, state_bits>>
charging == <<charge_state, eeprom, chargers, errors, charging_disabled>>
supplies == <<batteries, cpu, fatal>>
boot == <<phase, samples>>
vars == <<boot, charging, filters, supplies, no_charge>>

SYS_LOW_VOLT_THRESH == 120
SYS_VOLT_RECOVERED == 170
CHARGE_THRESH == 172
MIN_BAT_CHARGE_VOLTAGE == 160
OVERRIDE_CHARGING_DISABLED_VOLTAGE == 145
MIN_BAT_VOLTAGE == 80
VOLT_DIFF == 2

CHARGER_COMM_ERROR == 0           \* beside the batteries in the set of errors
CHARGING_INTERRUPTED == 201
FUEL_ERROR == 210                 \* 211 .. 235, one per check that failed
ChargeStates == 0 .. 11 \cup {CHARGING_INTERRUPTED, FUEL_ERROR}

----------------------------------------------------------------------------
(* The filters, once per sample *)

system_voltage_okay(v) ==
  /\ low_count' = IF v < SYS_LOW_VOLT_THRESH
                  THEN IF low_count < LOW_VOLT_COUNT THEN low_count + 1 ELSE low_count
                  ELSE 0
  /\ off' = (low_count' = LOW_VOLT_COUNT \/ (off /\ v <= SYS_VOLT_RECOVERED))
  /\ voltage_ok' = ~off'

battery_level_okay(bat) ==
  /\ bat_count' = IF \E a, b \in Battery : bat[a] > bat[b] + VOLT_DIFF
                  THEN IF bat_count < BAT_COUNT_MAX THEN bat_count + 1 ELSE bat_count
                  ELSE IF bat_count > 0 THEN bat_count - 1 ELSE bat_count
  /\ bat_ok' = (bat_count' <= BAT_COUNT_GOOD \/ (bat_count' < BAT_COUNT_BAD /\ bat_ok))

\* Mutant: the delay is not bounded.
ChargeOkayUnbounded(v) ==
  /\ delay' = IF v > CHARGE_THRESH THEN delay + 1 ELSE IF delay > 0 THEN delay - 1 ELSE delay
  /\ charge_ok' = (delay' >= CHARGE_VOLTAGE_DELAY)

charge_okay(v) ==
  /\ delay' = IF v > CHARGE_THRESH
              THEN IF delay < CHARGE_VOLTAGE_DELAY THEN delay + 1 ELSE delay
              ELSE IF delay > 0 THEN delay - 1 ELSE delay
  /\ charge_ok' = (delay' >= CHARGE_VOLTAGE_DELAY)

Sample(v, bat) ==
  system_voltage_okay(v) /\ battery_level_okay(bat) /\ charge_okay(v)

----------------------------------------------------------------------------
(* charge(): each step of the automaton starts in state s, the byte saved    *)
(* being in the EEPROM                                                       *)

Ram(s, saved) == charge_state' = s /\ eeprom' = saved

\* Mutant: the EEPROM is not written.
SetRamOnly(s) == Ram(s, eeprom)

set_charge_state(s) == Ram(s, s)
Chargers(offs, ons) == chargers' = (chargers \ offs) \cup ons
NoError == errors' = errors

\* The charger reports a state it should not be in.
Fails(saved, blamed) == Ram(FUEL_ERROR, saved) /\ errors' = errors \cup blamed

\* Mutant: waiting for a charge leaves the chargers as they are.
IdleEnabled(s, saved, bat) ==
  /\ s = 0
  /\ IF bat[40] < MIN_BAT_CHARGE_VOLTAGE THEN set_charge_state(1) ELSE Ram(s, saved)
  /\ UNCHANGED <<chargers, errors>>

\* Not charging: a charge starts when no battery is missing and they are uneven
\* or, charging not being disabled, somewhat discharged.
Idle(s, saved, bat) ==
  LET ready == \A b \in Battery : bat[b] >= MIN_BAT_VOLTAGE
      due == ~bat_ok' \/ (~charging_disabled' /\ bat[40] < MIN_BAT_CHARGE_VOLTAGE)
  IN  /\ s = 0
      /\ Chargers(Battery, {})
      /\ IF ready /\ due THEN set_charge_state(1) ELSE Ram(s, saved)
      /\ NoError

\* Mutant: the previous charger is not disabled.
EnableBoth(s, saved) ==
  /\ \/ s \in {1, 3} /\ Chargers({}, {40})
     \/ s = 5 /\ Chargers({}, {160})
     \/ s = 8 /\ Chargers({}, {280})
  /\ Ram(s + 1, saved)
  /\ NoError

\* The states that enable a charger and go on without saving.
Enable(s, saved) ==
  /\ \/ s \in {1, 3} /\ Chargers({}, {40})
     \/ s = 5 /\ Chargers({40}, {160})
     \/ s = 8 /\ Chargers({160}, {280})
  /\ Ram(s + 1, saved)
  /\ NoError

\* Full charge: 2, 6 and 9.  Only charger 160 may shut down without a top off.
FullCharge(s, saved, c, stat) ==
  \/ stat = "base" /\ Ram(s, saved) /\ NoError
  \/ stat = "topoff" /\ set_charge_state(s + 1) /\ NoError
  \/ stat = "invalid" /\ Fails(saved, {CHARGER_COMM_ERROR, c})
  \/ stat = "shutdown" /\ IF c = 160 THEN set_charge_state(8) /\ NoError
                                     ELSE Fails(saved, {c})

\* Mutant: charger 160 is charged again after its top off.
TopOffRepeats(s, saved, c, stat) ==
  \/ stat \in {"base", "topoff"} /\ Ram(s, saved) /\ NoError
  \/ stat = "invalid" /\ Fails(saved, {CHARGER_COMM_ERROR, c})
  \/ /\ stat = "shutdown"
     /\ IF c = 280 THEN Ram(11, 0) ELSE set_charge_state(5)
     /\ NoError

\* Top off: 4, 7 and 10.  At the end the EEPROM restarts from 0 while the RAM
\* says complete.
TopOff(s, saved, c, stat) ==
  \/ stat \in {"base", "topoff"} /\ Ram(s, saved) /\ NoError
  \/ stat = "invalid" /\ Fails(saved, {CHARGER_COMM_ERROR, c})
  \/ /\ stat = "shutdown"
     /\ IF c = 280 THEN Ram(11, 0) ELSE set_charge_state(IF c = 40 THEN 5 ELSE 8)
     /\ NoError

\* The statuses are two bits read from the charger.
Status == {"base", "invalid", "topoff", "shutdown"}

Supervise(s, saved, bat) ==
  \E stat \in Status :
    \/ s = 2 /\ Chargers({}, {40}) /\ FullCharge(s, saved, 40, stat)
    \/ s = 4 /\ bat[280] >= MIN_BAT_VOLTAGE /\ Chargers({}, {40}) /\ TopOff(s, saved, 40, stat)
    \/ s = 6 /\ Chargers({40}, {160}) /\ FullCharge(s, saved, 160, stat)
    \/ s = 7 /\ Chargers({}, {160}) /\ TopOff(s, saved, 160, stat)
    \/ s = 9 /\ Chargers({160}, {280}) /\ FullCharge(s, saved, 280, stat)
    \/ s = 10 /\ Chargers({}, {280}) /\ TopOff(s, saved, 280, stat)

\* The batteries have gone while charger 40 tops off.
Unloaded(s, bat) ==
  /\ s = 4 /\ bat[280] < MIN_BAT_VOLTAGE
  /\ Chargers({40, 160}, {})
  /\ set_charge_state(0)
  /\ NoError

Stopped(s, saved) ==
  /\ s = 11 \/ s > 200
  /\ Chargers(Battery, {})
  /\ Ram(s, saved)
  /\ NoError

Stage(s, saved, bat) ==
  \/ Idle(s, saved, bat)
  \/ Enable(s, saved)
  \/ Supervise(s, saved, bat)
  \/ Unloaded(s, bat)
  \/ Stopped(s, saved)

\* Away from the dock: no charger is touched, the EEPROM keeps the progress.
Unplugged ==
  /\ Ram(IF charge_state \in 1 .. 10 THEN CHARGING_INTERRUPTED
         ELSE IF charge_state = 11 THEN 0 ELSE charge_state, eeprom)
  /\ UNCHANGED <<chargers, errors>>

\* Back on the dock, an interrupted charge resumes or starts again, and its
\* step follows in the same call.
charge(bat) ==
  /\ charging_disabled' = (no_charge /\ \A b \in Battery :
                                          bat[b] > OVERRIDE_CHARGING_DISABLED_VOLTAGE)
  /\ IF ~charge_ok' THEN Unplugged
     ELSE IF charge_state # CHARGING_INTERRUPTED THEN Stage(charge_state, eeprom, bat)
     ELSE IF bat[40] < MIN_BAT_CHARGE_VOLTAGE THEN Stage(0, 0, bat)
     ELSE Stage(eeprom, eeprom, bat)

----------------------------------------------------------------------------
(* main *)

\* Mutant: the switch looks at the low bits of system_state only.
FaultMasked == FALSE

\* The default case of the switch; any error is fatal until a reset.
Fault == fatal \/ errors # {}

\* Batteries and computer follow the bits of system_state.
Supply(sw1) ==
  /\ fatal' = Fault
  /\ batteries' = IF Fault THEN FALSE ELSE IF charge_ok' THEN batteries ELSE bat_ok'
  /\ cpu' = (sw1 /\ ~Fault /\ (charge_ok' \/ (bat_ok' /\ voltage_ok')))

\* initial_sampling, before and after the wait for the charger.
initial_sampling ==
  /\ phase \in {"first", "second"}
  /\ \E v \in SystemVoltages, bat \in BatteryVoltages : Sample(v, bat)
  /\ IF samples + 1 < INITIAL_SAMPLES
     THEN samples' = samples + 1 /\ UNCHANGED phase
     ELSE samples' = 0 /\ phase' = IF phase = "first" THEN "wait" ELSE "loop"
  /\ UNCHANGED <<charging, supplies, no_charge>>

\* "If we were shutdown and partially charged, we won't continue unless the
\* charger is plugged in!"
wait_for_charger ==
  /\ phase = "wait"
  /\ IF charge_state # 0 /\ ~charge_ok
     THEN /\ \E v \in SystemVoltages : system_voltage_okay(v) /\ charge_okay(v)
          /\ UNCHANGED <<bat_count, bat_ok, phase>>
     ELSE phase' = "second" /\ UNCHANGED filters
  /\ UNCHANGED <<samples, charging, supplies, no_charge>>

\* One iteration of the loop; switch 2 enables charging.
main_loop ==
  /\ phase = "loop"
  /\ \E v \in SystemVoltages, bat \in BatteryVoltages, sw1, sw2 \in BOOLEAN :
       /\ Sample(v, bat)
       /\ Supply(sw1)
       /\ IF sw2 THEN charge(bat) ELSE UNCHANGED charging
  /\ UNCHANGED <<boot, no_charge>>

\* The SPI interrupt receives the byte of power_init_packet.
SPI_STC_vect ==
  /\ no_charge' = ~no_charge
  /\ UNCHANGED <<boot, charging, filters, supplies>>

\* charger_init and general_init at power-up; the EEPROM survives, and reads
\* 0xFF when it has been cleared.
PowerUp(saved) ==
  /\ phase' = "first" /\ samples' = 0
  /\ set_charge_state(IF saved = 255 THEN 0 ELSE saved)
  /\ chargers' = {} /\ errors' = {} /\ fatal' = FALSE /\ charging_disabled' = FALSE
  /\ low_count' = 0 /\ off' = FALSE /\ bat_count' = 0 /\ delay' = 0
  /\ voltage_ok' = FALSE /\ charge_ok' = FALSE /\ bat_ok' = FALSE
  /\ batteries' = FALSE /\ cpu' = FALSE /\ no_charge' = FALSE

Reset == PowerUp(eeprom)

----------------------------------------------------------------------------
\* Power-up with a fresh EEPROM.
Init ==
  /\ phase = "first" /\ samples = 0
  /\ charge_state = 0 /\ eeprom = 0
  /\ chargers = {} /\ errors = {} /\ fatal = FALSE /\ charging_disabled = FALSE
  /\ low_count = 0 /\ off = FALSE /\ bat_count = 0 /\ delay = 0
  /\ voltage_ok = FALSE /\ charge_ok = FALSE /\ bat_ok = FALSE
  /\ batteries = FALSE /\ cpu = FALSE /\ no_charge = FALSE

Next ==
  \/ initial_sampling
  \/ wait_for_charger
  \/ main_loop
  \/ SPI_STC_vect
  \/ Reset

Spec == Init /\ [][Next]_vars

----------------------------------------------------------------------------
(* Properties *)

TypeOK ==
  /\ phase \in {"first", "wait", "second", "loop"}
  /\ samples \in 0 .. INITIAL_SAMPLES - 1
  /\ charge_state \in ChargeStates
  /\ eeprom \in 0 .. 10
  /\ chargers \subseteq Battery
  /\ errors \subseteq Battery \cup {CHARGER_COMM_ERROR}
  /\ low_count \in 0 .. LOW_VOLT_COUNT
  /\ bat_count \in 0 .. BAT_COUNT_MAX
  /\ delay \in 0 .. CHARGE_VOLTAGE_DELAY
  /\ {voltage_ok, charge_ok, bat_ok, fatal, off, batteries, cpu, no_charge,
      charging_disabled} \subseteq BOOLEAN

\* Whatever the states that skip the EEPROM, the saved byte is the state of the
\* charge or the one before it: an interruption, a power loss or both in a row
\* resume the stage that was running, and a complete charge resumes none.
ResumePoint ==
  /\ charge_state \in 1 .. 10 => eeprom \in {charge_state, charge_state - 1} \ {0}
  /\ charge_state \in {0, 11} => eeprom = 0
  /\ charge_state \in {CHARGING_INTERRUPTED, FUEL_ERROR} => eeprom \in 1 .. 10

\* Two chargers never feed the batteries at once: across undocking (which
\* leaves a charger enabled), resuming, restarting and errors, every state that
\* enables a charger has had the previous one disabled.
OneCharger == Cardinality(chargers) <= 1

\* A charger is only enabled in the stage of its battery, or left enabled by
\* an interruption, an error, a completion or an undocking.
ChargerOfStage ==
  /\ 40 \in chargers => charge_state \notin 6 .. 10
  /\ 160 \in chargers => charge_state \in {6, 7, 8, 0, CHARGING_INTERRUPTED, FUEL_ERROR}
  /\ 280 \in chargers => charge_state \in {9, 10, 11, 0, CHARGING_INTERRUPTED, FUEL_ERROR}

\* "Setting this means we will stay in this state until a reset": a charger
\* error cuts the batteries and the computer, and neither the filters nor the
\* charging automaton, which go on, ever bring them back.
FatalUntilReset ==
  /\ [][fatal => Reset \/ (fatal' /\ ~batteries' /\ ~cpu')]_vars
  /\ [][errors # {} /\ main_loop => fatal' /\ ~batteries' /\ ~cpu']_vars

\* The saved stage only advances, until the charge is over or starts again.
StageAdvances ==
  [][eeprom' # eeprom => eeprom' > eeprom \/ eeprom' \in {0, 1}]_vars

\* "Charging will remain disabled until enable_charging() is called" (the
\* override below 14.5 V aside): a call of charge() that takes charging for
\* disabled leaves no charger enabled.
DisabledStaysDisabled ==
  [][main_loop /\ charging_disabled' /\ chargers' # chargers => chargers' = {}]_vars
=============================================================================
